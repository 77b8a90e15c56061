---------------------------- MODULE InputEvents ----------------------------
(***************************************************************************)
(* What the three input hooks share: the modifier mask of uiohook.h, here  *)
(* the set of its bits, and what its numbers mean to a listener.           *)
(***************************************************************************)
EXTENDS Naturals, Sequences

ModifierKeys == {"SHIFT_L", "SHIFT_R", "CTRL_L", "CTRL_R",
                 "ALT_L", "ALT_R", "META_L", "META_R"}
LockKeys == {"NUM_LOCK", "CAPS_LOCK", "SCROLL_LOCK"}
ButtonBit == <<"BUTTON1", "BUTTON2", "BUTTON3", "BUTTON4", "BUTTON5">>
ButtonBits == {ButtonBit[i] : i \in 1..5}
MaskBits == ModifierKeys \cup LockKeys \cup ButtonBits

\* The bits of the keys that are down, and those of mouse buttons 1..5.
Shown(keys, mouseButtons) ==
    (keys \cap ModifierKeys) \cup {ButtonBit[n] : n \in mouseButtons \cap 1..5}

\* The bits in which two masks differ.
Differ(a, b) == (a \ b) \cup (b \ a)

\* Reference for click counting: the last n presses are of one button, and each
\* but the first came within `time` of the one before.
IsRun(presses, time, n) ==
    LET last == Len(presses) IN
    \A i \in (last - n + 1)..last :
        /\ presses[i].button = presses[last].button
        /\ i > last - n + 1 => presses[i].time <= presses[i - 1].time + time

\* The length of the run that the last press ends.
RunLength(presses, time) ==
    CHOOSE n \in 1..Len(presses) :
        /\ IsRun(presses, time, n)
        /\ \A k \in (n + 1)..Len(presses) : ~IsRun(presses, time, k)

\* What is kept of a history of which only the newest n entries matter.
LastFew(s, n) == IF Len(s) > n THEN Tail(s) ELSE s

=============================================================================
