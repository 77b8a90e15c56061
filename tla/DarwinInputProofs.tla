------------------------- MODULE DarwinInputProofs --------------------------
(***************************************************************************)
(* What the macOS hook keeps from one event to the next, for any keys and  *)
(* buttons, any clock and any limit of the click count: the proofs about   *)
(* DarwinInput.                                                            *)
(***************************************************************************)
EXTENDS DarwinInput, InputEventsProofs

-----------------------------------------------------------------------------
(* Types.                                                                  *)

Click == [count : 0..ClickLimit, time : 0..MaxTime, button : Buttons \cup {0}]
Press == [button : Buttons, time : 0..MaxTime]

\* DarwinTypeOK, with the presses that its bound is about.
DarwinTypes == DarwinTypeOK /\ presses \in Seq(Press)

\* What a press and a release set in the mask are bits of it, and never that of caps lock.
LEMMA Bits ==
  /\ ModifierKeys \subseteq MaskBits /\ "CAPS_LOCK" \in MaskBits
  /\ "CAPS_LOCK" \in LockKeys /\ "CAPS_LOCK" \notin ModifierKeys
  /\ ModifierKeys \cap LockKeys = {}
  /\ \A keys, mouseButtons : /\ Shown(keys, mouseButtons) \subseteq MaskBits
                             /\ Shown(keys, mouseButtons) \cap LockKeys = {}
  /\ \A b : ButtonMask(b) \subseteq MaskBits /\ ButtonMask(b) \cap LockKeys = {}
<1>1. /\ \A i \in 1..5 : ButtonBit[i] \in ButtonBits
      /\ ButtonBits \cap LockKeys = {}
  BY DEF ButtonBit, ButtonBits, LockKeys
<1>2. /\ ModifierKeys \subseteq MaskBits /\ "CAPS_LOCK" \in MaskBits
      /\ "CAPS_LOCK" \in LockKeys /\ "CAPS_LOCK" \notin ModifierKeys
      /\ ModifierKeys \cap LockKeys = {}
      /\ "META_L" \in ModifierKeys /\ "SHIFT_L" \in ModifierKeys
      /\ ButtonBits \subseteq MaskBits
  BY DEF ModifierKeys, LockKeys, MaskBits
<1>3. \A keys, mouseButtons : /\ Shown(keys, mouseButtons) \subseteq MaskBits
                              /\ Shown(keys, mouseButtons) \cap LockKeys = {}
  BY <1>1, <1>2 DEF Shown
<1>4. \A b : ButtonMask(b) \subseteq MaskBits /\ ButtonMask(b) \cap LockKeys = {}
  BY <1>1, <1>2 DEF ButtonMask
<1> QED
  BY <1>2, <1>3, <1>4

\* The click count stays below what its unsigned short can hold.
LEMMA ClickTypes ==
  ASSUME DarwinTypes, NEW b \in Buttons
  PROVE  NextClick(b) \in Click
<1>1. now \in 0..MaxTime /\ click \in Click /\ ClickLimit \in Nat \ {0} /\ MultiClickTime \in Nat
  BY DarwinAssumption DEF DarwinTypes, DarwinTypeOK, Click
<1> QED
  BY <1>1 DEF NextClick, Click

\* The record of presses is never longer than the click count can grow.
LEMMA PressesBounded ==
  ASSUME DarwinTypes, NEW p \in Press
  PROVE  LET P == LastFew(Append(presses, p), ClickLimit) IN P \in Seq(Press) /\ Len(P) <= ClickLimit
<1> DEFINE s == Append(presses, p)
<1>1. /\ s \in Seq(Press) /\ Len(s) = Len(presses) + 1 /\ Len(presses) \in Nat
      /\ Len(presses) <= ClickLimit /\ ClickLimit \in Nat
  BY DarwinAssumption DEF DarwinTypes, DarwinTypeOK
<1> HIDE DEF s
<1>2. s # <<>>
  BY <1>1
<1>3. Tail(s) \in Seq(Press) /\ Len(Tail(s)) = Len(s) - 1
  BY <1>1, <1>2
<1>4. LastFew(s, ClickLimit) \in Seq(Press) /\ Len(LastFew(s, ClickLimit)) <= ClickLimit
  BY <1>1, <1>3 DEF LastFew
<1> QED
  BY <1>4 DEF s

\* A change that is not heard.
LEMMA UnheardTypes ==
  ASSUME DarwinTypes, NEW bits \in SUBSET MaskBits, NEW buttons, Unheard(bits, buttons)
  PROVE  /\ currentModifiers' \subseteq MaskBits /\ stale' \subseteq MaskBits
         /\ click' \in Click /\ mouseDragged' \in BOOLEAN
         /\ presses' \in Seq(Press) /\ Len(presses') <= ClickLimit
         /\ moved' \subseteq down'
         /\ down' = down \ buttons
  BY DEF Unheard, DarwinTypes, DarwinTypeOK, Click

\* A key or caps lock.
LEMMA KeysKeepTypes ==
  ASSUME DarwinTypes, \/ \E k \in Keys : FlagsChanged(k)
                      \/ CapsLockChanged \/ OtherKey
  PROVE  DarwinTypes'
<1> USE DEF Click
<1>1. ASSUME NEW k \in Keys, FlagsChanged(k) PROVE DarwinTypes'
  <2>1. k \in MaskBits
    BY Bits, DarwinAssumption
  <2>2. heldKeys' \subseteq Keys /\ UNCHANGED <<now, heldButtons, capsOn, hook, tapEnabled>>
    BY <1>1 DEF FlagsChanged, Differ, DarwinTypes, DarwinTypeOK
  <2>3. CASE Heard
    <3>1. /\ currentModifiers' \subseteq MaskBits /\ stale' \subseteq MaskBits
          /\ UNCHANGED <<mouseDragged, click, presses, down, moved>>
      BY <1>1, <2>1, <2>3 DEF FlagsChanged, process_modifier_changed, Unheard, historyVars,
                              DarwinTypes, DarwinTypeOK
    <3> QED
      BY <2>2, <3>1 DEF DarwinTypes, DarwinTypeOK
  <2>4. CASE ~Heard
    <3>1. Unheard({k}, {})
      BY <1>1, <2>4 DEF FlagsChanged
    <3> QED
      BY <2>1, <2>2, <3>1, UnheardTypes DEF DarwinTypes, DarwinTypeOK
  <2> QED
    BY <2>3, <2>4
<1>2. CASE CapsLockChanged
  <2>1. capsOn' \in BOOLEAN /\ UNCHANGED <<now, heldKeys, heldButtons, hook, tapEnabled>>
    BY <1>2 DEF CapsLockChanged
  <2>2. CASE Heard
    <3>1. /\ currentModifiers' \subseteq MaskBits
          /\ UNCHANGED <<mouseDragged, click, stale, presses, down, moved>>
      BY <1>2, <2>2, Bits DEF CapsLockChanged, CapsToggled, Differ, Unheard, historyVars,
                              DarwinTypes, DarwinTypeOK
    <3> QED
      BY <2>1, <3>1 DEF DarwinTypes, DarwinTypeOK
  <2>3. CASE ~Heard
    <3>1. Unheard({"CAPS_LOCK"}, {})
      BY <1>2, <2>3 DEF CapsLockChanged
    <3> QED
      BY <2>1, <3>1, Bits, UnheardTypes DEF DarwinTypes, DarwinTypeOK
  <2> QED
    BY <2>2, <2>3
<1>3. CASE OtherKey
  BY <1>3 DEF OtherKey, userVars, historyVars, DarwinTypes, DarwinTypeOK
<1> QED
  BY <1>1, <1>2, <1>3

\* A button.
LEMMA ButtonsKeepTypes ==
  ASSUME DarwinTypes, NEW b \in Buttons, MouseDown(b) \/ MouseUp(b)
  PROVE  DarwinTypes'
<1> USE DEF Click
<1>1. UNCHANGED <<now, heldKeys, capsOn, hook, tapEnabled>> /\ heldButtons' \subseteq Buttons
  BY DEF MouseDown, MouseUp, DarwinTypes, DarwinTypeOK
<1>2. CASE Heard
  <2>1. /\ currentModifiers' \subseteq MaskBits /\ stale' \subseteq MaskBits
        /\ moved' = moved \ {b}
        /\ \/ heldButtons' = heldButtons \cup {b} /\ down' = down \cup {b}
           \/ heldButtons' = heldButtons \ {b} /\ down' = down \ {b}
    BY <1>2, Bits DEF MouseDown, MouseUp, Unheard, DarwinTypes, DarwinTypeOK
  <2>2. moved' \subseteq down' /\ down' \subseteq heldButtons'
    BY <2>1 DEF DarwinTypes, DarwinTypeOK
  <2>3. process_button_pressed(b) \/ process_button_released(b)
    BY <1>2 DEF MouseDown, MouseUp, Unheard
  <2>4. click' \in Click /\ presses' \in Seq(Press) /\ Len(presses') <= ClickLimit /\ mouseDragged' \in BOOLEAN
    <3>1. CASE process_button_pressed(b)
      <4>1. [button |-> b, time |-> now] \in Press
        BY DEF Press, DarwinTypes, DarwinTypeOK
      <4> QED
        BY <3>1, <4>1, ClickTypes, PressesBounded DEF process_button_pressed, DarwinTypes, DarwinTypeOK
    <3>2. CASE process_button_released(b)
      BY <3>2, DarwinAssumption, SMTT(30) DEF process_button_released, DarwinTypes, DarwinTypeOK
    <3> QED
      BY <2>3, <3>1, <3>2
  <2> QED
    BY <1>1, <2>1, <2>2, <2>4 DEF DarwinTypes, DarwinTypeOK
<1>3. CASE ~Heard
  <2>1. Unheard(Shown({}, {b}), {b})
    BY <1>3 DEF MouseDown, MouseUp
  <2>2. down' = down \ {b} /\ heldButtons \ {b} \subseteq heldButtons'
    BY <2>1 DEF MouseDown, MouseUp, Unheard
  <2>3. down' \subseteq heldButtons'
    BY <2>2 DEF DarwinTypes, DarwinTypeOK
  <2>4. /\ currentModifiers' \subseteq MaskBits /\ stale' \subseteq MaskBits
        /\ click' \in Click /\ mouseDragged' \in BOOLEAN
        /\ presses' \in Seq(Press) /\ Len(presses') <= ClickLimit
        /\ moved' \subseteq down'
    BY <2>1, Bits, UnheardTypes
  <2> QED
    BY <1>1, <2>3, <2>4 DEF DarwinTypes, DarwinTypeOK
<1> QED
  BY <1>2, <1>3

\* The rest.
LEMMA OthersKeepTypes ==
  ASSUME DarwinTypes, \/ MouseMoved \/ ScrollWheel \/ TapTimesOut \/ TapDisabledByTimeout
                      \/ Initialize \/ RunLoopEntry \/ RunLoopExit \/ Tick
  PROVE  DarwinTypes'
<1> USE DarwinAssumption DEF Click, DarwinTypes, DarwinTypeOK, userVars, historyVars
<1>1. CASE MouseMoved
  <2>1. click' \in Click
    BY <1>1, SMTT(30) DEF MouseMoved
  <2>2. mouseDragged' \in BOOLEAN /\ moved' \subseteq down' /\ UNCHANGED <<userVars, hook, tapEnabled, currentModifiers, stale, presses, down>>
    BY <1>1 DEF MouseMoved
  <2> QED
    BY <2>1, <2>2
<1>2. CASE ScrollWheel
  <2>1. click' \in Click
    <3>1. click' = [click EXCEPT !.count = 1, !.button = 0] /\ 1 \in 0..ClickLimit
      BY <1>2 DEF ScrollWheel
    <3> QED
      BY <3>1
  <2>2. presses' \in Seq(Press) /\ Len(presses') <= ClickLimit
    BY <1>2 DEF ScrollWheel
  <2>3. UNCHANGED <<userVars, hook, tapEnabled, currentModifiers, mouseDragged, stale, down, moved>>
    BY <1>2 DEF ScrollWheel
  <2> QED
    BY <2>1, <2>2, <2>3
<1>3. CASE TapTimesOut \/ TapDisabledByTimeout
  BY <1>3 DEF TapTimesOut, TapDisabledByTimeout
<1>4. CASE Initialize
  <2>1. currentModifiers' \subseteq MaskBits
    BY <1>4, Bits DEF Initialize
  <2> QED
    BY <1>4, <2>1 DEF Initialize
<1>5. CASE RunLoopEntry \/ RunLoopExit
  BY <1>5 DEF RunLoopEntry, RunLoopExit
<1>6. CASE Tick
  BY <1>6 DEF Tick
<1> QED
  BY <1>1, <1>2, <1>3, <1>4, <1>5, <1>6

LEMMA TypesInvariant == DarwinSpec => []DarwinTypes
<1>1. DarwinInit => DarwinTypes
  <2> SUFFICES ASSUME DarwinInit PROVE DarwinTypes
    OBVIOUS
  <2>1. 0 \in 0..MaxTime /\ 0 \in 0..ClickLimit /\ ClickLimit \in Nat
    BY DarwinAssumption
  <2>2. click \in Click
    BY <2>1 DEF DarwinInit, Click
  <2>3. presses \in Seq(Press) /\ Len(presses) <= ClickLimit
    BY <2>1 DEF DarwinInit
  <2> QED
    BY <2>1, <2>2, <2>3 DEF DarwinInit, DarwinTypes, DarwinTypeOK, Click
<1>2. DarwinTypes /\ [DarwinNext]_vars => DarwinTypes'
  <2> SUFFICES ASSUME DarwinTypes, [DarwinNext]_vars PROVE DarwinTypes'
    OBVIOUS
  <2>1. CASE UNCHANGED vars
    BY <2>1 DEF DarwinTypes, DarwinTypeOK, vars, userVars, hookVars, historyVars
  <2> QED
    BY <2>1, KeysKeepTypes, ButtonsKeepTypes, OthersKeepTypes DEF DarwinNext
<1> QED
  BY <1>1, <1>2, PTL DEF DarwinSpec

\* Every variable keeps its type, the click count its limit (darwin/input_hook.c:577).
THEOREM DarwinTypeCorrect == DarwinSpec => []DarwinTypeOK
  BY TypesInvariant, PTL DEF DarwinTypes

-----------------------------------------------------------------------------
(* Caps lock.                                                              *)

CapsFollowed ==
  hook # "off" /\ "CAPS_LOCK" \notin stale => (("CAPS_LOCK" \in currentModifiers) <=> capsOn)

\* The bit that is only ever toggled stays with the keyboard's from a start of the
\* hook to the first change it cannot hear of (darwin/input_hook.c:471).
THEOREM CapsLockIsKnown == DarwinSpec => []CapsLockFollows
<1>1. DarwinInit => CapsFollowed
  BY DEF DarwinInit, CapsFollowed
<1>2. ASSUME DarwinTypes, CapsFollowed, [DarwinNext]_vars PROVE CapsFollowed'
  <2>1. ASSUME NEW k \in Keys, FlagsChanged(k) PROVE CapsFollowed'
    <3>1. k # "CAPS_LOCK"
      BY Bits, DarwinAssumption
    <3> QED
      BY <1>2, <2>1, <3>1 DEF FlagsChanged, process_modifier_changed, Unheard, CapsFollowed
  <2>2. CASE CapsLockChanged
    BY <1>2, <2>2 DEF CapsLockChanged, CapsToggled, Differ, Unheard, CapsFollowed, Heard,
                      DarwinTypes, DarwinTypeOK
  <2>3. ASSUME NEW b \in Buttons, MouseDown(b) \/ MouseUp(b) PROVE CapsFollowed'
    <3>1. "CAPS_LOCK" \notin ButtonMask(b)
      BY Bits
    <3> QED
      BY <1>2, <2>3, <3>1 DEF MouseDown, MouseUp, Unheard, CapsFollowed
  <2>4. CASE Initialize
    <3>1. "CAPS_LOCK" \notin Shown(heldKeys, heldButtons)
      BY Bits
    <3> QED
      BY <2>4, <3>1 DEF Initialize, CapsFollowed, userVars, DarwinTypes, DarwinTypeOK
  <2>5. CASE OtherKey \/ MouseMoved \/ ScrollWheel \/ TapTimesOut \/ TapDisabledByTimeout
             \/ RunLoopExit \/ Tick \/ UNCHANGED vars
    BY <1>2, <2>5 DEF OtherKey, MouseMoved, ScrollWheel, TapTimesOut, TapDisabledByTimeout,
         RunLoopExit, Tick, userVars, hookVars, historyVars, vars, CapsFollowed
  <2>6. CASE RunLoopEntry
    BY <1>2, <2>6 DEF RunLoopEntry, userVars, historyVars, CapsFollowed
  <2> QED
    BY <1>2, <2>1, <2>2, <2>3, <2>4, <2>5, <2>6 DEF DarwinNext
<1>3. CapsFollowed => CapsLockFollows
  BY DEF CapsFollowed, CapsLockFollows
<1> QED
  BY <1>1, <1>2, <1>3, TypesInvariant, PTL DEF DarwinSpec

-----------------------------------------------------------------------------
(* What a key dispatches.                                                  *)

\* A press, and up to two characters, with one mask.
LEMMA TypedEvents ==
  ASSUME NEW bits, process_key_pressed(bits)
  PROVE  \A i \in DOMAIN dispatched' :
           dispatched'[i].type \in {"KEY_PRESSED", "KEY_TYPED"} /\ dispatched'[i].mask = bits
<1> DEFINE pressed == Event("KEY_PRESSED", bits, 0, 0)
           typed == Event("KEY_TYPED", bits, 0, 0)
<1>1. PICK n \in 0..2 : dispatched' = <<pressed>> \o [i \in 1..n |-> typed]
  BY DEF process_key_pressed, Typed, Dispatch
<1>2. pressed.type = "KEY_PRESSED" /\ pressed.mask = bits /\ typed.type = "KEY_TYPED" /\ typed.mask = bits
  BY DEF Event
<1> HIDE DEF pressed, typed
<1> DEFINE E == {pressed, typed}
<1>3. [i \in 1..n |-> typed] \in Seq(E) /\ <<pressed>> \in Seq(E)
  <2>1. CASE n = 0
    <3>1. [i \in 1..n |-> typed] = <<>>
      BY <2>1
    <3> QED
      BY <3>1
  <2>2. CASE n = 1
    <3>1. [i \in 1..n |-> typed] = <<typed>>
      BY <2>2
    <3> QED
      BY <3>1
  <2>3. CASE n = 2
    <3>1. [i \in 1..n |-> typed] = <<typed, typed>>
      BY <2>3
    <3> QED
      BY <3>1
  <2> QED
    BY <2>1, <2>2, <2>3
<1>4. dispatched' \in Seq(E)
  BY <1>1, <1>3
<1>5. \A i \in DOMAIN dispatched' : dispatched'[i] \in E
  BY <1>4
<1> QED
  BY <1>2, <1>5

\* A key makes key events only, a release of a button no press.
LEMMA KeyEvents ==
  ASSUME NEW bits, process_key_pressed(bits) \/ process_key_released(bits)
  PROVE  \A i \in DOMAIN dispatched' :
           dispatched'[i].type \in {"KEY_PRESSED", "KEY_TYPED", "KEY_RELEASED"}
BY TypedEvents DEF process_key_released, Dispatch, Event

LEMMA ReleaseEvents ==
  ASSUME NEW b, process_button_released(b)
  PROVE  \A i \in DOMAIN dispatched' :
           dispatched'[i].type \in {"MOUSE_RELEASED", "MOUSE_CLICKED"}
<1>1. CASE IsClick
  BY <1>1 DEF process_button_released, Dispatch, Event
<1>2. CASE ~IsClick
  BY <1>2 DEF process_button_released, Dispatch, Event
<1> QED
  BY <1>1, <1>2

-----------------------------------------------------------------------------
(* Drags and clicks.                                                       *)

\* Whatever button was moved, the last motion was a drag.
DragRemembered == moved # {} => mouseDragged

\* No click ends a drag, although the drag flag is one for all buttons, is set and
\* cleared by motions only, and survives a restart.
THEOREM NoClickAfterDrag == DarwinSpec => ClickedWithoutDrag
<1>1. DarwinInit => DragRemembered
  BY DEF DarwinInit, DragRemembered
<1>2. ASSUME DarwinTypes, DragRemembered, [DarwinNext]_vars PROVE DragRemembered'
  <2>1. CASE MouseMoved
    BY <1>2, <2>1 DEF MouseMoved, DragRemembered, userVars, DarwinTypes, DarwinTypeOK
  <2>2. ASSUME NEW b \in Buttons, MouseDown(b) \/ MouseUp(b) PROVE DragRemembered'
    <3>1. moved' \subseteq moved /\ UNCHANGED mouseDragged
      BY <2>2 DEF MouseDown, MouseUp, Unheard, process_button_pressed, process_button_released
    <3> QED
      BY <1>2, <3>1 DEF DragRemembered
  <2>3. ASSUME NEW k \in Keys, FlagsChanged(k) PROVE DragRemembered'
    BY <1>2, <2>3 DEF FlagsChanged, Unheard, historyVars, DragRemembered
  <2>4. CASE CapsLockChanged \/ OtherKey \/ ScrollWheel \/ TapTimesOut \/ TapDisabledByTimeout
             \/ Initialize \/ RunLoopEntry \/ RunLoopExit \/ Tick \/ UNCHANGED vars
    BY <1>2, <2>4 DEF CapsLockChanged, OtherKey, ScrollWheel, TapTimesOut, TapDisabledByTimeout,
         Initialize, RunLoopEntry, RunLoopExit, Tick, Unheard, hookVars, historyVars, vars,
         DragRemembered
  <2> QED
    BY <1>2, <2>1, <2>2, <2>3, <2>4 DEF DarwinNext
<1> DEFINE Undragged == \A i \in DOMAIN dispatched' :
                          dispatched'[i].type = "MOUSE_CLICKED" => dispatched'[i].button \notin moved
<1>3. ASSUME DragRemembered, DarwinNext PROVE Undragged
  <2> DEFINE Quiet == \A i \in DOMAIN dispatched' : dispatched'[i].type # "MOUSE_CLICKED"
  <2>1. ASSUME NEW b \in Buttons, MouseUp(b), Heard, process_button_released(b) PROVE Undragged
    <3>1. CASE mouseDragged
      BY <2>1, <3>1 DEF process_button_released, IsClick, Dispatch, Event
    <3>2. CASE ~mouseDragged
      BY <1>3, <3>2 DEF DragRemembered
    <3> QED
      BY <3>1, <3>2
  <2>2. ASSUME NEW b \in Buttons, process_button_pressed(b) PROVE Quiet
    BY <2>2 DEF process_button_pressed, Dispatch, Event
  <2>3. ASSUME NEW bits, process_key_pressed(bits) \/ process_key_released(bits) PROVE Quiet
    <3>1. CASE process_key_released(bits)
      BY <3>1 DEF process_key_released, Dispatch, Event
    <3>2. CASE process_key_pressed(bits)
      BY <3>2, TypedEvents
    <3> QED
      BY <2>3, <3>1, <3>2
  <2>4. dispatched' = <<>> => Quiet
    OBVIOUS
  <2>5. ASSUME NEW k \in Keys, FlagsChanged(k) PROVE Quiet
    BY <2>3, <2>4, <2>5 DEF FlagsChanged, process_modifier_changed, Unheard, DispatchNothing, Dispatch
  <2>6. CASE CapsLockChanged \/ OtherKey
    BY <2>3, <2>4, <2>6 DEF CapsLockChanged, OtherKey, Unheard, DispatchNothing, Dispatch
  <2>7. ASSUME NEW b \in Buttons, MouseDown(b) \/ MouseUp(b) PROVE Undragged
    BY <2>1, <2>2, <2>4, <2>7 DEF MouseDown, MouseUp, Unheard, DispatchNothing, Dispatch
  <2>8. CASE MouseMoved \/ ScrollWheel \/ RunLoopEntry \/ RunLoopExit
    BY <2>8 DEF MouseMoved, ScrollWheel, RunLoopEntry, RunLoopExit, DispatchNothing, Dispatch, Event
  <2>9. CASE TapTimesOut \/ TapDisabledByTimeout \/ Initialize \/ Tick
    BY <2>4, <2>9 DEF TapTimesOut, TapDisabledByTimeout, Initialize, Tick, DispatchNothing, Dispatch
  <2> QED
    BY <1>3, <2>5, <2>6, <2>7, <2>8, <2>9 DEF DarwinNext
<1>4. DarwinTypes /\ DragRemembered /\ [DarwinNext]_vars => DragRemembered' /\ [Undragged]_vars
  BY <1>2, <1>3
<1>5. [Undragged]_vars =>
        [\A i \in DOMAIN dispatched' :
           dispatched'[i].type = "MOUSE_CLICKED" => dispatched'[i].button \notin moved]_vars
  OBVIOUS
<1> QED
  BY <1>1, <1>4, <1>5, TypesInvariant, PTL DEF DarwinSpec, ClickedWithoutDrag

-----------------------------------------------------------------------------
(* The click count.                                                        *)

\* The click count goes with the presses, across restarts and time-outs; once it has
\* been reset, every press comes too late to go on with the run.
ClickCounted ==
  /\ FollowsRun(click, presses, MultiClickTime)
  /\ click.button # 0 /\ click.count = 0 => TooLate

LEMMA TimesAreNumbers ==
  ASSUME DarwinTypes
  PROVE  now \in Nat /\ click \in [count : Nat, time : Nat, button : Nat] /\ MultiClickTime \in Nat
<1>1. now \in 0..MaxTime /\ click \in Click
  BY DEF DarwinTypes, DarwinTypeOK, Click
<1>2. MaxTime \in Nat /\ ClickLimit \in Nat /\ MultiClickTime \in Nat /\ Buttons \subseteq Nat
  BY DarwinAssumption
<1>3. click = [count |-> click.count, time |-> click.time, button |-> click.button]
  BY <1>1 DEF Click
<1>4. click.count \in Nat /\ click.time \in Nat /\ click.button \in Nat /\ now \in Nat
  <2>1. click.count \in 0..ClickLimit /\ click.time \in 0..MaxTime /\ click.button \in Buttons \cup {0}
    BY <1>1 DEF Click
  <2>2. click.button \in Nat
    <3>1. ASSUME NEW b \in Buttons \cup {0} PROVE b \in Nat
      BY <1>2
    <3> QED
      BY <2>1, <3>1, Zenon
  <2>3. click.count \in Nat /\ click.time \in Nat
    BY <1>2, <2>1
  <2> QED
    BY <1>1, <1>2, <2>2, <2>3
<1> QED
  BY <1>2, <1>3, <1>4

\* A press is counted right: OtherMouseUp's as well, which count as presses.
LEMMA PressCounted ==
  ASSUME DarwinTypes, ClickCounted, NEW b \in Buttons, process_button_pressed(b)
  PROVE  ClickCounted' /\ ClicksCountTheRun'
<1>1. /\ presses \in Seq(Press) /\ Len(presses) <= ClickLimit
      /\ ClickLimit \in Nat \ {0} /\ b \in Nat \ {0}
      /\ now \in Nat /\ click \in [count : Nat, time : Nat, button : Nat] /\ MultiClickTime \in Nat
  BY DarwinAssumption, TimesAreNumbers DEF DarwinTypes, DarwinTypeOK
<1>2. ASSUME NEW p \in Press PROVE p \in TimedPress
  <2>1. p = [button |-> p.button, time |-> p.time] /\ p.button \in Buttons /\ p.time \in 0..MaxTime
    BY DEF Press
  <2>2. p.time \in Nat
    BY <2>1, DarwinAssumption
  <2>3. p.button \in Nat
    BY <2>1, DarwinAssumption
  <2> QED
    BY <2>1, <2>2, <2>3 DEF TimedPress
<1>3. presses \in Seq(TimedPress)
  BY <1>1, <1>2, PressesAreTimed
<1>4. /\ click' = NextClick(b)
      /\ presses' = LastFew(Append(presses, [button |-> b, time |-> now]), ClickLimit)
      /\ dispatched' = <<Event("MOUSE_PRESSED", currentModifiers', b, click'.count)>>
  BY DEF process_button_pressed, Dispatch
<1>5. FollowsRun(click', presses', MultiClickTime) /\ click'.count # 0
  BY <1>1, <1>3, <1>4, PressFollowsRun DEF NextClick, TooLate, ClickCounted
<1>6. click'.button = b
  BY <1>4 DEF NextClick
<1>7. presses' \in Seq(TimedPress)
  <2>1. [button |-> b, time |-> now] \in TimedPress
    BY <1>1 DEF TimedPress
  <2> QED
    BY <1>1, <1>3, <1>4, <2>1, NewestPresses DEF IsNewest
<1>8. click'.count = RunLength(presses', MultiClickTime)
  BY <1>1, <1>5, <1>6, <1>7, CountIsRunLength
<1>9. \A i \in DOMAIN dispatched' : dispatched'[i].clicks = click'.count
  BY <1>4 DEF Event
<1> QED
  BY <1>5, <1>8, <1>9 DEF ClickCounted, ClicksCountTheRun

\* The click number of a press is the length of the run of presses that it ends, for
\* any buttons, any clock and any limit, across restarts of the hook.
THEOREM ClicksAreCounted == DarwinSpec => []ClicksCountTheRun
<1>1. DarwinInit => ClickCounted /\ ClicksCountTheRun
  BY DEF DarwinInit, ClickCounted, FollowsRun, ClicksCountTheRun
<1>2. DarwinTypes /\ ClickCounted /\ ClicksCountTheRun /\ [DarwinNext]_vars
        => ClickCounted' /\ ClicksCountTheRun'
  <2> SUFFICES ASSUME DarwinTypes, ClickCounted, ClicksCountTheRun, [DarwinNext]_vars
               PROVE  ClickCounted' /\ ClicksCountTheRun'
    OBVIOUS
  <2> DEFINE NoPress == \A i \in DOMAIN dispatched' : dispatched'[i].type # "MOUSE_PRESSED"
  <2>t. /\ now \in Nat /\ click \in [count : Nat, time : Nat, button : Nat]
        /\ MultiClickTime \in Nat
    BY TimesAreNumbers
  <2>n. NoPress => ClicksCountTheRun'
    BY DEF ClicksCountTheRun
  <2>s. ASSUME UNCHANGED <<click, presses>>, now' \in {now, now + 1} PROVE ClickCounted'
    BY <2>t, <2>s DEF ClickCounted, TooLate
  <2>r. ASSUME click' = [click EXCEPT !.count = 0], TooLate, UNCHANGED <<now, presses>>
        PROVE  ClickCounted'
    BY <2>t, <2>r DEF ClickCounted, FollowsRun, TooLate
  <2>u. ASSUME NEW bits, NEW buttons, Unheard(bits, buttons), now' = now
        PROVE  ClickCounted' /\ NoPress
    BY <2>s, <2>u DEF Unheard, DispatchNothing, Dispatch
  <2>1. CASE \E k \in Keys : FlagsChanged(k)
    <3>1. PICK k \in Keys : FlagsChanged(k)
      BY <2>1
    <3>2. CASE Heard /\ process_modifier_changed(k, Pair(k) \cap heldKeys' # {})
      <4>1. now' = now /\ (UNCHANGED <<click, presses>> \/ Unheard({k}, {}))
        BY <3>1 DEF FlagsChanged, historyVars
      <4>2. NoPress
        BY <3>2, KeyEvents DEF process_modifier_changed
      <4> QED
        BY <4>1, <4>2, <2>n, <2>s, <2>u
    <3> QED
      BY <3>1, <3>2, <2>n, <2>u DEF FlagsChanged
  <2>2. CASE CapsLockChanged
    <3>1. now' = now
      BY <2>2 DEF CapsLockChanged
    <3>2. \/ UNCHANGED <<click, presses>> /\ NoPress
          \/ Unheard({"CAPS_LOCK"}, {})
      BY <2>2 DEF CapsLockChanged, historyVars, DispatchNothing, Dispatch
    <3> QED
      BY <3>1, <3>2, <2>n, <2>s, <2>u
  <2>3. CASE OtherKey
    <3>1. UNCHANGED <<now, click, presses>>
      BY <2>3 DEF OtherKey, userVars, historyVars
    <3>2. NoPress
      BY <2>3, KeyEvents DEF OtherKey, DispatchNothing, Dispatch
    <3> QED
      BY <3>1, <3>2, <2>n, <2>s
  <2>4. CASE \E b \in Buttons : MouseDown(b) \/ MouseUp(b)
    <3>1. PICK b \in Buttons : MouseDown(b) \/ MouseUp(b)
      BY <2>4
    <3>2. now' = now
      BY <3>1 DEF MouseDown, MouseUp
    <3>3. CASE process_button_pressed(b)
      BY <3>3, PressCounted
    <3>4. CASE process_button_released(b)
      <4>1. NoPress
        BY <3>4, ReleaseEvents
      <4>2. presses' = presses /\ click' = IF TooLate THEN [click EXCEPT !.count = 0] ELSE click
        BY <3>4 DEF process_button_released
      <4> QED
        BY <3>2, <4>1, <4>2, <2>n, <2>r, <2>s
    <3>5. CASE Unheard(Shown({}, {b}), {b})
      BY <3>2, <3>5, <2>n, <2>u
    <3> QED
      BY <3>1, <3>3, <3>4, <3>5 DEF MouseDown, MouseUp
  <2>5. CASE MouseMoved
    <3>1. NoPress /\ UNCHANGED <<now, presses>>
      BY <2>5 DEF MouseMoved, Dispatch, Event, userVars
    <3>2. click' = IF click.count # 0 /\ TooLate THEN [click EXCEPT !.count = 0] ELSE click
      BY <2>5 DEF MouseMoved
    <3> QED
      BY <3>1, <3>2, <2>n, <2>r, <2>s
  <2>6. CASE ScrollWheel
    <3>1. NoPress /\ presses' = <<>> /\ click'.button = 0
      BY <2>6, <2>t DEF ScrollWheel, DispatchNothing, Dispatch, Event
    <3> QED
      BY <3>1, <2>n DEF ClickCounted, FollowsRun
  <2>7. CASE TapTimesOut \/ TapDisabledByTimeout \/ Initialize \/ RunLoopEntry \/ RunLoopExit
    <3>1. NoPress /\ UNCHANGED <<now, click, presses>>
      BY <2>7 DEF TapTimesOut, TapDisabledByTimeout, Initialize, RunLoopEntry, RunLoopExit,
                  DispatchNothing, Dispatch, Event, userVars, historyVars
    <3> QED
      BY <3>1, <2>n, <2>s
  <2>8. CASE Tick
    <3>1. NoPress /\ UNCHANGED <<click, presses>> /\ now' = now + 1
      BY <2>8 DEF Tick, DispatchNothing, Dispatch, historyVars
    <3> QED
      BY <3>1, <2>n, <2>s
  <2>9. CASE UNCHANGED vars
    <3>1. UNCHANGED <<now, click, presses, dispatched>>
      BY <2>9 DEF vars, userVars, hookVars, historyVars
    <3> QED
      BY <3>1, <2>s DEF ClicksCountTheRun
  <2> QED
    BY <2>1, <2>2, <2>3, <2>4, <2>5, <2>6, <2>7, <2>8, <2>9 DEF DarwinNext
<1> QED
  BY <1>1, <1>2, TypesInvariant, PTL DEF DarwinSpec

-----------------------------------------------------------------------------
(* The mask.                                                               *)

\* One key of each pair, and of the buttons only those whose bit the code knows.
NoKnownDeviation ==
  /\ \A k \in Keys : Pair(k) \cap Keys = {k}
  /\ Buttons \cap 3..5 = {}

Truth == Shown(heldKeys, heldButtons)

Wrong(bits) == Differ(bits, Truth) \ LockKeys

MaskFollowed == hook # "off" => Wrong(currentModifiers) \subseteq stale

\* An event that is dispatched has the mask as it is after the step.
Current ==
  \A i \in DOMAIN dispatched' :
    dispatched'[i].type \in InputKinds => dispatched'[i].mask = currentModifiers'

\* A key.
LEMMA KeyFollowed ==
  ASSUME NoKnownDeviation, DarwinTypes, MaskFollowed, NEW k \in Keys, FlagsChanged(k)
  PROVE  MaskFollowed'
<1>1. /\ heldKeys' = Differ(heldKeys, {k}) /\ UNCHANGED <<heldButtons, hook>>
      /\ heldKeys \subseteq Keys /\ k \in ModifierKeys
  BY DarwinAssumption DEF FlagsChanged, DarwinTypes, DarwinTypeOK
<1>2. Differ(Truth', Truth) \subseteq {k} /\ (k \in Truth' <=> k \in heldKeys')
  <2>1. k \in heldKeys' => k \in Truth'
    BY <1>1 DEF Truth, Shown
  <2>2. Differ(Truth', Truth) \subseteq {k}
    BY <1>1 DEF Truth, Shown, Differ
  <2>3. k \notin ButtonBits
    BY <1>1 DEF ButtonBits, ButtonBit, ModifierKeys
  <2>4. \A i \in 1..5 : ButtonBit[i] \in ButtonBits
    BY DEF ButtonBits
  <2> QED
    BY <2>1, <2>2, <2>3, <2>4 DEF Truth, Shown
<1>3. CASE Heard
  <2>1. Pair(k) \cap heldKeys' # {} <=> k \in heldKeys'
    BY <1>1 DEF NoKnownDeviation, Differ
  <2>2. /\ stale' = stale \ {k}
        /\ \/ k \in heldKeys' /\ currentModifiers' = currentModifiers \cup {k}
           \/ k \notin heldKeys' /\ currentModifiers' = currentModifiers \ {k}
    <3>1. process_modifier_changed(k, Pair(k) \cap heldKeys' # {}) /\ stale' = stale \ {k}
      BY <1>3 DEF FlagsChanged, Unheard
    <3>2. CASE Pair(k) \cap heldKeys' # {}
      BY <2>1, <3>1, <3>2 DEF process_modifier_changed
    <3>3. CASE Pair(k) \cap heldKeys' = {}
      BY <2>1, <3>1, <3>3 DEF process_modifier_changed
    <3> QED
      BY <3>2, <3>3
  <2> QED
    BY <1>1, <1>2, <2>2 DEF MaskFollowed, Wrong, Differ
<1>4. CASE ~Heard
  <2>1. stale' = stale \cup {k} /\ UNCHANGED currentModifiers
    BY <1>4 DEF FlagsChanged, Unheard
  <2> QED
    BY <1>1, <1>2, <2>1 DEF MaskFollowed, Wrong, Differ
<1> QED
  BY <1>3, <1>4

\* A button.
LEMMA ButtonFollowed ==
  ASSUME NoKnownDeviation, DarwinTypes, MaskFollowed, NEW b \in Buttons, MouseDown(b) \/ MouseUp(b)
  PROVE  MaskFollowed'
<1>1. ButtonMask(b) = {ButtonBit[n] : n \in {b} \cap 1..5}
  <2>1. b \in Nat \ {0} /\ b \notin 3..5
    BY DarwinAssumption DEF NoKnownDeviation
  <2>2. CASE b \in 1..2
    <3>1. b \in 1..5
      BY <2>2
    <3>2. {b} \cap 1..5 = {b}
      BY <3>1
    <3> QED
      BY <2>2, <3>2 DEF ButtonMask
  <2>3. CASE b \notin 1..2
    <3>1. {b} \cap 1..5 = {} /\ b # 4 /\ b # 5
      BY <2>1, <2>3
    <3> QED
      BY <2>3, <3>1 DEF ButtonMask
  <2> QED
    BY <2>2, <2>3
<1>2. UNCHANGED <<heldKeys, hook>>
  BY DEF MouseDown, MouseUp
<1>3. ASSUME NEW i \in 1..5, NEW j \in 1..5, ButtonBit[i] = ButtonBit[j] PROVE i = j
  BY <1>3 DEF ButtonBit
<1>4. \A i \in 1..5 : ButtonBit[i] \notin ModifierKeys
  BY DEF ButtonBit, ModifierKeys
<1>5. \/ heldButtons' = heldButtons \cup {b} /\ Heard /\ currentModifiers' = currentModifiers \cup ButtonMask(b)
         /\ stale' = stale \ ButtonMask(b)
      \/ heldButtons' = heldButtons \ {b} /\ Heard /\ currentModifiers' = currentModifiers \ ButtonMask(b)
         /\ stale' = stale \ ButtonMask(b)
      \/ heldButtons' \in {heldButtons \cup {b}, heldButtons \ {b}} /\ currentModifiers' = currentModifiers
         /\ stale' = stale \cup Shown({}, {b})
  BY DEF MouseDown, MouseUp, Unheard
<1>6. Shown({}, {b}) = ButtonMask(b)
  BY <1>1 DEF Shown
<1>7. Truth' \ ButtonMask(b) = Truth \ ButtonMask(b)
  BY <1>1, <1>2, <1>5 DEF Truth, Shown
<1>8. heldButtons' = heldButtons \cup {b} => ButtonMask(b) \subseteq Truth'
  BY <1>1 DEF Truth, Shown
<1>9. heldButtons' = heldButtons \ {b} => ButtonMask(b) \cap Truth' = {}
  BY <1>1, <1>2, <1>3, <1>4 DEF Truth, Shown
<1> QED
  BY <1>2, <1>5, <1>6, <1>7, <1>8, <1>9 DEF MaskFollowed, Wrong, Differ

\* What the hook dispatches.
LEMMA EventsAreCurrent ==
  ASSUME DarwinNext
  PROVE  Current
<1>1. ASSUME NEW bits, bits = currentModifiers', process_key_pressed(bits) \/ process_key_released(bits) PROVE Current
  <2>1. CASE process_key_released(bits)
    BY <1>1, <2>1 DEF process_key_released, Dispatch, Event, Current
  <2>2. CASE process_key_pressed(bits)
    BY <1>1, <2>2, TypedEvents DEF Current
  <2> QED
    BY <1>1, <2>1, <2>2
<1>2. ASSUME NEW b \in Buttons, process_button_pressed(b) PROVE Current
  BY <1>2 DEF process_button_pressed, Dispatch, Event, Current
<1>3. ASSUME NEW b \in Buttons, process_button_released(b) PROVE Current
  <2>1. CASE IsClick
    BY <1>3, <2>1 DEF process_button_released, Dispatch, Event, Current
  <2>2. CASE ~IsClick
    BY <1>3, <2>2 DEF process_button_released, Dispatch, Event, Current
  <2> QED
    BY <2>1, <2>2
<1>4. dispatched' = <<>> => Current
  BY DEF Current
<1>5. ASSUME NEW k \in Keys, FlagsChanged(k) PROVE Current
  BY <1>1, <1>4, <1>5 DEF FlagsChanged, process_modifier_changed, Unheard, DispatchNothing, Dispatch
<1>6. CASE CapsLockChanged
  BY <1>4, <1>6 DEF CapsLockChanged, Unheard, DispatchNothing, Dispatch
<1>7. CASE OtherKey
  BY <1>1, <1>4, <1>7 DEF OtherKey, DispatchNothing, Dispatch
<1>8. ASSUME NEW b \in Buttons, MouseDown(b) \/ MouseUp(b) PROVE Current
  BY <1>2, <1>3, <1>4, <1>8 DEF MouseDown, MouseUp, Unheard, DispatchNothing, Dispatch
<1>9. CASE MouseMoved \/ ScrollWheel
  BY <1>9 DEF MouseMoved, ScrollWheel, DispatchNothing, Dispatch, Event, Current
<1>10. CASE RunLoopEntry \/ RunLoopExit
  BY <1>10 DEF RunLoopEntry, RunLoopExit, Dispatch, Event, Current, InputKinds
<1>11. CASE TapTimesOut \/ TapDisabledByTimeout \/ Initialize \/ Tick
  BY <1>4, <1>11 DEF TapTimesOut, TapDisabledByTimeout, Initialize, Tick, DispatchNothing, Dispatch
<1> QED
  BY <1>5, <1>6, <1>7, <1>8, <1>9, <1>10, <1>11 DEF DarwinNext

\* An event is dispatched only by a hook that is set up.
LEMMA OnlyWhenOn ==
  ASSUME DarwinNext, hook' = "off"
  PROVE  \A i \in DOMAIN dispatched' : dispatched'[i].type \notin InputKinds
<1>1. dispatched' = <<>> \/ RunLoopExit
  BY DEF DarwinNext, FlagsChanged, CapsLockChanged, OtherKey, MouseDown, MouseUp, MouseMoved,
         ScrollWheel, TapTimesOut, TapDisabledByTimeout, Initialize, RunLoopEntry, Tick,
         Unheard, Heard, DispatchNothing, Dispatch
<1>2. RunLoopExit => dispatched' = <<Event("HOOK_DISABLED", {}, 0, 0)>>
  BY DEF RunLoopExit, Dispatch
<1> QED
  BY <1>1, <1>2 DEF Event, InputKinds

\* With one key of a pair and two buttons, an event shows what is down, whatever
\* the tap has missed, but for the bits that changed while it did
\* (darwin/input_hook.c:391, 961, 989).
THEOREM MaskFollowsInput ==
  ASSUME NoKnownDeviation
  PROVE  DarwinSpec => MaskShowsInput
<1>1. DarwinInit => MaskFollowed
  BY DEF DarwinInit, MaskFollowed
<1>2. ASSUME DarwinTypes, MaskFollowed, [DarwinNext]_vars PROVE MaskFollowed'
  <2>1. CASE CapsLockChanged
    <3>1. /\ UNCHANGED <<heldKeys, heldButtons, hook>> /\ stale \subseteq stale'
          /\ Differ(currentModifiers', currentModifiers) \subseteq LockKeys
      BY <2>1, Bits DEF CapsLockChanged, CapsToggled, Differ, Unheard
    <3> QED
      BY <1>2, <3>1 DEF MaskFollowed, Wrong, Truth, Differ
  <2>2. CASE Initialize
    <3>1. UNCHANGED <<heldKeys, heldButtons>> /\ currentModifiers' \subseteq Truth \cup LockKeys
          /\ Truth \subseteq currentModifiers'
      BY <2>2, Bits DEF Initialize, userVars, Truth
    <3> QED
      BY <3>1 DEF MaskFollowed, Wrong, Truth, Differ
  <2>3. CASE OtherKey \/ MouseMoved \/ ScrollWheel \/ TapTimesOut \/ TapDisabledByTimeout
             \/ RunLoopExit \/ Tick \/ UNCHANGED vars
    <3>1. UNCHANGED <<heldKeys, heldButtons, currentModifiers, stale>> /\ (hook' # "off" => hook # "off")
      BY <2>3 DEF OtherKey, MouseMoved, ScrollWheel, TapTimesOut, TapDisabledByTimeout,
           RunLoopExit, Tick, userVars, hookVars, vars
    <3> QED
      BY <1>2, <3>1 DEF MaskFollowed, Wrong, Truth
  <2>4. CASE RunLoopEntry
    BY <1>2, <2>4 DEF RunLoopEntry, userVars, MaskFollowed, Wrong, Truth
  <2> QED
    BY <1>2, <2>1, <2>2, <2>3, <2>4, KeyFollowed, ButtonFollowed, NoKnownDeviation DEF DarwinNext
<1> DEFINE Seen == \A i \in DOMAIN dispatched' :
                     dispatched'[i].type \in InputKinds =>
                       Differ(dispatched'[i].mask, Shown(heldKeys', heldButtons')) \ LockKeys \subseteq stale'
<1>3. ASSUME MaskFollowed', DarwinNext PROVE Seen
  <2>1. CASE hook' = "off"
    BY <1>3, <2>1, OnlyWhenOn
  <2>2. CASE hook' # "off"
    BY <1>3, <2>2, EventsAreCurrent DEF MaskFollowed, Wrong, Truth, Current
  <2> QED
    BY <2>1, <2>2
<1>4. DarwinTypes /\ MaskFollowed /\ [DarwinNext]_vars => MaskFollowed' /\ [Seen]_vars
  BY <1>2, <1>3
<1> QED
  BY <1>1, <1>4, TypesInvariant, PTL DEF DarwinSpec, MaskShowsInput

=============================================================================
