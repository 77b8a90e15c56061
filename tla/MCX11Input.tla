----------------------------- MODULE MCX11Input -----------------------------
(* X11Input for TLC: its constants are given in the cfg file.              *)
EXTENDS X11Input

NoKeys == heldKeys = {} /\ leds = {} /\ mask \subseteq ButtonBits /\ "LOCKS" \notin stale

\* Bound: a behaviour exercises the clock, the buttons and the mapping, or what is
\* down at the start, or the keys and button 1 with two recorded events; the
\* handlers of keys and of buttons share no more than the mask.
KeysOrClicks ==
    \/ NoKeys /\ Len(pending) <= 1 /\ stale \subseteq {"MAPPING"}
    \/ NoKeys /\ Len(pending) <= 1 /\ now = 0 /\ Len(presses) <= 1
    \/ /\ now = 0 /\ ~leftHanded /\ "MAPPING" \notin stale
       /\ heldButtons \subseteq {1} /\ Len(presses) <= 1
=============================================================================
