------------------------------- MODULE KeyTap -------------------------------
(***************************************************************************)
(* keyTap() and keyToggle() of index.ts, key_tap() of addon.c and, under   *)
(* them, hook_post_event().  All of it runs in one call of the JavaScript  *)
(* thread; a step is one event posted, so that any of them may fail.       *)
(***************************************************************************)
EXTENDS PostEvent
LOCAL INSTANCE SequencesExt

CONSTANTS
    MaxModifiers,   \* bound: the modifiers of one keyTap()
    NapiCheckBlind  \* NAPI_CALL(env, status) may judge a call wrongly

\* An argument that is not a number, for example undefined.
NotANumber == "NOT_A_NUMBER"

ASSUME TapAssumption ==
    /\ MaxModifiers \in Nat
    /\ NapiCheckBlind \in BOOLEAN
    /\ NotANumber \notin Keys

VARIABLES
    calls,     \* calls of lib.keyTap() that keyTap() has still to make
    events,    \* events that key_tap() has still to post
    mayStay    \* history: keys that may be down when keyTap() is through

tapVars == <<calls, events, mayStay>>
vars == <<postVars, tapVars>>

-----------------------------------------------------------------------------
(* index.ts.                                                               *)

Call(key, toggle) == [key |-> key, toggle |-> toggle]
Each(keys, toggle) == [i \in DOMAIN keys |-> Call(keys[i], toggle)]

(* Defective variant: the last loop stops at i > 0. *)
TapKeepsFirst(key, modifiers) ==
    Each(modifiers, "DOWN") \o <<Call(key, "TAP")>>
        \o Each(IF modifiers = <<>> THEN <<>> ELSE Reverse(Tail(modifiers)), "UP")

\* Press the modifiers, tap the key, release the modifiers in reverse order.
TapCalls(key, modifiers) ==
    Each(modifiers, "DOWN") \o <<Call(key, "TAP")>> \o Each(Reverse(modifiers), "UP")

Returned == calls = <<>> /\ events = <<>>

Arguments == Keys \cup {NotANumber}
Postable == Keys \ {Unknown}
Quiet == posted' = <<>> /\ UNCHANGED <<platform, currentModifierMask, motion, motionButton,
                                       downKeys, downButtons, stale>>

keyTap ==
    /\ Returned
    /\ \E key \in Arguments, n \in 0..MaxModifiers : \E modifiers \in [1..n -> Arguments] :
          calls' = TapCalls(key, modifiers)
    /\ Quiet
    /\ UNCHANGED <<events, mayStay>>

keyToggle ==
    /\ Returned
    /\ \E key \in Arguments :
          \/ calls' = <<Call(key, "DOWN")>> /\ mayStay' = mayStay \cup ({key} \cap Postable)
          \/ calls' = <<Call(key, "UP")>> /\ mayStay' = mayStay
    /\ Quiet
    /\ UNCHANGED events

-----------------------------------------------------------------------------
(* addon.c.                                                                *)

Key(type, k) == [type |-> type, key |-> k]

EventsOf(k, toggle) ==
    (IF toggle = "UP" THEN <<>> ELSE <<Key("KEY_PRESSED", k)>>)
        \o (IF toggle = "DOWN" THEN <<>> ELSE <<Key("KEY_RELEASED", k)>>)

\* Arguments are read, and events made of them.  If the check of an argument that
\* is not a number passes, the key is whatever the stack holds.
ArgumentsRead ==
    /\ events = <<>> /\ calls # <<>>
    /\ LET c == Head(calls) IN
       \/ /\ c.key \in Keys
          /\ events' = EventsOf(c.key, c.toggle)
          /\ UNCHANGED mayStay
       \/ /\ c.key = NotANumber /\ NapiCheckBlind
          /\ \E k \in Keys : events' = EventsOf(k, c.toggle) /\ mayStay' = mayStay \cup ({k} \cap Postable)
    /\ calls' = Tail(calls)
    /\ Quiet

\* key_tap() throws, and keyTap() does not catch: what it has pressed stays down.
ArgumentThrows ==
    /\ events = <<>> /\ calls # <<>>
    /\ Head(calls).key = NotANumber \/ NapiCheckBlind
    /\ calls' = <<>>
    /\ mayStay' = mayStay \cup downKeys
    /\ Quiet
    /\ UNCHANGED events

PostNext ==
    /\ events # <<>>
    /\ LET e == Head(events) IN
       /\ PostKey(e.type, e.key)
       /\ mayStay' = IF IsPress(e.type) THEN mayStay
                     ELSE IF posted' = <<>> THEN mayStay \cup ({e.key} \cap Postable)
                     ELSE mayStay \ {e.key}
    /\ events' = Tail(events)
    /\ UNCHANGED calls

-----------------------------------------------------------------------------
TapInit == PostInit /\ calls = <<>> /\ events = <<>> /\ mayStay = {}

TapNext ==
    \/ keyTap \/ keyToggle
    \/ ArgumentsRead \/ ArgumentThrows \/ PostNext
    \/ Returned /\ PostMouse /\ UNCHANGED tapVars

TapSpec == TapInit /\ [][TapNext]_vars

-----------------------------------------------------------------------------
(* Properties.                                                             *)

PostTypeOK ==
    /\ platform \in Platforms
    /\ currentModifierMask \subseteq DOMAIN Pairs \cup ButtonBits
    /\ motion \in {"MOVED", "LEFT_DRAGGED", "RIGHT_DRAGGED", "OTHER_DRAGGED"}
    /\ motionButton \in Buttons \cup {1}
    /\ downKeys \subseteq Keys \ {Unknown} /\ downButtons \subseteq Buttons \ {0}
    /\ stale \subseteq DOMAIN Pairs \cup ButtonBits \cup {"MOTION"}
    /\ Len(calls) <= 2 * MaxModifiers + 1 /\ Len(events) <= 2
    /\ mayStay \subseteq Postable

\* When keyTap() is through, no key is down but those that keyToggle() pressed,
\* those whose release was lost, and those that were down when an argument made
\* the call throw (index.ts:240-257, addon.c:275-308).
TapsAreReleased == Returned => downKeys \subseteq mayStay

=============================================================================
