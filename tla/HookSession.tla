----------------------------- MODULE HookSession -----------------------------
(***************************************************************************)
(* What the add-on promises its JavaScript caller about one hook after     *)
(* another, with no thread, mutex or platform in sight: start() succeeds   *)
(* only with the hook enabled, an enabled hook stays enabled until stop(), *)
(* and stop() returns only after it is disabled.                           *)
(***************************************************************************)
VARIABLES
    session,   \* "stopped", "starting", "running" or "stopping", as the caller sees
               \* it; "gone" once the process has died or left JavaScript
    enabled    \* the hook is attached to the operating system

vars == <<session, enabled>>

Init == session = "stopped" /\ enabled = FALSE

BeginStart == session = "stopped" /\ session' = "starting" /\ UNCHANGED enabled

Attach == session = "starting" /\ ~enabled /\ enabled' = TRUE /\ UNCHANGED session

StartOk == session = "starting" /\ enabled /\ session' = "running" /\ UNCHANGED enabled

StartFail == session = "starting" /\ ~enabled /\ session' = "stopped" /\ UNCHANGED enabled

BeginStop == session = "running" /\ session' = "stopping" /\ UNCHANGED enabled

Detach == session = "stopping" /\ enabled /\ enabled' = FALSE /\ UNCHANGED session

EndStop == session = "stopping" /\ ~enabled /\ session' = "stopped" /\ UNCHANGED enabled

\* The process may end at any time, and everything with it.
Vanish == session # "gone" /\ session' = "gone" /\ enabled' = FALSE

Next ==
    BeginStart \/ Attach \/ StartOk \/ StartFail \/ BeginStop \/ Detach \/ EndStop
    \/ Vanish

Spec == Init /\ [][Next]_vars

\* A call once made returns, and an enabled hook can be detached.
LiveSpec ==
    /\ Spec
    /\ WF_vars(StartOk \/ StartFail)
    /\ WF_vars(Detach)
    /\ WF_vars(EndStop)
=============================================================================
