---------------------------- MODULE DarwinTyping ----------------------------
(***************************************************************************)
(* HookWorker on macOS, with what process_key_pressed() and                *)
(* process_system_key() do in the middle of an event: the input source may *)
(* only be asked on the process's main thread, so the hook thread hands    *)
(* the question to the main dispatch queue with dispatch_sync_f() and      *)
(* waits for the answer (darwin/input_hook.c:277, 512).  The main thread   *)
(* is the JavaScript thread.  Nothing in the repository serves the queue:  *)
(* a host whose event loop is a Cocoa run loop may, one whose event loop   *)
(* is libuv's never does, so nothing here relies on its being served.      *)
(***************************************************************************)
EXTENDS HookWorker

VARIABLE lookup   \* the hook thread waits in dispatch_sync_f()

typingVars == <<vars, lookup>>

TypingInit == Init /\ lookup = FALSE

DispatchSync ==
    /\ mainPc # "dead" /\ hookPc = "loop"
    /\ ~lookup
    /\ lookup' = TRUE
    /\ UNCHANGED vars

\* The host, at any time or never, when the JavaScript thread is in its event loop.
ServeMainQueue ==
    /\ mainPc = "idle"
    /\ lookup
    /\ lookup' = FALSE
    /\ UNCHANGED vars

\* The loop notices CFRunLoopStop() between two events.
LoopEndsBetweenEvents == ~lookup /\ LoopEnds /\ UNCHANGED lookup

WorkerAlone ==
    /\ \/ ThrowingCall
       \/ \E created, passed \in BOOLEAN : StartCreate(created, passed)
       \/ StopCall \/ MainStep \/ ReleaseStep \/ HookStep \/ SpuriousWakeup \/ ProcessGone
    /\ UNCHANGED lookup

TypingNext == DispatchSync \/ ServeMainQueue \/ LoopEndsBetweenEvents \/ WorkerAlone

\* As in HookWorker: both threads are scheduled and a loop told to quit does.
TypingSpec ==
    /\ TypingInit /\ [][TypingNext]_typingVars
    /\ WF_typingVars((MainStep \/ ReleaseStep) /\ UNCHANGED lookup)
    /\ WF_typingVars(HookStep /\ UNCHANGED lookup)
    /\ WF_typingVars(quit /\ LoopEndsBetweenEvents)

\* A hook thread that waits for the main queue, and a main thread that waits for it.
StopAgainstLookup == mainPc = "join_stop" /\ hookPc = "loop" /\ lookup

\* Lookups add one way to deadlock, and only one: stop() called while the hook thread
\* waits for the main queue (darwin/input_hook.c:280, uiohook_worker.c:187).
OneMoreDeadlock ==
    MainBlocked /\ (HookBlocked \/ HookOver \/ lookup) =>
        LostWakeup \/ StolenLock \/ StopAgainstLookup

\* A stop() that finds a hook returns, or it is the lookup that it waits for: that
\* deadlock is the only thing to hold it up, whatever start() has been through
\* (darwin/input_hook.c:280, 1416-1436, uiohook_worker.c:183-195).
StopWaitsForLookupsOnly == (mainPc = "hook_stop") ~> (mainPc = "idle" \/ StopAgainstLookup)

\* stop() returns: the hook thread is never waiting for the thread that waits in
\* uv_thread_join() for it (uiohook_worker.c:186).
StopReturnsWhileTyping == (mainPc = "hook_stop") ~> (mainPc = "idle")
=============================================================================
