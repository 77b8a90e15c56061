----------------------------- MODULE HookWorker -----------------------------
(***************************************************************************)
(* The life of a hook: addon.c's start() and stop() on the JavaScript      *)
(* thread, uiohook_worker.c's hook_enable() and stop, and the hook thread  *)
(* that runs libuiohook's hook_run().  The two threads meet on two libuv   *)
(* mutexes, hook_running_mutex and hook_control_mutex, one condition       *)
(* variable, hook_control_cond, and thread join.  One action is one        *)
(* synchronising call of one thread, with the private work around it.      *)
(***************************************************************************)

CONSTANTS
    Platform,         \* which libuiohook backend is linked: "x11", "darwin" or "windows"
    HookMayFail,      \* hook_run() may return an error before the hook is enabled
    HookMayDie,       \* the platform loop may end although nobody called hook_stop()
    SpuriousWakeups,  \* uv_cond_wait() may return without a signal
    NapiCheckBlind    \* NAPI_CALL's own uninitialised `status` hides the real one

ASSUME EnvironmentAssumption ==
    /\ Platform \in {"x11", "darwin", "windows"}
    /\ {HookMayFail, HookMayDie, SpuriousWakeups, NapiCheckBlind} \subseteq BOOLEAN

VARIABLES
    isWorkerRunning,  \* addon.c: is_worker_running
    threadsafeFn,     \* addon.c: threadsafe_fn, "null" or "live"
    mainPc,           \* where the JavaScript thread is; "idle" outside start() and stop(),
                      \* "exiting" once process.exit() has left JavaScript, "dead" when
                      \* the process is gone
    hookPc,           \* where the hook thread is; "none" when there is nothing to join
    running,          \* hook_running_mutex: "destroyed", "free" or its owner
    control,          \* hook_control_mutex: the same
    waitSet,          \* the threads in the wait set of hook_control_cond
    status,           \* hook_enable()'s local status
    threadStatus,     \* hook_thread_status
    quit,             \* the platform loop has been told to stop
    reply             \* what the last start() or stop() told its caller

mainVars == <<isWorkerRunning, threadsafeFn, mainPc, status, reply>>
hookVars == <<hookPc, threadStatus, quit>>
syncVars == <<running, control, waitSet>>
vars == <<mainVars, hookVars, syncVars>>

MainPcs == {"idle", "lock_control", "create", "cond_wait", "waiting", "trylock",
            "join_failed", "unlock_control", "started", "hook_stop", "join_stop",
            "stopped", "exiting", "dead"}
HookPcs == {"none", "init", "lock_running", "lock_control", "signal", "unlock",
            "loop", "dis_lock", "dis_unlock", "teardown", "final_signal",
            "final_unlock", "exited"}
MutexStates == {"destroyed", "free", "main", "hook"}
Replies == {"none", "started", "stopped", "threw", "start_failed", "stop_failed",
            "already_running", "not_running", "pending"}

TypeOK ==
    /\ isWorkerRunning \in BOOLEAN
    /\ threadsafeFn \in {"null", "live"}
    /\ mainPc \in MainPcs
    /\ hookPc \in HookPcs
    /\ running \in MutexStates
    /\ control \in MutexStates
    /\ waitSet \subseteq {"main"}
    /\ status \in {"failure", "success", "thread_create"}
    /\ threadStatus \in {"failure", "success"}
    /\ quit \in BOOLEAN
    /\ reply \in Replies

Init ==
    /\ isWorkerRunning = FALSE
    /\ threadsafeFn = "null"
    /\ mainPc = "idle"
    /\ hookPc = "none"
    /\ running = "destroyed"
    /\ control = "destroyed"
    /\ waitSet = {}
    /\ status = "failure"
    /\ threadStatus = "success"
    /\ quit = FALSE
    /\ reply = "none"

-----------------------------------------------------------------------------
(* The primitives of libuv.                                                *)

MainTo(from, to) == mainPc = from /\ mainPc' = to
HookTo(from, to) == mainPc # "dead" /\ hookPc = from /\ hookPc' = to

\* What a mutex may be after thread t calls uv_mutex_unlock() on it.  Unlocking
\* somebody else's mutex is undefined: it may take effect or be ignored.
AfterUnlock(mutex, t) == IF mutex \in {t, "free"} THEN {"free"} ELSE {"free", mutex}

\* uv_mutex_destroy() on a held mutex is undefined.  libuv aborts when
\* pthread_mutex_destroy() reports EBUSY; a critical section is just deleted.
DestroyAborts(mutex) == mutex \in {"main", "hook"} /\ Platform # "windows"

\* The hook thread's positions at which the platform's hook_stop() still finds
\* something to stop: an enabled record context, a run loop with a mode, a
\* thread that takes messages.
LoopPcs == {"lock_running", "lock_control", "signal", "unlock", "loop"}
Stoppable ==
    CASE Platform = "x11"     -> LoopPcs
      [] Platform = "darwin"  -> LoopPcs \union {"dis_lock", "dis_unlock"}
      [] Platform = "windows" -> HookPcs \ {"none", "exited"}

-----------------------------------------------------------------------------
(* start(): addon.c, uiohook_worker_start() and hook_enable().             *)

StartAlreadyRunning ==
    /\ mainPc = "idle"
    /\ isWorkerRunning
    /\ reply' = "already_running"
    /\ UNCHANGED <<isWorkerRunning, threadsafeFn, mainPc, status, hookVars, syncVars>>

\* Argument checks that throw change nothing else.
StartBadArgument ==
    /\ mainPc = "idle"
    /\ ~isWorkerRunning
    /\ reply' = "threw"
    /\ UNCHANGED <<isWorkerRunning, threadsafeFn, mainPc, status, hookVars, syncVars>>

\* Create the thread-safe function, then the mutexes.  `created` is whether Node
\* could, `passed` is what NAPI_CALL makes of it: the macro declares a `status`
\* of its own and initialises it from itself, so the two need not agree.
StartCreate(created, passed) ==
    /\ mainPc = "idle"
    /\ ~isWorkerRunning
    /\ NapiCheckBlind \/ passed = created
    /\ threadsafeFn' = IF created THEN "live" ELSE threadsafeFn
    /\ IF passed
       THEN /\ mainPc' = "lock_control"
            /\ running' = "free"
            /\ control' = "free"
            /\ reply' = "pending"
       ELSE /\ reply' = "threw"
            /\ UNCHANGED <<mainPc, running, control>>
    /\ UNCHANGED <<isWorkerRunning, status, hookVars, waitSet>>

LockControl ==
    /\ MainTo("lock_control", "create")
    /\ control = "free"
    /\ control' = "main"
    /\ status' = "failure"
    /\ UNCHANGED <<isWorkerRunning, threadsafeFn, reply, hookVars, running, waitSet>>

CreateThread ==
    /\ MainTo("create", "cond_wait")
    /\ hookPc' = "init"
    /\ quit' = FALSE
    /\ UNCHANGED <<isWorkerRunning, threadsafeFn, status, reply, threadStatus, syncVars>>

CreateThreadFails ==
    /\ MainTo("create", "unlock_control")
    /\ status' = "thread_create"
    /\ UNCHANGED <<isWorkerRunning, threadsafeFn, reply, hookVars, syncVars>>

\* uv_cond_wait() releases the mutex and joins the wait set in one step ...
CondWait ==
    /\ MainTo("cond_wait", "waiting")
    /\ waitSet' = {"main"}
    /\ control' = "free"
    /\ UNCHANGED <<isWorkerRunning, threadsafeFn, status, reply, hookVars, running>>

SpuriousWakeup ==
    /\ SpuriousWakeups
    /\ waitSet # {}
    /\ waitSet' = {}
    /\ UNCHANGED <<mainVars, hookVars, running, control>>

\* ... and returns, once woken, with the mutex held again.
CondReturn ==
    /\ MainTo("waiting", "trylock")
    /\ waitSet = {}
    /\ control = "free"
    /\ control' = "main"
    /\ UNCHANGED <<isWorkerRunning, threadsafeFn, status, reply, hookVars, running, waitSet>>

TryLockSucceeds ==
    /\ MainTo("trylock", "join_failed")
    /\ running = "free"
    /\ running' = "main"
    /\ UNCHANGED <<isWorkerRunning, threadsafeFn, status, reply, hookVars, control, waitSet>>

\* Defective variant: takes any wake-up for a successful start.
TryLockUnchecked ==
    /\ MainTo("trylock", "unlock_control")
    /\ status' = "success"
    /\ UNCHANGED <<isWorkerRunning, threadsafeFn, reply, hookVars, syncVars>>

TryLockFails ==
    /\ MainTo("trylock", "unlock_control")
    /\ running # "free"
    /\ status' = "success"
    /\ UNCHANGED <<isWorkerRunning, threadsafeFn, reply, hookVars, syncVars>>

JoinFailed ==
    /\ MainTo("join_failed", "unlock_control")
    /\ hookPc = "exited"
    /\ hookPc' = "none"
    /\ status' = threadStatus
    /\ UNCHANGED <<isWorkerRunning, threadsafeFn, reply, threadStatus, quit, syncVars>>

UnlockControl ==
    /\ MainTo("unlock_control", "started")
    /\ control' \in AfterUnlock(control, "main")
    /\ UNCHANGED <<isWorkerRunning, threadsafeFn, status, reply, hookVars, running, waitSet>>

StartSucceeds ==
    /\ MainTo("started", "idle")
    /\ status = "success"
    /\ isWorkerRunning' = TRUE
    /\ reply' = "started"
    /\ UNCHANGED <<threadsafeFn, status, hookVars, syncVars>>

\* Destroy the mutexes, release the thread-safe function (Node aborts on a null
\* one) and throw.
StartFails ==
    /\ MainTo("started", "idle")
    /\ status # "success"
    /\ threadsafeFn = "live"
    /\ running' = "destroyed"
    /\ control' = "destroyed"
    /\ threadsafeFn' = "null"
    /\ reply' = "start_failed"
    /\ UNCHANGED <<isWorkerRunning, status, hookVars, waitSet>>

StartFailsAbort ==
    /\ MainTo("started", "dead")
    /\ status # "success"
    /\ DestroyAborts(running) \/ DestroyAborts(control) \/ threadsafeFn = "null"
    /\ UNCHANGED <<isWorkerRunning, threadsafeFn, status, reply, hookVars, syncVars>>

-----------------------------------------------------------------------------
(* stop(): addon.c, uiohook_worker_stop() and the platform's hook_stop().  *)

StopNotRunning ==
    /\ mainPc = "idle"
    /\ ~isWorkerRunning
    /\ reply' = "not_running"
    /\ UNCHANGED <<isWorkerRunning, threadsafeFn, mainPc, status, hookVars, syncVars>>

StopCall ==
    /\ MainTo("idle", "hook_stop")
    /\ isWorkerRunning
    /\ reply' = "pending"
    /\ UNCHANGED <<isWorkerRunning, threadsafeFn, status, hookVars, syncVars>>

\* Defective variant: reports success without telling the loop.
HookStopSilent ==
    /\ MainTo("hook_stop", "join_stop")
    /\ hookPc \in Stoppable
    /\ UNCHANGED <<isWorkerRunning, threadsafeFn, status, reply, hookVars, syncVars>>

HookStop ==
    /\ MainTo("hook_stop", "join_stop")
    /\ hookPc \in Stoppable
    /\ quit' = TRUE
    /\ UNCHANGED <<isWorkerRunning, threadsafeFn, status, reply, hookPc, threadStatus, syncVars>>

\* A failing hook_stop() leaves every flag as it was and throws.
HookStopFails ==
    /\ MainTo("hook_stop", "idle")
    /\ hookPc \notin Stoppable
    /\ reply' = "stop_failed"
    /\ UNCHANGED <<isWorkerRunning, threadsafeFn, status, hookVars, syncVars>>

\* Defective variant: does not wait for the hook thread.
JoinSkipped ==
    /\ MainTo("join_stop", "stopped")
    /\ UNCHANGED <<isWorkerRunning, threadsafeFn, status, reply, hookVars, syncVars>>

JoinStopped ==
    /\ MainTo("join_stop", "stopped")
    /\ hookPc = "exited"
    /\ hookPc' = "none"
    /\ UNCHANGED <<isWorkerRunning, threadsafeFn, status, reply, threadStatus, quit, syncVars>>

StopReturns ==
    /\ MainTo("stopped", "idle")
    /\ running' = "destroyed"
    /\ control' = "destroyed"
    /\ threadsafeFn' = "null"
    /\ isWorkerRunning' = FALSE
    /\ reply' = "stopped"
    /\ UNCHANGED <<status, hookVars, waitSet>>

-----------------------------------------------------------------------------
(* The hook thread: hook_thread_proc(), hook_run() and the two life-cycle  *)
(* events it dispatches to worker_dispatch_proc().                         *)

\* hook_run() gives up before EVENT_HOOK_ENABLED.
RunFails ==
    /\ HookMayFail
    /\ HookTo("init", "final_signal")
    /\ threadStatus' = "failure"
    /\ UNCHANGED <<quit, mainVars, syncVars>>

\* The platform loop is entered and reports EVENT_HOOK_ENABLED.
RunEnabled ==
    /\ HookTo("init", "lock_running")
    /\ UNCHANGED <<threadStatus, quit, mainVars, syncVars>>

EnabledLockRunning ==
    /\ HookTo("lock_running", "lock_control")
    /\ running = "free"
    /\ running' = "hook"
    /\ UNCHANGED <<threadStatus, quit, mainVars, control, waitSet>>

\* Defective variant: signals and unlocks without having locked.
EnabledNoLock ==
    /\ HookTo("lock_control", "signal")
    /\ UNCHANGED <<threadStatus, quit, mainVars, syncVars>>

EnabledLockControl ==
    /\ HookTo("lock_control", "signal")
    /\ control = "free"
    /\ control' = "hook"
    /\ UNCHANGED <<threadStatus, quit, mainVars, running, waitSet>>

EnabledSignal ==
    /\ HookTo("signal", "unlock")
    /\ waitSet' = {}
    /\ UNCHANGED <<threadStatus, quit, mainVars, running, control>>

\* Defective variant: EVENT_HOOK_ENABLED does not unlock hook_control_mutex.
EnabledKeepsControl ==
    /\ HookTo("unlock", "loop")
    /\ UNCHANGED <<threadStatus, quit, mainVars, syncVars>>

EnabledUnlockControl ==
    /\ HookTo("unlock", "loop")
    /\ control' \in AfterUnlock(control, "hook")
    /\ UNCHANGED <<threadStatus, quit, mainVars, running, waitSet>>

\* The loop ends and reports EVENT_HOOK_DISABLED.
LoopEnds ==
    /\ HookTo("loop", "dis_lock")
    /\ quit \/ HookMayDie
    /\ UNCHANGED <<threadStatus, quit, mainVars, syncVars>>

DisabledLockControl ==
    /\ HookTo("dis_lock", "dis_unlock")
    /\ control = "free"
    /\ control' = "hook"
    /\ UNCHANGED <<threadStatus, quit, mainVars, running, waitSet>>

\* Defective variant: EVENT_HOOK_DISABLED does not unlock hook_running_mutex.
DisabledKeepsRunning ==
    /\ HookTo("dis_unlock", "teardown")
    /\ UNCHANGED <<threadStatus, quit, mainVars, syncVars>>

DisabledUnlockRunning ==
    /\ HookTo("dis_unlock", "teardown")
    /\ running' \in AfterUnlock(running, "hook")
    /\ UNCHANGED <<threadStatus, quit, mainVars, control, waitSet>>

RunReturns ==
    /\ HookTo("teardown", "final_signal")
    /\ threadStatus' = "success"
    /\ UNCHANGED <<quit, mainVars, syncVars>>

\* After hook_run(): signal and unlock, whether or not this thread holds the
\* control mutex.
FinalSignal ==
    /\ HookTo("final_signal", "final_unlock")
    /\ waitSet' = {}
    /\ UNCHANGED <<threadStatus, quit, mainVars, running, control>>

FinalUnlock ==
    /\ HookTo("final_unlock", "exited")
    /\ control' \in AfterUnlock(control, "hook")
    /\ UNCHANGED <<threadStatus, quit, mainVars, running, waitSet>>

-----------------------------------------------------------------------------
ThrowingCall == StartAlreadyRunning \/ StartBadArgument \/ StopNotRunning

ReleaseStep == StartFails \/ StopReturns

MainStep ==
    \/ LockControl
    \/ CreateThread
    \/ CreateThreadFails
    \/ CondWait
    \/ CondReturn
    \/ TryLockSucceeds
    \/ TryLockFails
    \/ JoinFailed
    \/ UnlockControl
    \/ StartSucceeds
    \/ StartFailsAbort
    \/ HookStop
    \/ HookStopFails
    \/ JoinStopped

HookStep ==
    \/ RunFails
    \/ RunEnabled
    \/ EnabledLockRunning
    \/ EnabledLockControl
    \/ EnabledSignal
    \/ EnabledUnlockControl
    \/ DisabledLockControl
    \/ DisabledUnlockRunning
    \/ RunReturns
    \/ FinalSignal
    \/ FinalUnlock

\* The process is gone and, with it, both threads.
ProcessGone == mainPc = "dead" /\ UNCHANGED vars

Next ==
    \/ ThrowingCall
    \/ \E created, passed \in BOOLEAN : StartCreate(created, passed)
    \/ StopCall
    \/ MainStep
    \/ ReleaseStep
    \/ HookStep
    \/ LoopEnds
    \/ SpuriousWakeup
    \/ ProcessGone

Spec == Init /\ [][Next]_vars

\* Both threads are scheduled; a loop told to quit does; nobody has to call
\* start() or stop(), and no loop has to die.
Fairness ==
    /\ WF_vars(MainStep \/ ReleaseStep)
    /\ WF_vars(HookStep)
    /\ WF_vars(quit /\ LoopEnds)

LiveSpec == Spec /\ Fairness
-----------------------------------------------------------------------------
(* What makes the life cycle correct.                                      *)

InStop == mainPc \in {"hook_stop", "join_stop", "stopped"}

\* is_worker_running tells the truth: from the return of start() to the call of
\* stop(), the hook thread holds hook_running_mutex, so it is past
\* EVENT_HOOK_ENABLED and not yet past EVENT_HOOK_DISABLED (addon.c:179, 235).
RunningMeansHooked ==
    isWorkerRunning /\ ~InStop => running = "hook"

\* Whenever start() may create a thread, the one before has been joined and its
\* mutexes are gone: uv_mutex_init() never re-initialises a mutex in use, and a
\* failed start leaves no thread behind (uiohook_worker.c:158-180).
StoppedLeavesNothing ==
    mainPc = "idle" /\ ~isWorkerRunning =>
        /\ hookPc = "none"
        /\ running = "destroyed"
        /\ control = "destroyed"

\* threadsafe_fn needs no lock: the JavaScript thread writes it only before the
\* hook thread exists or after it has finished, and the hook thread reads it only
\* in its loop (addon.c:12, 214, 221, 250).
WritesThreadsafeFn == mainPc \in {"started", "stopped"} /\ ~(status = "success" /\ ~isWorkerRunning)
ThreadsafeFnUnshared ==
    (WritesThreadsafeFn \/ (mainPc = "idle" /\ ~isWorkerRunning)) => hookPc = "none"

\* hook_stop() never looks at a hook that is still being set up: the x11 one
\* reads hook->ctrl.context, which malloc() leaves undefined until the record
\* context is created (x11/input_hook.c:1046, 1075).
StopAfterSetup == mainPc = "hook_stop" => hookPc # "init"

\* Each mutex is given back by the thread that took it (uiohook_worker.c:50-63,
\* 110, 150).
OwnersUnlock ==
    [][ /\ running = "main" => running' \in {"main", "destroyed"} \/ mainPc' # mainPc
        /\ running = "hook" => running' = "hook" \/ hookPc' # hookPc
        /\ control = "main" => control' = "main" \/ mainPc' # mainPc
        /\ control = "hook" => control' = "hook" \/ hookPc' # hookPc ]_vars

\* A mutex is destroyed only when the hook thread has been joined or was never created,
\* and only when it is free - but for hook_running_mutex when hook_run() has failed: the
\* start() that took it for the sign of that destroys it while it holds it itself
\* (uiohook_worker.c:127-137, 175, 190).
DestroyedByTheLast ==
    [][ /\ "destroyed" \in {running', control'} => hookPc = "none"
        /\ running' = "destroyed" =>
             \/ running \in {"free", "destroyed"}
             \/ running = "main" /\ mainPc = "started" /\ status = "failure"
        /\ control' = "destroyed" => control \in {"free", "destroyed"} ]_vars

\* A thread is inside a call that cannot return as things are.
MainBlocked ==
    \/ mainPc = "lock_control" /\ control # "free"
    \/ mainPc = "waiting" /\ (waitSet # {} \/ control # "free")
    \/ mainPc \in {"join_failed", "join_stop"} /\ hookPc # "exited"
HookBlocked ==
    \/ hookPc = "lock_running" /\ running # "free"
    \/ hookPc \in {"lock_control", "dis_lock"} /\ control # "free"
    \/ hookPc = "loop" /\ ~quit
HookOver == hookPc \in {"none", "exited"}

\* The signal of a hook_run() that failed at once came before the wait for it.
LostWakeup == mainPc = "waiting" /\ waitSet # {} /\ hookPc = "exited"

\* After a wake-up without a signal start() has taken the running mutex for the sign
\* of a failure, and joins a hook thread that wants to lock it.
StolenLock == mainPc = "join_failed" /\ running = "main" /\ hookPc = "lock_running"

\* Whatever start() and stop() wait for, the hook thread is there and on its way to
\* provide it; the two ways to deadlock are a lost wake-up and a stolen lock
\* (uiohook_worker.c:109, 125, 137, 187).
OnlyKnownDeadlocks ==
    MainBlocked /\ (HookBlocked \/ HookOver) => LostWakeup \/ StolenLock

\* start() returns: the wait for the hook thread ends, whatever hook_run() does
\* (uiohook_worker.c:122-125).
StartReturns == (mainPc = "lock_control") ~> (mainPc \in {"idle", "dead"})

\* The caller's view implements HookSession.
JavaScriptGone == mainPc \in {"exiting", "dead"}
Session == INSTANCE HookSession WITH
    session <- IF JavaScriptGone THEN "gone"
               ELSE IF isWorkerRunning
                    THEN IF InStop THEN "stopping" ELSE "running"
                    ELSE IF mainPc = "idle" THEN "stopped" ELSE "starting",
    enabled <- ~JavaScriptGone /\ running = "hook"
ImplementsSession == Session!Spec
ImplementsLiveSession == Session!LiveSpec
=============================================================================
