-------------------------- MODULE HookWorkerProofs --------------------------
(***************************************************************************)
(* Proofs about HookWorker, and about DarwinTyping, which adds lookups to  *)
(* it.  Lifecycle is inductive whatever the platform and the environment   *)
(* do; Attachment, on top of it, needs a platform loop that ends only when *)
(* told to, and Ownership a hook_run() that does not fail.                 *)
(***************************************************************************)
EXTENDS DarwinTyping, TLAPS

Unstarted == mainPc = "idle" /\ ~isWorkerRunning
BeforeThread == mainPc \in {"lock_control", "create"}
Enabling == mainPc \in {"cond_wait", "waiting", "trylock"}
Reporting == mainPc \in {"unlock_control", "started"}

\* stop() runs exactly when there is something to stop; start() when not.
CallsMatchFlag ==
    /\ isWorkerRunning => mainPc \in {"idle", "hook_stop", "join_stop", "stopped"}
    /\ InStop => isWorkerRunning

\* The hook thread exists only between its creation and its join.
ThreadScope ==
    /\ Unstarted \/ BeforeThread \/ mainPc = "stopped" => hookPc = "none"
    /\ Reporting /\ status # "success" => hookPc = "none"

\* Until the hook thread takes it, only a successful trylock takes the running mutex.
RunningUntaken ==
    /\ BeforeThread => running = "free"
    /\ Enabling /\ hookPc \in {"init", "lock_running"} => running = "free"

\* A hook thread not yet attached has start() waiting for it.
SetupAwaited == hookPc \in {"init", "lock_running"} => Enabling \/ mainPc = "join_failed"

Lifecycle ==
    /\ TypeOK
    /\ CallsMatchFlag
    /\ ThreadScope
    /\ RunningUntaken
    /\ SetupAwaited
    /\ StoppedLeavesNothing

\* The positions at which the hook thread owns the running mutex.
Attached == {"lock_control", "signal", "unlock", "loop", "dis_lock", "dis_unlock"}

\* The running mutex is the hook thread's exactly while the hook is attached.
OwnsWhileAttached ==
    /\ running = "hook" <=> hookPc \in Attached
    /\ running = "main" => mainPc \in {"join_failed", "dead"} \/ (Reporting /\ status # "success")
    /\ running = "destroyed" => Unstarted

\* Only stop() tells a loop to quit, and waits for it.
QuitIsStop == quit /\ hookPc # "none" => mainPc = "join_stop"

\* The thread leaves hook_run() because it was told to or because it failed.
LeavesForAReason ==
    /\ hookPc \in {"dis_lock", "dis_unlock", "teardown"} => quit
    /\ hookPc \in {"final_signal", "final_unlock", "exited"} =>
           quit \/ (threadStatus = "failure" /\ ~isWorkerRunning)

Attachment ==
    /\ Lifecycle
    /\ OwnsWhileAttached
    /\ QuitIsStop
    /\ LeavesForAReason
    /\ Reporting /\ status = "success" => running = "hook"
    /\ RunningMeansHooked
    /\ mainPc = "hook_stop" => running = "hook"

-----------------------------------------------------------------------------
\* What holds in every environment is inductive: the hook thread's existence,
\* set-up and end are tied to the JavaScript thread's place in start() and stop().
\* It holds before the first start() ...
LEMMA LifecycleInit == Init => Lifecycle
  BY DEF Init, Lifecycle, TypeOK, MainPcs, HookPcs, MutexStates, Replies,
         CallsMatchFlag, InStop, ThreadScope, Unstarted, BeforeThread, Enabling,
         Reporting, RunningUntaken, SetupAwaited, StoppedLeavesNothing

\* ... and every step keeps it.
LEMMA LifecycleNext == Lifecycle /\ [Next]_vars => Lifecycle'
<1> SUFFICES ASSUME Lifecycle, [Next]_vars PROVE Lifecycle'
  OBVIOUS
<1> USE DEF Lifecycle, TypeOK, MainPcs, HookPcs, MutexStates, Replies, CallsMatchFlag,
            InStop, ThreadScope, Unstarted, BeforeThread, Enabling, Reporting,
            RunningUntaken, SetupAwaited, StoppedLeavesNothing, AfterUnlock,
            vars, mainVars, hookVars, syncVars
<1>1. CASE ThrowingCall
  <2>1. CASE StartAlreadyRunning
    BY <2>1 DEF StartAlreadyRunning
  <2>2. CASE StartBadArgument
    BY <2>2 DEF StartBadArgument
  <2>3. CASE StopNotRunning
    BY <2>3 DEF StopNotRunning
  <2> QED
    BY <1>1, <2>1, <2>2, <2>3
    DEF ThrowingCall
<1>2. ASSUME NEW created \in BOOLEAN, NEW passed \in BOOLEAN,
           StartCreate(created, passed)
    PROVE  Lifecycle'
  BY <1>2 DEF StartCreate
<1>3. CASE StopCall
  BY <1>3 DEF StopCall, MainTo
<1>4. CASE MainStep
  <2>1. CASE LockControl
    BY <2>1 DEF LockControl, MainTo
  <2>2. CASE CreateThread
    BY <2>2, ZenonT(30) DEF CreateThread, MainTo
  <2>3. CASE CreateThreadFails
    BY <2>3 DEF CreateThreadFails, MainTo
  <2>4. CASE CondWait
    BY <2>4 DEF CondWait, MainTo
  <2>5. CASE CondReturn
    BY <2>5 DEF CondReturn, MainTo
  <2>6. CASE TryLockSucceeds
    BY <2>6 DEF TryLockSucceeds, MainTo
  <2>7. CASE TryLockFails
    BY <2>7 DEF TryLockFails, MainTo
  <2>8. CASE JoinFailed
    BY <2>8 DEF JoinFailed, MainTo
  <2>9. CASE UnlockControl
    BY <2>9 DEF UnlockControl, MainTo
  <2>10. CASE StartSucceeds
    BY <2>10 DEF StartSucceeds, MainTo
  <2>11. CASE StartFailsAbort
    BY <2>11 DEF StartFailsAbort, MainTo
  <2>12. CASE HookStop
    BY <2>12 DEF HookStop, MainTo
  <2>13. CASE HookStopFails
    BY <2>13 DEF HookStopFails, MainTo
  <2>14. CASE JoinStopped
    BY <2>14 DEF JoinStopped, MainTo
  <2> QED
    BY <1>4, <2>1, <2>2, <2>3, <2>4, <2>5, <2>6, <2>7, <2>8, <2>9, <2>10, <2>11, <2>12, <2>13, <2>14
    DEF MainStep
<1>5. CASE ReleaseStep
  <2>1. CASE StartFails
    BY <2>1 DEF StartFails, MainTo
  <2>2. CASE StopReturns
    BY <2>2 DEF StopReturns, MainTo
  <2> QED
    BY <1>5, <2>1, <2>2
    DEF ReleaseStep
<1>6. CASE HookStep
  <2>1. CASE RunFails
    BY <2>1 DEF RunFails, HookTo
  <2>2. CASE RunEnabled
    BY <2>2 DEF RunEnabled, HookTo
  <2>3. CASE EnabledLockRunning
    BY <2>3 DEF EnabledLockRunning, HookTo
  <2>4. CASE EnabledLockControl
    BY <2>4 DEF EnabledLockControl, HookTo
  <2>5. CASE EnabledSignal
    BY <2>5 DEF EnabledSignal, HookTo
  <2>6. CASE EnabledUnlockControl
    BY <2>6 DEF EnabledUnlockControl, HookTo
  <2>7. CASE DisabledLockControl
    BY <2>7 DEF DisabledLockControl, HookTo
  <2>8. CASE DisabledUnlockRunning
    BY <2>8 DEF DisabledUnlockRunning, HookTo
  <2>9. CASE RunReturns
    BY <2>9 DEF RunReturns, HookTo
  <2>10. CASE FinalSignal
    BY <2>10 DEF FinalSignal, HookTo
  <2>11. CASE FinalUnlock
    BY <2>11 DEF FinalUnlock, HookTo
  <2> QED
    BY <1>6, <2>1, <2>2, <2>3, <2>4, <2>5, <2>6, <2>7, <2>8, <2>9, <2>10, <2>11
    DEF HookStep
<1>7. CASE LoopEnds
  BY <1>7 DEF LoopEnds, HookTo
<1>8. CASE SpuriousWakeup
  BY <1>8 DEF SpuriousWakeup
<1>9. CASE ProcessGone
  BY <1>9 DEF ProcessGone
<1>10. CASE UNCHANGED vars
  BY <1>10
<1> QED
  BY <1>1, <1>2, <1>3, <1>4, <1>5, <1>6, <1>7, <1>8, <1>9, <1>10 DEF Next

\* So it holds always.
LEMMA LifecycleInvariant == Spec => []Lifecycle
  BY LifecycleInit, LifecycleNext, PTL DEF Spec

\* Every variable keeps its type, on every platform and in every environment.
THEOREM TypeCorrect == Spec => []TypeOK
BY LifecycleInvariant, PTL DEF Lifecycle

\* A start() that failed and a stop() that returned leave no thread and no mutex
\* behind, so the next start() may initialise them again.
THEOREM CleanSlate == Spec => []StoppedLeavesNothing
BY LifecycleInvariant, PTL DEF Lifecycle

\* threadsafe_fn is never written while a hook thread could read it.
THEOREM ThreadsafeFnRaceFree == Spec => []ThreadsafeFnUnshared
<1>1. Lifecycle => ThreadsafeFnUnshared
  BY DEF Lifecycle, ThreadsafeFnUnshared, WritesThreadsafeFn, CallsMatchFlag, InStop,
         ThreadScope, Unstarted, Reporting
<1> QED
  BY <1>1, LifecycleInvariant, PTL

\* hook_stop() never meets a hook under construction.
THEOREM StopMeetsNoSetup == Spec => []StopAfterSetup
<1>1. Lifecycle => StopAfterSetup
  BY DEF Lifecycle, StopAfterSetup, SetupAwaited, Enabling
<1> QED
  BY <1>1, LifecycleInvariant, PTL

-----------------------------------------------------------------------------
\* Before the first start() there is neither thread nor mutex.
LEMMA AttachmentInit == Init => Attachment
<1> SUFFICES ASSUME Init PROVE Attachment
  OBVIOUS
<1>1. Lifecycle
  BY LifecycleInit
<1> QED
  BY <1>1 DEF Init, Attachment, OwnsWhileAttached, Attached, QuitIsStop,
              LeavesForAReason, Reporting, RunningMeansHooked, Unstarted

\* A step of the two threads keeps the mutex and the hook together, if the loop ends only
\* on request.
LEMMA AttachmentNext ==
    ASSUME HookMayDie = FALSE, Attachment, Lifecycle', [Next]_vars
    PROVE  Attachment'
<1> USE DEF Attachment, OwnsWhileAttached, Attached, QuitIsStop, LeavesForAReason,
            RunningMeansHooked, Lifecycle, TypeOK, MainPcs, HookPcs, MutexStates,
            CallsMatchFlag, InStop, ThreadScope, Unstarted, BeforeThread, Enabling,
            Reporting, RunningUntaken, SetupAwaited, AfterUnlock,
            vars, mainVars, hookVars, syncVars
<1>1. CASE ThrowingCall
  <2>1. CASE StartAlreadyRunning
    BY <2>1 DEF StartAlreadyRunning
  <2>2. CASE StartBadArgument
    BY <2>2 DEF StartBadArgument
  <2>3. CASE StopNotRunning
    BY <2>3 DEF StopNotRunning
  <2> QED
    BY <1>1, <2>1, <2>2, <2>3
    DEF ThrowingCall
<1>2. ASSUME NEW created \in BOOLEAN, NEW passed \in BOOLEAN,
           StartCreate(created, passed)
    PROVE  Attachment'
  BY <1>2 DEF StartCreate
<1>3. CASE StopCall
  BY <1>3 DEF StopCall, MainTo
<1>4. CASE MainStep
  <2>1. CASE LockControl
    BY <2>1 DEF LockControl, MainTo
  <2>2. CASE CreateThread
    BY <2>2 DEF CreateThread, MainTo
  <2>3. CASE CreateThreadFails
    BY <2>3 DEF CreateThreadFails, MainTo
  <2>4. CASE CondWait
    BY <2>4 DEF CondWait, MainTo
  <2>5. CASE CondReturn
    BY <2>5 DEF CondReturn, MainTo
  <2>6. CASE TryLockSucceeds
    BY <2>6 DEF TryLockSucceeds, MainTo
  <2>7. CASE TryLockFails
    BY <2>7 DEF TryLockFails, MainTo
  <2>8. CASE JoinFailed
    BY <2>8 DEF JoinFailed, MainTo
  <2>9. CASE UnlockControl
    BY <2>9 DEF UnlockControl, MainTo
  <2>10. CASE StartSucceeds
    BY <2>10 DEF StartSucceeds, MainTo
  <2>11. CASE StartFailsAbort
    BY <2>11 DEF StartFailsAbort, MainTo
  <2>12. CASE HookStop
    BY <2>12 DEF HookStop, MainTo
  <2>13. CASE HookStopFails
    BY <2>13 DEF HookStopFails, MainTo
  <2>14. CASE JoinStopped
    BY <2>14 DEF JoinStopped, MainTo
  <2> QED
    BY <1>4, <2>1, <2>2, <2>3, <2>4, <2>5, <2>6, <2>7, <2>8, <2>9, <2>10, <2>11, <2>12, <2>13, <2>14
    DEF MainStep
<1>5. CASE ReleaseStep
  <2>1. CASE StartFails
    BY <2>1 DEF StartFails, MainTo
  <2>2. CASE StopReturns
    BY <2>2 DEF StopReturns, MainTo
  <2> QED
    BY <1>5, <2>1, <2>2
    DEF ReleaseStep
<1>6. CASE HookStep
  <2>1. CASE RunFails
    BY <2>1 DEF RunFails, HookTo
  <2>2. CASE RunEnabled
    BY <2>2 DEF RunEnabled, HookTo
  <2>3. CASE EnabledLockRunning
    BY <2>3 DEF EnabledLockRunning, HookTo
  <2>4. CASE EnabledLockControl
    BY <2>4 DEF EnabledLockControl, HookTo
  <2>5. CASE EnabledSignal
    BY <2>5 DEF EnabledSignal, HookTo
  <2>6. CASE EnabledUnlockControl
    BY <2>6 DEF EnabledUnlockControl, HookTo
  <2>7. CASE DisabledLockControl
    BY <2>7 DEF DisabledLockControl, HookTo
  <2>8. CASE DisabledUnlockRunning
    BY <2>8 DEF DisabledUnlockRunning, HookTo
  <2>9. CASE RunReturns
    BY <2>9 DEF RunReturns, HookTo
  <2>10. CASE FinalSignal
    BY <2>10 DEF FinalSignal, HookTo
  <2>11. CASE FinalUnlock
    BY <2>11 DEF FinalUnlock, HookTo
  <2> QED
    BY <1>6, <2>1, <2>2, <2>3, <2>4, <2>5, <2>6, <2>7, <2>8, <2>9, <2>10, <2>11
    DEF HookStep
<1>7. CASE LoopEnds
  BY <1>7 DEF LoopEnds, HookTo
<1>8. CASE SpuriousWakeup
  BY <1>8 DEF SpuriousWakeup
<1>9. CASE ProcessGone
  BY <1>9 DEF ProcessGone
<1>10. CASE UNCHANGED vars
  BY <1>10
<1> QED
  BY <1>1, <1>2, <1>3, <1>4, <1>5, <1>6, <1>7, <1>8, <1>9, <1>10 DEF Next

\* With a loop that ends only on request, the running mutex says whether the
\* hook is attached, and stop() alone makes the hook thread give it up.
LEMMA AttachmentInvariant ==
    ASSUME HookMayDie = FALSE
    PROVE  Spec => []Attachment
<1>1. Init => Attachment
  BY AttachmentInit
<1>2. Attachment /\ Lifecycle' /\ [Next]_vars => Attachment'
  BY AttachmentNext
<1> QED
  BY <1>1, <1>2, LifecycleInvariant, PTL DEF Spec

\* is_worker_running tells the truth between start() and stop().
THEOREM RunningIsHooked ==
    ASSUME HookMayDie = FALSE
    PROVE  Spec => []RunningMeansHooked
BY AttachmentInvariant, PTL DEF Attachment

-----------------------------------------------------------------------------
\* What the caller sees depends on these three variables only.
LEMMA Invisible ==
    ASSUME UNCHANGED <<mainPc, isWorkerRunning, running>>
    PROVE  UNCHANGED Session!vars
<1>1. InStop' = InStop
  BY DEF InStop
<1>2. JavaScriptGone' = JavaScriptGone
  BY DEF JavaScriptGone
<1> QED
  BY <1>1, <1>2, SMTT(30) DEF Session!vars

\* Each step of the two threads is a step of the session, or one the caller cannot see.
LEMMA SessionNext ==
    ASSUME HookMayDie = FALSE, Attachment, Attachment', [Next]_vars
    PROVE  [Session!Next]_(Session!vars)
<1> USE DEF Attachment, OwnsWhileAttached, Attached, QuitIsStop, LeavesForAReason,
            RunningMeansHooked, Lifecycle, TypeOK, MainPcs, HookPcs, MutexStates,
            CallsMatchFlag, InStop, ThreadScope, Unstarted, BeforeThread, Enabling,
            Reporting, RunningUntaken, SetupAwaited, AfterUnlock,
            StoppedLeavesNothing, JavaScriptGone, vars, mainVars, hookVars, syncVars,
            Session!vars, Session!Next, Session!BeginStart, Session!Attach,
            Session!StartOk, Session!StartFail, Session!BeginStop, Session!Detach,
            Session!EndStop, Session!Vanish
<1>1. CASE ThrowingCall
  <2>1. CASE StartAlreadyRunning
    BY <2>1 DEF StartAlreadyRunning
  <2>2. CASE StartBadArgument
    BY <2>2 DEF StartBadArgument
  <2>3. CASE StopNotRunning
    BY <2>3 DEF StopNotRunning
  <2> QED
    BY <1>1, <2>1, <2>2, <2>3
    DEF ThrowingCall
<1>2. ASSUME NEW created \in BOOLEAN, NEW passed \in BOOLEAN,
           StartCreate(created, passed)
    PROVE  [Session!Next]_(Session!vars)
  <2>1. CASE passed
    BY <1>2, <2>1 DEF StartCreate
  <2>2. CASE ~passed
    <3>1. UNCHANGED <<mainPc, isWorkerRunning, running>>
      BY <1>2, <2>2 DEF StartCreate
    <3> QED
      BY <3>1, Invisible
  <2> QED
    BY <2>1, <2>2
<1>3. CASE StopCall
  BY <1>3 DEF StopCall, MainTo
<1>4. CASE MainStep
  <2>1. CASE LockControl
    BY <2>1 DEF LockControl, MainTo
  <2>2. CASE CreateThread
    BY <2>2 DEF CreateThread, MainTo
  <2>3. CASE CreateThreadFails
    BY <2>3 DEF CreateThreadFails, MainTo
  <2>4. CASE CondWait
    BY <2>4 DEF CondWait, MainTo
  <2>5. CASE CondReturn
    BY <2>5 DEF CondReturn, MainTo
  <2>6. CASE TryLockSucceeds
    BY <2>6 DEF TryLockSucceeds, MainTo
  <2>7. CASE TryLockFails
    BY <2>7 DEF TryLockFails, MainTo
  <2>8. CASE JoinFailed
    BY <2>8 DEF JoinFailed, MainTo
  <2>9. CASE UnlockControl
    BY <2>9 DEF UnlockControl, MainTo
  <2>10. CASE StartSucceeds
    BY <2>10 DEF StartSucceeds, MainTo
  <2>11. CASE StartFailsAbort
    BY <2>11 DEF StartFailsAbort, MainTo
  <2>12. CASE HookStop
    BY <2>12 DEF HookStop, MainTo
  <2>13. CASE HookStopFails
    BY <2>13, EnvironmentAssumption DEF HookStopFails, MainTo, Stoppable, LoopPcs
  <2>14. CASE JoinStopped
    BY <2>14 DEF JoinStopped, MainTo
  <2> QED
    BY <1>4, <2>1, <2>2, <2>3, <2>4, <2>5, <2>6, <2>7, <2>8, <2>9, <2>10, <2>11, <2>12, <2>13, <2>14
    DEF MainStep
<1>5. CASE ReleaseStep
  <2>1. CASE StartFails
    BY <2>1 DEF StartFails, MainTo
  <2>2. CASE StopReturns
    BY <2>2 DEF StopReturns, MainTo
  <2> QED
    BY <1>5, <2>1, <2>2
    DEF ReleaseStep
<1>6. CASE HookStep
  <2>1. CASE RunFails
    BY <2>1 DEF RunFails, HookTo
  <2>2. CASE RunEnabled
    <3>1. UNCHANGED <<mainPc, isWorkerRunning, running>>
      BY <2>2 DEF RunEnabled
    <3> QED
      BY <3>1, Invisible
  <2>3. CASE EnabledLockRunning
    BY <2>3 DEF EnabledLockRunning, HookTo
  <2>4. CASE EnabledLockControl
    BY <2>4 DEF EnabledLockControl, HookTo
  <2>5. CASE EnabledSignal
    BY <2>5 DEF EnabledSignal, HookTo
  <2>6. CASE EnabledUnlockControl
    BY <2>6 DEF EnabledUnlockControl, HookTo
  <2>7. CASE DisabledLockControl
    BY <2>7 DEF DisabledLockControl, HookTo
  <2>8. CASE DisabledUnlockRunning
    BY <2>8 DEF DisabledUnlockRunning, HookTo
  <2>9. CASE RunReturns
    BY <2>9 DEF RunReturns, HookTo
  <2>10. CASE FinalSignal
    BY <2>10 DEF FinalSignal, HookTo
  <2>11. CASE FinalUnlock
    BY <2>11 DEF FinalUnlock, HookTo
  <2> QED
    BY <1>6, <2>1, <2>2, <2>3, <2>4, <2>5, <2>6, <2>7, <2>8, <2>9, <2>10, <2>11
    DEF HookStep
<1>7. CASE LoopEnds
  BY <1>7 DEF LoopEnds, HookTo
<1>8. CASE SpuriousWakeup
  BY <1>8 DEF SpuriousWakeup
<1>9. CASE ProcessGone
  BY <1>9 DEF ProcessGone
<1>10. CASE UNCHANGED vars
  BY <1>10
<1> QED
  BY <1>1, <1>2, <1>3, <1>4, <1>5, <1>6, <1>7, <1>8, <1>9, <1>10 DEF Next

\* start() and stop() keep the promise of HookSession: each step of the two
\* threads is a step of the session, or one the caller cannot see.
THEOREM WorkerImplementsSession ==
    ASSUME HookMayDie = FALSE
    PROVE  Spec => ImplementsSession
<1>1. Init => Session!Init
  BY DEF Init, Session!Init, InStop, JavaScriptGone
<1>2. Attachment /\ Attachment' /\ [Next]_vars => [Session!Next]_(Session!vars)
  BY SessionNext
<1> QED
  BY <1>1, <1>2, AttachmentInvariant, PTL DEF Spec, ImplementsSession, Session!Spec

-----------------------------------------------------------------------------
\* Who holds the two mutexes, when hook_run() does not fail: each at certain places of
\* one thread.  The JavaScript thread keeps the running mutex for good if a wake-up that
\* nobody sent, or a hook that has already ended, makes its trylock succeed.
Ownership ==
    /\ control = "main" <=>
           mainPc \in {"create", "cond_wait", "trylock", "join_failed", "unlock_control"}
    /\ control = "hook" <=>
           hookPc \in {"signal", "unlock", "dis_unlock", "teardown", "final_signal", "final_unlock"}
    /\ running = "hook" <=> hookPc \in Attached
    /\ running = "main" =>
           \/ mainPc = "join_failed"
           \/ Reporting /\ status = "success" /\ hookPc = "none"
           \/ isWorkerRunning /\ hookPc = "none" /\ mainPc \in {"idle", "hook_stop"}
    /\ hookPc \in {"final_signal", "final_unlock", "exited"} => threadStatus = "success"
    /\ "destroyed" \in {running, control} => Unstarted

\* What OwnersUnlock says of a step.
OwnerUnlocks ==
    /\ running = "main" => running' \in {"main", "destroyed"} \/ mainPc' # mainPc
    /\ running = "hook" => running' = "hook" \/ hookPc' # hookPc
    /\ control = "main" => control' = "main" \/ mainPc' # mainPc
    /\ control = "hook" => control' = "hook" \/ hookPc' # hookPc

\* A step keeps the places at which the mutexes are held, and gives them back there.
LEMMA OwnershipNext ==
    ASSUME HookMayFail = FALSE, Lifecycle, Lifecycle', Ownership, [Next]_vars
    PROVE  Ownership' /\ OwnerUnlocks
<1> USE DEF Ownership, OwnerUnlocks, Attached, Lifecycle, TypeOK, MainPcs,
            HookPcs, MutexStates, CallsMatchFlag, InStop, ThreadScope, Unstarted,
            BeforeThread, Enabling, Reporting, RunningUntaken, SetupAwaited,
            StoppedLeavesNothing, AfterUnlock, vars, mainVars, hookVars, syncVars
<1>1. CASE ThrowingCall
  <2>1. CASE StartAlreadyRunning
    BY <2>1 DEF StartAlreadyRunning
  <2>2. CASE StartBadArgument
    BY <2>2 DEF StartBadArgument
  <2>3. CASE StopNotRunning
    BY <2>3 DEF StopNotRunning
  <2> QED
    BY <1>1, <2>1, <2>2, <2>3
    DEF ThrowingCall
<1>2. ASSUME NEW created \in BOOLEAN, NEW passed \in BOOLEAN,
           StartCreate(created, passed)
    PROVE  Ownership' /\ OwnerUnlocks
  BY <1>2 DEF StartCreate
<1>3. CASE StopCall
  BY <1>3 DEF StopCall, MainTo
<1>4. CASE MainStep
  <2>1. CASE LockControl
    BY <2>1 DEF LockControl, MainTo
  <2>2. CASE CreateThread
    BY <2>2 DEF CreateThread, MainTo
  <2>3. CASE CreateThreadFails
    BY <2>3 DEF CreateThreadFails, MainTo
  <2>4. CASE CondWait
    BY <2>4 DEF CondWait, MainTo
  <2>5. CASE CondReturn
    BY <2>5 DEF CondReturn, MainTo
  <2>6. CASE TryLockSucceeds
    BY <2>6 DEF TryLockSucceeds, MainTo
  <2>7. CASE TryLockFails
    BY <2>7 DEF TryLockFails, MainTo
  <2>8. CASE JoinFailed
    BY <2>8 DEF JoinFailed, MainTo
  <2>9. CASE UnlockControl
    BY <2>9 DEF UnlockControl, MainTo
  <2>10. CASE StartSucceeds
    BY <2>10 DEF StartSucceeds, MainTo
  <2>11. CASE StartFailsAbort
    BY <2>11 DEF StartFailsAbort, MainTo
  <2>12. CASE HookStop
    BY <2>12, EnvironmentAssumption DEF HookStop, MainTo, Stoppable, LoopPcs
  <2>13. CASE HookStopFails
    BY <2>13 DEF HookStopFails, MainTo
  <2>14. CASE JoinStopped
    BY <2>14 DEF JoinStopped, MainTo
  <2> QED
    BY <1>4, <2>1, <2>2, <2>3, <2>4, <2>5, <2>6, <2>7, <2>8, <2>9, <2>10, <2>11, <2>12, <2>13, <2>14
    DEF MainStep
<1>5. CASE ReleaseStep
  <2>1. CASE StartFails
    BY <2>1 DEF StartFails, MainTo
  <2>2. CASE StopReturns
    BY <2>2 DEF StopReturns, MainTo
  <2> QED
    BY <1>5, <2>1, <2>2
    DEF ReleaseStep
<1>6. CASE HookStep
  <2>1. CASE RunFails
    BY <2>1 DEF RunFails, HookTo
  <2>2. CASE RunEnabled
    BY <2>2 DEF RunEnabled, HookTo
  <2>3. CASE EnabledLockRunning
    BY <2>3 DEF EnabledLockRunning, HookTo
  <2>4. CASE EnabledLockControl
    BY <2>4 DEF EnabledLockControl, HookTo
  <2>5. CASE EnabledSignal
    BY <2>5 DEF EnabledSignal, HookTo
  <2>6. CASE EnabledUnlockControl
    BY <2>6 DEF EnabledUnlockControl, HookTo
  <2>7. CASE DisabledLockControl
    BY <2>7 DEF DisabledLockControl, HookTo
  <2>8. CASE DisabledUnlockRunning
    BY <2>8 DEF DisabledUnlockRunning, HookTo
  <2>9. CASE RunReturns
    BY <2>9 DEF RunReturns, HookTo
  <2>10. CASE FinalSignal
    BY <2>10 DEF FinalSignal, HookTo
  <2>11. CASE FinalUnlock
    BY <2>11 DEF FinalUnlock, HookTo
  <2> QED
    BY <1>6, <2>1, <2>2, <2>3, <2>4, <2>5, <2>6, <2>7, <2>8, <2>9, <2>10, <2>11
    DEF HookStep
<1>7. CASE LoopEnds
  BY <1>7 DEF LoopEnds, HookTo
<1>8. CASE SpuriousWakeup
  BY <1>8 DEF SpuriousWakeup
<1>9. CASE ProcessGone
  BY <1>9 DEF ProcessGone
<1>10. CASE UNCHANGED vars
  BY <1>10
<1> QED
  BY <1>1, <1>2, <1>3, <1>4, <1>5, <1>6, <1>7, <1>8, <1>9, <1>10 DEF Next

\* Before the first start() nobody holds a mutex.
LEMMA OwnershipInit == Init => Ownership
BY DEF Init, Ownership, Attached, Reporting, Unstarted

\* Ownership holds in every state, unless hook_run() fails.
LEMMA OwnershipInvariant ==
    ASSUME HookMayFail = FALSE
    PROVE  Spec => []Ownership
<1>1. Init => Ownership
  BY OwnershipInit
<1>2. Lifecycle /\ Lifecycle' /\ Ownership /\ [Next]_vars => Ownership'
  BY OwnershipNext
<1> QED
  BY <1>1, <1>2, LifecycleInvariant, PTL DEF Spec

\* On every platform, each mutex is given back by the thread that took it, unless
\* hook_run() fails: even if the hook dies or the wait ends for no reason.
THEOREM MutexesGivenBack ==
    ASSUME HookMayFail = FALSE
    PROVE  Spec => OwnersUnlock
<1>1. Lifecycle /\ Lifecycle' /\ Ownership /\ [Next]_vars => [OwnerUnlocks]_vars
  BY OwnershipNext
<1>2. Spec => [][OwnerUnlocks]_vars
  BY <1>1, OwnershipInvariant, LifecycleInvariant, PTL DEF Spec
<1> QED
  BY <1>2 DEF OwnersUnlock, OwnerUnlocks

-----------------------------------------------------------------------------
(* Deadlocks.                                                              *)

\* The positions at which a thread may own the control mutex.
MainHolds == {"create", "cond_wait", "trylock", "join_failed", "unlock_control"}
HookHolds == {"signal", "unlock", "dis_unlock", "teardown", "final_signal", "final_unlock"}

BeforeSignal == {"init", "lock_running", "lock_control", "signal"}
AfterFailure == IF HookMayFail THEN {"final_signal", "final_unlock", "exited"} ELSE {}

\* Who may own which mutex, whatever has been unlocked by a thread that did not lock it.
MayOwn ==
    /\ control = "main" => mainPc \in MainHolds \union {"dead"}
    /\ control = "hook" => hookPc \in HookHolds
    /\ control = "destroyed" => Unstarted
    /\ mainPc = "lock_control" => control = "free"
    /\ mainPc = "create" => control = "main"
    /\ running = "hook" <=> hookPc \in Attached
    /\ mainPc = "join_failed" => running = "main"

\* What start() and stop() wait for has not happened yet.
Awaited ==
    /\ mainPc \in {"cond_wait", "waiting", "trylock", "join_failed", "join_stop"} => hookPc # "none"
    /\ mainPc = "join_stop" => quit
    /\ mainPc = "cond_wait" =>
           /\ hookPc \in (BeforeSignal \ {"signal"}) \union AfterFailure
           /\ control = "main" \/ hookPc = "exited"
    /\ mainPc = "waiting" /\ waitSet # {} => hookPc \in BeforeSignal \union AfterFailure
    /\ SpuriousWakeups = FALSE =>
           /\ mainPc = "waiting" /\ waitSet = {} => hookPc \notin BeforeSignal
           /\ mainPc \in {"trylock", "join_failed"} => hookPc \notin BeforeSignal

\* Each step keeps what each of the two threads waits for within the other's reach, also
\* the steps that unlock a mutex of the other thread's.
LEMMA WaitsNext ==
    ASSUME Lifecycle, Lifecycle', MayOwn, Awaited, [Next]_vars
    PROVE  MayOwn' /\ Awaited'
<1> USE DEF MayOwn, Awaited, MainHolds, HookHolds, BeforeSignal, AfterFailure, Attached,
            Lifecycle, TypeOK, MainPcs, HookPcs, MutexStates, CallsMatchFlag, InStop,
            ThreadScope, Unstarted, BeforeThread, Enabling, Reporting, RunningUntaken,
            SetupAwaited, StoppedLeavesNothing, AfterUnlock, vars, mainVars, hookVars, syncVars
<1>1. CASE ThrowingCall
  <2>1. CASE StartAlreadyRunning
    BY <2>1 DEF StartAlreadyRunning
  <2>2. CASE StartBadArgument
    BY <2>2 DEF StartBadArgument
  <2>3. CASE StopNotRunning
    BY <2>3 DEF StopNotRunning
  <2> QED
    BY <1>1, <2>1, <2>2, <2>3
    DEF ThrowingCall
<1>2. ASSUME NEW created \in BOOLEAN, NEW passed \in BOOLEAN,
           StartCreate(created, passed)
    PROVE  MayOwn' /\ Awaited'
  BY <1>2 DEF StartCreate
<1>3. CASE StopCall
  BY <1>3 DEF StopCall, MainTo
<1>4. CASE MainStep
  <2>1. CASE LockControl
    BY <2>1 DEF LockControl, MainTo
  <2>2. CASE CreateThread
    BY <2>2 DEF CreateThread, MainTo
  <2>3. CASE CreateThreadFails
    BY <2>3 DEF CreateThreadFails, MainTo
  <2>4. CASE CondWait
    BY <2>4 DEF CondWait, MainTo
  <2>5. CASE CondReturn
    BY <2>5 DEF CondReturn, MainTo
  <2>6. CASE TryLockSucceeds
    BY <2>6 DEF TryLockSucceeds, MainTo
  <2>7. CASE TryLockFails
    BY <2>7 DEF TryLockFails, MainTo
  <2>8. CASE JoinFailed
    BY <2>8 DEF JoinFailed, MainTo
  <2>9. CASE UnlockControl
    BY <2>9 DEF UnlockControl, MainTo
  <2>10. CASE StartSucceeds
    BY <2>10 DEF StartSucceeds, MainTo
  <2>11. CASE StartFailsAbort
    BY <2>11 DEF StartFailsAbort, MainTo
  <2>12. CASE HookStop
    BY <2>12, EnvironmentAssumption DEF HookStop, MainTo, Stoppable, LoopPcs
  <2>13. CASE HookStopFails
    BY <2>13 DEF HookStopFails, MainTo
  <2>14. CASE JoinStopped
    BY <2>14 DEF JoinStopped, MainTo
  <2> QED
    BY <1>4, <2>1, <2>2, <2>3, <2>4, <2>5, <2>6, <2>7, <2>8, <2>9, <2>10, <2>11, <2>12, <2>13, <2>14
    DEF MainStep
<1>5. CASE ReleaseStep
  <2>1. CASE StartFails
    BY <2>1 DEF StartFails, MainTo
  <2>2. CASE StopReturns
    BY <2>2 DEF StopReturns, MainTo
  <2> QED
    BY <1>5, <2>1, <2>2
    DEF ReleaseStep
<1>6. CASE HookStep
  <2>1. CASE RunFails
    BY <2>1 DEF RunFails, HookTo
  <2>2. CASE RunEnabled
    BY <2>2 DEF RunEnabled, HookTo
  <2>3. CASE EnabledLockRunning
    BY <2>3 DEF EnabledLockRunning, HookTo
  <2>4. CASE EnabledLockControl
    BY <2>4 DEF EnabledLockControl, HookTo
  <2>5. CASE EnabledSignal
    BY <2>5 DEF EnabledSignal, HookTo
  <2>6. CASE EnabledUnlockControl
    BY <2>6 DEF EnabledUnlockControl, HookTo
  <2>7. CASE DisabledLockControl
    BY <2>7 DEF DisabledLockControl, HookTo
  <2>8. CASE DisabledUnlockRunning
    BY <2>8 DEF DisabledUnlockRunning, HookTo
  <2>9. CASE RunReturns
    BY <2>9 DEF RunReturns, HookTo
  <2>10. CASE FinalSignal
    BY <2>10 DEF FinalSignal, HookTo
  <2>11. CASE FinalUnlock
    BY <2>11 DEF FinalUnlock, HookTo
  <2> QED
    BY <1>6, <2>1, <2>2, <2>3, <2>4, <2>5, <2>6, <2>7, <2>8, <2>9, <2>10, <2>11
    DEF HookStep
<1>7. CASE LoopEnds
  BY <1>7 DEF LoopEnds, HookTo
<1>8. CASE SpuriousWakeup
  BY <1>8 DEF SpuriousWakeup
<1>9. CASE ProcessGone
  BY <1>9 DEF ProcessGone
<1>10. CASE UNCHANGED vars
  BY <1>10
<1> QED
  BY <1>1, <1>2, <1>3, <1>4, <1>5, <1>6, <1>7, <1>8, <1>9, <1>10 DEF Next

\* It is so before the first start(), and in every state.
LEMMA WaitsInvariant == Spec => [](Lifecycle /\ MayOwn /\ Awaited)
<1>1. Init => MayOwn /\ Awaited
  BY DEF Init, MayOwn, Awaited, Attached, Unstarted
<1>2. Lifecycle /\ Lifecycle' /\ MayOwn /\ Awaited /\ [Next]_vars => MayOwn' /\ Awaited'
  BY WaitsNext
<1> QED
  BY <1>1, <1>2, LifecycleInvariant, PTL DEF Spec

\* Then a thread that waits has something to wait for.
LEMMA WaitsAreMet ==
    ASSUME Lifecycle, MayOwn, Awaited
    PROVE  /\ OnlyKnownDeadlocks
           /\ HookMayFail = FALSE => ~LostWakeup
           /\ SpuriousWakeups = FALSE => ~StolenLock
<1> USE DEF HookOver, HookBlocked
<1>1. ASSUME mainPc = "lock_control", control # "free"
      PROVE  FALSE
  BY <1>1 DEF MayOwn
<1>2. ASSUME mainPc = "waiting", waitSet # {}, HookBlocked \/ HookOver
      PROVE  LostWakeup
  <2>1. hookPc \in BeforeSignal \union AfterFailure /\ hookPc # "none"
    BY <1>2 DEF Awaited
  <2>2. hookPc = "lock_running" => running = "free"
    BY <1>2 DEF Lifecycle, RunningUntaken, Enabling
  <2>3. hookPc = "lock_control" => control = "free"
    BY <1>2 DEF MayOwn, MainHolds, HookHolds, Unstarted, Lifecycle, TypeOK, MutexStates
  <2> QED
    BY <1>2, <2>1, <2>2, <2>3 DEF LostWakeup, BeforeSignal, AfterFailure
<1>3. ASSUME mainPc = "waiting", control # "free"
      PROVE  ~HookBlocked /\ ~HookOver
  <2>1. control = "hook"
    BY <1>3 DEF MayOwn, MainHolds, Unstarted, Lifecycle, TypeOK, MutexStates
  <2> QED
    BY <2>1 DEF MayOwn, HookHolds
<1>4. ASSUME mainPc = "join_failed", hookPc # "exited", HookBlocked \/ HookOver
      PROVE  StolenLock
  <2>1. running = "main" /\ hookPc \notin Attached /\ hookPc # "none"
    BY <1>4 DEF MayOwn, Awaited
  <2> QED
    BY <1>4, <2>1 DEF StolenLock, Attached
<1>5. ASSUME mainPc = "join_stop", hookPc # "exited"
      PROVE  ~HookBlocked /\ ~HookOver
  <2>1. quit /\ hookPc \notin {"none", "exited", "lock_running"}
    BY <1>5 DEF Awaited, Lifecycle, SetupAwaited, Enabling
  <2>2. control \in {"free", "hook"}
    BY <1>5 DEF MayOwn, MainHolds, Unstarted, Lifecycle, TypeOK, MutexStates
  <2>3. control = "hook" => hookPc \notin {"lock_control", "dis_lock"}
    BY DEF MayOwn, HookHolds
  <2> QED
    BY <2>1, <2>2, <2>3
<1>6. OnlyKnownDeadlocks
  BY <1>1, <1>2, <1>3, <1>4, <1>5 DEF OnlyKnownDeadlocks, MainBlocked
<1>7. HookMayFail = FALSE => ~LostWakeup
  BY DEF LostWakeup, Awaited, BeforeSignal, AfterFailure
<1>8. SpuriousWakeups = FALSE => ~StolenLock
  BY DEF StolenLock, Awaited, BeforeSignal
<1> QED
  BY <1>6, <1>7, <1>8

\* On every platform and in every environment, start() and stop() can deadlock with the
\* hook thread in the two known ways only.
THEOREM DeadlocksAreKnown == Spec => []OnlyKnownDeadlocks
<1>1. Lifecycle /\ MayOwn /\ Awaited => OnlyKnownDeadlocks
  BY WaitsAreMet
<1> QED
  BY <1>1, WaitsInvariant, PTL

\* Without a hook_run() that fails and wake-ups that nobody sent they cannot deadlock at
\* all, even if the platform loop ends by itself.
THEOREM NoDeadlock ==
    ASSUME HookMayFail = FALSE, SpuriousWakeups = FALSE
    PROVE  Spec => [](MainBlocked => ~HookBlocked /\ ~HookOver)
<1>1. Lifecycle /\ MayOwn /\ Awaited => (MainBlocked => ~HookBlocked /\ ~HookOver)
  BY WaitsAreMet DEF OnlyKnownDeadlocks
<1> QED
  BY <1>1, WaitsInvariant, PTL

-----------------------------------------------------------------------------
(* The end of the mutexes.                                                 *)

\* What DestroyedByTheLast says of a step.
LastDestroys ==
    /\ "destroyed" \in {running', control'} => hookPc = "none"
    /\ running' = "destroyed" =>
         \/ running \in {"free", "destroyed"}
         \/ running = "main" /\ mainPc = "started" /\ status = "failure"
    /\ control' = "destroyed" => control \in {"free", "destroyed"}

\* The JavaScript thread has the running mutex only while it waits to join the hook thread
\* and after that, and never gets from there to the end of a stop().
TakenForFailure ==
    running = "main" =>
      /\ mainPc = "join_failed" \/ hookPc = "none"
      /\ mainPc \notin {"join_stop", "stopped"}
      /\ Reporting => status # "thread_create"

DestroyedStopped == "destroyed" \in {running, control} => Unstarted

\* Each step keeps that.
LEMMA TakenNext == Lifecycle /\ TakenForFailure /\ [Next]_vars => TakenForFailure'
<1> SUFFICES ASSUME Lifecycle, TakenForFailure, [Next]_vars, running' = "main"
             PROVE  TakenForFailure'
  BY DEF TakenForFailure
<1> USE DEF TakenForFailure, Reporting, Lifecycle, TypeOK, AfterUnlock, vars, mainVars,
            hookVars, syncVars
<1>1. CASE ThrowingCall \/ StopCall \/ SpuriousWakeup \/ ProcessGone \/ UNCHANGED vars
  BY <1>1 DEF ThrowingCall, StartAlreadyRunning, StartBadArgument, StopNotRunning, StopCall,
              SpuriousWakeup, ProcessGone, MainTo
<1>2. ASSUME NEW created \in BOOLEAN, NEW passed \in BOOLEAN, StartCreate(created, passed)
      PROVE  TakenForFailure'
  BY <1>2 DEF StartCreate
<1>3. CASE CreateThread \/ CreateThreadFails
  BY <1>3 DEF CreateThread, CreateThreadFails, MainTo, RunningUntaken, BeforeThread
<1>4. CASE LockControl \/ CondWait \/ CondReturn \/ TryLockSucceeds \/ TryLockFails
  BY <1>4 DEF LockControl, CondWait, CondReturn, TryLockSucceeds, TryLockFails, MainTo
<1>5. CASE JoinFailed
  BY <1>5 DEF JoinFailed, MainTo
<1>6. CASE UnlockControl \/ StartSucceeds \/ StartFailsAbort
  BY <1>6 DEF UnlockControl, StartSucceeds, StartFailsAbort, MainTo
<1>7. CASE HookStop
  BY <1>7, EnvironmentAssumption DEF HookStop, MainTo, Stoppable, LoopPcs
<1>8. CASE HookStopFails \/ JoinStopped \/ ReleaseStep
  BY <1>8 DEF HookStopFails, JoinStopped, ReleaseStep, StartFails, StopReturns, MainTo
<1>9. CASE HookStep
  BY <1>9 DEF HookStep, RunFails, RunEnabled, EnabledLockRunning, EnabledLockControl,
              EnabledSignal, EnabledUnlockControl, DisabledLockControl, DisabledUnlockRunning,
              RunReturns, FinalSignal, FinalUnlock, HookTo
<1>10. CASE LoopEnds
  BY <1>10 DEF LoopEnds, HookTo
<1> QED
  BY <1>1, <1>2, <1>3, <1>4, <1>5, <1>6, <1>7, <1>8, <1>9, <1>10 DEF Next, MainStep

\* Nothing else destroys a mutex.
LEMMA OnlyReleaseDestroys ==
    ASSUME [Next]_vars, ~ReleaseStep
    PROVE  /\ running' = "destroyed" => running = "destroyed"
           /\ control' = "destroyed" => control = "destroyed"
<1> USE DEF AfterUnlock, vars, syncVars
<1>1. CASE ThrowingCall \/ StopCall \/ SpuriousWakeup \/ ProcessGone \/ UNCHANGED vars
  BY <1>1 DEF ThrowingCall, StartAlreadyRunning, StartBadArgument, StopNotRunning, StopCall,
              SpuriousWakeup, ProcessGone
<1>2. ASSUME NEW created \in BOOLEAN, NEW passed \in BOOLEAN, StartCreate(created, passed)
      PROVE  /\ running' = "destroyed" => running = "destroyed"
             /\ control' = "destroyed" => control = "destroyed"
  BY <1>2 DEF StartCreate
<1>3. CASE MainStep
  BY <1>3 DEF MainStep, LockControl, CreateThread, CreateThreadFails, CondWait, CondReturn,
              TryLockSucceeds, TryLockFails, JoinFailed, UnlockControl, StartSucceeds,
              StartFailsAbort, HookStop, HookStopFails, JoinStopped
<1>4. CASE HookStep
  BY <1>4 DEF HookStep, RunFails, RunEnabled, EnabledLockRunning, EnabledLockControl,
              EnabledSignal, EnabledUnlockControl, DisabledLockControl, DisabledUnlockRunning,
              RunReturns, FinalSignal, FinalUnlock
<1>5. CASE LoopEnds
  BY <1>5 DEF LoopEnds
<1> QED
  BY <1>1, <1>2, <1>3, <1>4, <1>5 DEF Next

\* What a start() that is under way has made, is not destroyed.
LEMMA UnstartedUntilCreate ==
    ASSUME Unstarted, [Next]_vars, "destroyed" \in {running', control'}
    PROVE  Unstarted'
<1>1. ASSUME NEW created \in BOOLEAN, NEW passed \in BOOLEAN, StartCreate(created, passed)
      PROVE  Unstarted'
  BY <1>1 DEF StartCreate, Unstarted
<1>2. CASE ThrowingCall \/ SpuriousWakeup \/ ProcessGone \/ UNCHANGED vars
  BY <1>2 DEF ThrowingCall, StartAlreadyRunning, StartBadArgument, StopNotRunning,
              SpuriousWakeup, ProcessGone, Unstarted, vars, mainVars
<1>3. CASE StopCall \/ MainStep \/ ReleaseStep
  BY <1>3 DEF StopCall, MainStep, ReleaseStep, LockControl, CreateThread, CreateThreadFails,
              CondWait, CondReturn, TryLockSucceeds, TryLockFails, JoinFailed, UnlockControl,
              StartSucceeds, StartFails, StopReturns, StartFailsAbort, HookStop, HookStopFails,
              JoinStopped, MainTo, Unstarted
<1>4. CASE HookStep
  BY <1>4 DEF HookStep, RunFails, RunEnabled, EnabledLockRunning, EnabledLockControl,
              EnabledSignal, EnabledUnlockControl, DisabledLockControl, DisabledUnlockRunning,
              RunReturns, FinalSignal, FinalUnlock, Unstarted, mainVars
<1>5. CASE LoopEnds
  BY <1>5 DEF LoopEnds, Unstarted, mainVars
<1> QED
  BY <1>1, <1>2, <1>3, <1>4, <1>5 DEF Next

\* A start() that fails and a stop() are the only ones to destroy mutexes, and by then the
\* hook thread holds neither.
LEMMA DestroyNext ==
    ASSUME Lifecycle, MayOwn, TakenForFailure, DestroyedStopped, [Next]_vars
    PROVE  LastDestroys /\ DestroyedStopped'
<1>1. CASE ReleaseStep
  <2>1. mainPc \in {"started", "stopped"} /\ hookPc = "none"
        /\ (mainPc = "started" => status # "success")
    BY <1>1 DEF ReleaseStep, StartFails, StopReturns, MainTo, Lifecycle, ThreadScope, Reporting
  <2>2. control \in {"free", "destroyed"}
    BY <2>1 DEF MayOwn, MainHolds, HookHolds, Lifecycle, TypeOK, MutexStates
  <2>3. running # "hook"
    BY <2>1 DEF MayOwn, Attached
  <2>4. running = "main" => mainPc = "started" /\ status = "failure"
    BY <2>1 DEF TakenForFailure, Reporting, Lifecycle, TypeOK
  <2>5. Unstarted'
    BY <1>1 DEF ReleaseStep, StartFails, StopReturns, MainTo, Lifecycle, CallsMatchFlag, Unstarted
  <2> QED
    BY <2>1, <2>2, <2>3, <2>4, <2>5 DEF LastDestroys, DestroyedStopped, Lifecycle, TypeOK, MutexStates
<1>2. CASE ~ReleaseStep
  <2>1. /\ running' = "destroyed" => running = "destroyed"
        /\ control' = "destroyed" => control = "destroyed"
    BY <1>2, OnlyReleaseDestroys
  <2>2. "destroyed" \in {running', control'} => Unstarted /\ hookPc = "none"
    BY <2>1 DEF DestroyedStopped, Lifecycle, ThreadScope
  <2>3. Unstarted /\ "destroyed" \in {running', control'} => Unstarted'
    BY <1>2, <2>2, UnstartedUntilCreate
  <2> QED
    BY <2>1, <2>2, <2>3 DEF LastDestroys, DestroyedStopped
<1> QED
  BY <1>1, <1>2

\* It is so before the first start(), and in every state.
LEMMA DestroyInvariant ==
    Spec => [](Lifecycle /\ MayOwn /\ TakenForFailure /\ DestroyedStopped)
<1>1. Init => TakenForFailure /\ DestroyedStopped
  BY DEF Init, TakenForFailure, DestroyedStopped, Unstarted
<1>2. Lifecycle /\ MayOwn /\ TakenForFailure /\ DestroyedStopped /\ [Next]_vars
        => TakenForFailure' /\ DestroyedStopped'
  BY TakenNext, DestroyNext
<1> QED
  BY <1>1, <1>2, WaitsInvariant, PTL DEF Spec

\* On every platform and in every environment, hook_run() failing included, no mutex is
\* destroyed that another thread may still use; the only one ever destroyed while it is held
\* is the hook_running_mutex of a failed start(), by its holder.
THEOREM NoneDestroyedUnderOther == Spec => DestroyedByTheLast
<1>1. Lifecycle /\ MayOwn /\ TakenForFailure /\ DestroyedStopped /\ [Next]_vars => [LastDestroys]_vars
  BY DestroyNext
<1>2. Spec => [][LastDestroys]_vars
  BY <1>1, DestroyInvariant, PTL DEF Spec
<1> QED
  BY <1>2 DEF DestroyedByTheLast, LastDestroys

-----------------------------------------------------------------------------
(* DarwinTyping: lookups on the main queue.                                *)

\* A hook thread that waits for the main queue does nothing that it could not do without
\* lookups: on macOS the two threads still are those of HookWorker.
LEMMA TypingIsWorker == TypingSpec => Spec
<1>1. TypingInit => Init
  BY DEF TypingInit
<1>2. [TypingNext]_typingVars => [Next]_vars
  BY DEF TypingNext, DispatchSync, ServeMainQueue, LoopEndsBetweenEvents, WorkerAlone, Next,
         typingVars
<1> QED
  BY <1>1, <1>2, PTL DEF TypingSpec, Spec

\* The promise of HookSession survives lookups, however often the hook thread is held up
\* in an event ...
THEOREM TypingImplementsSession ==
    ASSUME HookMayDie = FALSE
    PROVE  TypingSpec => ImplementsSession
BY TypingIsWorker, WorkerImplementsSession, PTL

\* ... and so does what is_worker_running says.
THEOREM TypingRunningIsHooked ==
    ASSUME HookMayDie = FALSE
    PROVE  TypingSpec => []RunningMeansHooked
BY TypingIsWorker, RunningIsHooked, PTL

\* Only a loop that runs asks the main queue.
LEMMA LookupsInLoop == TypingSpec => [](lookup => hookPc = "loop")
<1>1. TypingInit => (lookup => hookPc = "loop")
  BY DEF TypingInit
<1>2. (lookup => hookPc = "loop") /\ Lifecycle /\ [TypingNext]_typingVars => (lookup => hookPc = "loop")'
  <2> SUFFICES ASSUME lookup => hookPc = "loop", Lifecycle, [TypingNext]_typingVars, lookup'
               PROVE  hookPc' = "loop"
    OBVIOUS
  <2>1. CASE DispatchSync \/ ServeMainQueue \/ LoopEndsBetweenEvents \/ UNCHANGED typingVars
    BY <2>1 DEF DispatchSync, ServeMainQueue, LoopEndsBetweenEvents, typingVars, vars, hookVars
  <2>2. CASE WorkerAlone
    <3>1. hookPc = "loop" /\ mainPc # "create"
      BY <2>2 DEF WorkerAlone, Lifecycle, ThreadScope, BeforeThread
    <3>2. CASE ThrowingCall \/ StopCall \/ ReleaseStep \/ SpuriousWakeup \/ ProcessGone
      BY <3>1, <3>2 DEF ThrowingCall, StartAlreadyRunning, StartBadArgument, StopNotRunning,
         StopCall, ReleaseStep, StartFails, StopReturns, SpuriousWakeup, ProcessGone, vars, hookVars
    <3>3. ASSUME NEW created \in BOOLEAN, NEW passed \in BOOLEAN, StartCreate(created, passed)
          PROVE  hookPc' = "loop"
      BY <3>1, <3>3 DEF StartCreate, hookVars
    <3>4. CASE MainStep
      BY <3>1, <3>4 DEF MainStep, LockControl, CreateThread, CreateThreadFails, CondWait,
         CondReturn, TryLockSucceeds, TryLockFails, JoinFailed, UnlockControl, StartSucceeds,
         StartFailsAbort, HookStop, HookStopFails, JoinStopped, MainTo, hookVars
    <3>5. CASE HookStep
      BY <3>1, <3>5 DEF HookStep, RunFails, RunEnabled, EnabledLockRunning, EnabledLockControl,
         EnabledSignal, EnabledUnlockControl, DisabledLockControl, DisabledUnlockRunning,
         RunReturns, FinalSignal, FinalUnlock, HookTo
    <3> QED
      BY <2>2, <3>2, <3>3, <3>4, <3>5 DEF WorkerAlone
  <2> QED
    BY <2>1, <2>2 DEF TypingNext
<1> QED
  BY <1>1, <1>2, TypingIsWorker, LifecycleInvariant, PTL DEF TypingSpec

\* With lookups there is one more deadlock, and only one, whatever fails or wakes up: a
\* stop() that waits for a hook thread that waits for the main queue.
THEOREM TypingDeadlocks == TypingSpec => []OneMoreDeadlock
<1>1. Lifecycle /\ MayOwn /\ Awaited /\ (lookup => hookPc = "loop") => OneMoreDeadlock
  <2> SUFFICES ASSUME Lifecycle, MayOwn, Awaited, lookup, hookPc = "loop", MainBlocked
               PROVE  StopAgainstLookup
    BY WaitsAreMet DEF OnlyKnownDeadlocks, OneMoreDeadlock
  <2>1. mainPc # "lock_control" /\ mainPc # "join_failed"
    BY DEF MayOwn, Attached, Lifecycle, ThreadScope, BeforeThread
  <2>2. ~(mainPc = "waiting" /\ waitSet # {})
    BY DEF Awaited, BeforeSignal, AfterFailure
  <2>3. ~(mainPc = "waiting" /\ control # "free")
    BY DEF MayOwn, MainHolds, HookHolds, Unstarted, Lifecycle, TypeOK, MutexStates
  <2> QED
    BY <2>1, <2>2, <2>3 DEF MainBlocked, StopAgainstLookup
<1> QED
  BY <1>1, LookupsInLoop, TypingIsWorker, WaitsInvariant, PTL
=============================================================================
