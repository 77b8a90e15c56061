------------------------------- MODULE Addon -------------------------------
(***************************************************************************)
(* The whole add-on: HookWorker's two threads, and the way of an input     *)
(* event between them.  The hook thread copies it and hands the copy to    *)
(* Node's thread-safe function, a bounded queue; the event loop of the     *)
(* JavaScript thread takes it out, tsfn_callback() calls the handler of    *)
(* index.ts, which emits 'input' and then the event's own name, and the    *)
(* copy is freed.  Listeners may call start() and stop() themselves.       *)
(***************************************************************************)
EXTENDS HookWorker, Naturals, Sequences, FiniteSets, SequencesExt

CONSTANTS
    QueueSize,      \* max_queue_size of the thread-safe function; 10 in addon.c
    MaxInputs,      \* bound: how many input events the operating system produces
    ClientMayExit   \* JavaScript may call process.exit()

ASSUME DeliveryAssumption ==
    /\ QueueSize \in Nat \ {0}
    /\ MaxInputs \in Nat
    /\ ClientMayExit \in BOOLEAN

VARIABLES
    nextInput,   \* inputs are numbered as the hook sees them; the next number
    inflight,    \* the input dispatch_proc() has copied and not yet queued, or 0
    queue,       \* copies in the live thread-safe function, oldest first
    draining,    \* copies left in thread-safe functions that have been released
    current,     \* the copy tsfn_callback() is working on, or 0
    phase,       \* what index.ts's handler is emitting: "none", "input" or "named"
    heap,        \* copies allocated and not yet freed
    opened,      \* history: the number the next input had when start() was called
    emitted,     \* history: the inputs emitted as 'input', in order
    interrupted  \* history: `current`, if a session has ended inside its handler, or 0

loopVars == <<queue, draining, current, phase, heap, emitted, interrupted>>
deliveryVars == <<nextInput, inflight, loopVars, opened>>
allVars == <<vars, deliveryVars>>

Inputs == 1..MaxInputs

DeliveryTypeOK ==
    /\ TypeOK
    /\ nextInput \in 1..(MaxInputs + 1)
    /\ inflight \in 0..MaxInputs
    /\ queue \in Seq(Inputs) /\ Len(queue) <= QueueSize
    /\ draining \subseteq Inputs
    /\ current \in 0..MaxInputs
    /\ phase \in {"none", "input", "named"}
    /\ heap \subseteq Inputs
    /\ opened \in 1..(MaxInputs + 1)
    /\ emitted \in Seq(Inputs)
    /\ interrupted \in 0..MaxInputs

DeliveryInit ==
    /\ Init
    /\ nextInput = 1
    /\ inflight = 0
    /\ queue = <<>>
    /\ draining = {}
    /\ current = 0
    /\ phase = "none"
    /\ heap = {}
    /\ opened = 1
    /\ emitted = <<>>
    /\ interrupted = 0

-----------------------------------------------------------------------------
(* The hook thread: worker_dispatch_proc() and dispatch_proc().            *)

\* An input event reaches dispatch_proc(): dropped without a thread-safe
\* function, copied otherwise.
DispatchCopy ==
    /\ mainPc # "dead" /\ hookPc = "loop"
    /\ inflight = 0
    /\ nextInput <= MaxInputs
    /\ nextInput' = nextInput + 1
    /\ IF threadsafeFn = "null"
       THEN UNCHANGED <<inflight, heap>>
       ELSE inflight' = nextInput /\ heap' = heap \union {nextInput}
    /\ UNCHANGED <<vars, queue, draining, current, phase, opened, emitted, interrupted>>

\* Defective variant: no limit on the queue.
DispatchUnbounded ==
    /\ mainPc \notin {"exiting", "dead"}
    /\ inflight # 0
    /\ queue' = Append(queue, inflight)
    /\ inflight' = 0
    /\ UNCHANGED <<vars, nextInput, draining, current, phase, heap, opened, emitted, interrupted>>

\* napi_call_threadsafe_function(), never blocking: the copy is queued ...
DispatchQueued ==
    /\ mainPc \notin {"exiting", "dead"}
    /\ inflight # 0
    /\ Len(queue) < QueueSize
    /\ queue' = Append(queue, inflight)
    /\ inflight' = 0
    /\ UNCHANGED <<vars, nextInput, draining, current, phase, heap, opened, emitted, interrupted>>

\* ... or the environment is being torn down and the copy is freed ...
DispatchClosing ==
    /\ mainPc = "exiting"
    /\ inflight # 0
    /\ threadsafeFn' = "null"
    /\ heap' = heap \ {inflight}
    /\ inflight' = 0
    /\ UNCHANGED <<isWorkerRunning, mainPc, status, reply, hookVars, syncVars,
                   nextInput, queue, draining, current, phase, opened, emitted, interrupted>>

\* Defective variant: napi_tsfn_blocking, the hook thread waits for room.
DispatchBlocks == FALSE

\* Defective variant: an input that finds the queue full is silently dropped.
DispatchDrops ==
    /\ mainPc \notin {"exiting", "dead"}
    /\ inflight # 0
    /\ Len(queue) = QueueSize
    /\ heap' = heap \ {inflight}
    /\ inflight' = 0
    /\ UNCHANGED <<vars, nextInput, queue, draining, current, phase, opened, emitted, interrupted>>

\* ... or napi_queue_full makes NAPI_FATAL_IF_FAILED exit the process.
DispatchQueueFull ==
    /\ mainPc \notin {"exiting", "dead"}
    /\ inflight # 0
    /\ Len(queue) = QueueSize
    /\ mainPc' = "dead"
    /\ UNCHANGED <<isWorkerRunning, threadsafeFn, status, reply, hookVars, syncVars,
                   deliveryVars>>

-----------------------------------------------------------------------------
(* The JavaScript thread's event loop, tsfn_callback() and the handler.    *)

\* Defective variant: takes the newest copy.
CallbackNewestFirst ==
    /\ mainPc = "idle" /\ phase = "none"
    /\ queue # <<>>
    /\ current' = Last(queue)
    /\ queue' = Front(queue)
    /\ phase' = "input"
    /\ emitted' = Append(emitted, Last(queue))
    /\ UNCHANGED <<vars, nextInput, inflight, draining, heap, opened, interrupted>>

CallbackBegins ==
    /\ mainPc = "idle" /\ phase = "none"
    /\ queue # <<>>
    /\ current' = Head(queue)
    /\ queue' = Tail(queue)
    /\ phase' = "input"
    /\ emitted' = Append(emitted, Head(queue))
    /\ UNCHANGED <<vars, nextInput, inflight, draining, heap, opened, interrupted>>

\* The 'input' listeners are done; the handler emits the event's own name,
\* whatever those listeners did to the hook.
EmitNamed ==
    /\ mainPc = "idle" /\ phase = "input"
    /\ phase' = "named"
    /\ UNCHANGED <<vars, nextInput, inflight, queue, draining, current, heap, opened, emitted,
                   interrupted>>

\* The handler returns or throws; napi_call_function's status is only logged.
CallbackEnds ==
    /\ mainPc = "idle" /\ phase # "none"
    /\ phase' = "none"
    /\ heap' = heap \ {current}
    /\ current' = 0
    /\ interrupted' = 0
    /\ UNCHANGED <<vars, nextInput, inflight, queue, draining, opened, emitted>>

\* Defective variant: frees only when there is an environment to call.
DrainLeaks ==
    /\ mainPc \in {"idle", "exiting"}
    /\ \E e \in draining : draining' = draining \ {e}
    /\ UNCHANGED <<vars, nextInput, inflight, queue, current, phase, heap, opened, emitted,
                   interrupted>>

\* Node empties a released thread-safe function: tsfn_callback() without an
\* environment frees and calls nobody.
DrainOne ==
    /\ mainPc \in {"idle", "exiting"}
    /\ \E e \in draining :
        /\ draining' = draining \ {e}
        /\ heap' = heap \ {e}
    /\ UNCHANGED <<vars, nextInput, inflight, queue, current, phase, opened, emitted, interrupted>>

\* Defective variant: the queue outlives the session.
ReleaseKeepsQueue ==
    /\ ReleaseStep
    /\ interrupted' = current
    /\ UNCHANGED <<nextInput, inflight, queue, draining, current, phase, heap, opened, emitted>>

\* Defective variant: the queued copies are forgotten.
ReleaseForgets ==
    /\ ReleaseStep
    /\ queue' = <<>>
    /\ interrupted' = current
    /\ UNCHANGED <<nextInput, inflight, draining, current, phase, heap, opened, emitted>>

\* napi_release_threadsafe_function(napi_tsfn_abort) inside start() or stop().
Release ==
    /\ ReleaseStep
    /\ queue' = <<>>
    /\ draining' = draining \union ToSet(queue)
    /\ interrupted' = current
    /\ UNCHANGED <<nextInput, inflight, current, phase, heap, opened, emitted>>

\* process.exit(): no more JavaScript, and the thread-safe function closes; the
\* hook thread runs on until the process is gone.
Exit ==
    /\ ClientMayExit
    /\ MainTo("idle", "exiting")
    /\ queue' = <<>>
    /\ draining' = draining \union ToSet(queue)
    /\ UNCHANGED <<isWorkerRunning, threadsafeFn, status, reply, hookVars, syncVars,
                   nextInput, inflight, current, phase, heap, opened, emitted, interrupted>>

ExitCompletes ==
    /\ MainTo("exiting", "dead")
    /\ UNCHANGED <<isWorkerRunning, threadsafeFn, status, reply, hookVars, syncVars,
                   deliveryVars>>

-----------------------------------------------------------------------------
StartOpens(created, passed) ==
    /\ StartCreate(created, passed)
    /\ opened' = nextInput
    /\ UNCHANGED <<nextInput, inflight, loopVars>>

\* The loop cannot end while it is inside dispatch_proc().
LoopEndsBetweenInputs == inflight = 0 /\ LoopEnds /\ UNCHANGED deliveryVars

WorkerStep ==
    /\ ThrowingCall \/ StopCall \/ MainStep \/ HookStep \/ SpuriousWakeup \/ ProcessGone
    /\ UNCHANGED deliveryVars

Dispatch == DispatchCopy \/ DispatchQueued \/ DispatchClosing \/ DispatchQueueFull

DeliveryNext ==
    \/ WorkerStep
    \/ \E created, passed \in BOOLEAN : StartOpens(created, passed)
    \/ LoopEndsBetweenInputs
    \/ Release
    \/ Dispatch
    \/ CallbackBegins
    \/ EmitNamed
    \/ CallbackEnds
    \/ DrainOne
    \/ Exit
    \/ ExitCompletes

DeliverySpec == DeliveryInit /\ [][DeliveryNext]_allVars

\* Both threads are scheduled and a loop told to quit does, as in HookWorker.
\* Listeners return, and the JavaScript thread keeps coming back to its event
\* loop however often it calls start() and stop() on the way.
DeliveryFairness ==
    /\ WF_allVars(MainStep /\ UNCHANGED deliveryVars)
    /\ WF_allVars(Release)
    /\ WF_allVars(HookStep /\ UNCHANGED deliveryVars)
    /\ WF_allVars(quit /\ LoopEndsBetweenInputs)
    /\ WF_allVars(DispatchQueued \/ DispatchClosing \/ DispatchQueueFull)
    /\ SF_allVars(EmitNamed \/ CallbackEnds)
    /\ SF_allVars(CallbackBegins)
    /\ SF_allVars(DrainOne)
    /\ WF_allVars(ExitCompletes)

DeliveryLiveSpec == DeliverySpec /\ DeliveryFairness

-----------------------------------------------------------------------------
(* What makes delivery correct.                                            *)

Held(e) == IF e = 0 THEN {} ELSE {e}

\* Every copy malloc() made in dispatch_proc() has exactly one owner until it is
\* freed, and is not used afterwards: the hook thread, the queue, a released
\* queue or the callback (addon.c:14, 23, 169).
EveryCopyOwnedOnce ==
    /\ heap = Held(inflight) \union ToSet(queue) \union draining \union Held(current)
    /\ Cardinality(heap) = Cardinality(Held(inflight)) + Len(queue)
                           + Cardinality(draining) + Cardinality(Held(current))

\* 'input' listeners see events in the order the hook saw them, none twice
\* (addon.c:20, index.ts:206).
EmittedInOrder ==
    \A i, j \in 1..Len(emitted) : i < j => emitted[i] < emitted[j]

\* From the return of start() to the call of stop(), every input of the session
\* is on its way or has been emitted; none is lost (README.md:78).
NothingLostWhileRunning ==
    isWorkerRunning /\ ~InStop /\ mainPc \notin {"exiting", "dead"} /\ threadsafeFn = "live" =>
        opened..(nextInput - 1) \subseteq heap \union ToSet(emitted)

\* No listener hears of an input from before the last start(), nor of any once stop() has
\* returned - but of one: the input whose 'input' listeners called stop(), or start() after
\* it, is still emitted under its own name, once (index.ts:206-228, addon.c:248-251).
OnlyTheCurrentSession ==
    [][ /\ emitted' # emitted => isWorkerRunning /\ Last(emitted') >= opened
        /\ phase' = "named" /\ phase # "named" =>
             /\ current = Last(emitted)
             /\ (isWorkerRunning /\ current >= opened) \/ interrupted = current ]_allVars

\* The events that dispatch_proc() has seen and no listener has heard of yet, and whether
\* there is a function and a JavaScript to take them.
ChannelOpen == ~JavaScriptGone /\ threadsafeFn = "live"
Waiting ==
    IF JavaScriptGone THEN <<>>
    ELSE IF inflight = 0 THEN queue ELSE Append(queue, inflight)

\* The way of an event through the hook thread, the thread-safe function and the event
\* loop implements EventChannel: dispatch_proc() is where it is seen, the emission of
\* 'input' where it is heard of (addon.c:14-30, 169; index.ts:206).
Channel == INSTANCE EventChannel WITH
    Capacity <- QueueSize + 1,
    open <- ChannelOpen,
    next <- nextInput,
    waiting <- Waiting,
    heard <- emitted
ImplementsChannel == Channel!Spec

\* Every copy is freed in the end, also those stop() strands in a queue.
CopiesAreFreed ==
    \A e \in Inputs : (e \in heap) ~> (e \notin heap \/ mainPc = "dead")

\* No burst of input takes the process down; 'input' reports all of them
\* (README.md:78).
SurvivesBursts == mainPc # "dead"

\* start() and stop() return also when called from a listener with the queue
\* full behind it.
CallsReturn ==
    /\ (mainPc = "lock_control") ~> (mainPc \in {"idle", "dead"})
    /\ (mainPc = "hook_stop") ~> (mainPc \in {"idle", "dead"})
=============================================================================
