# A verification of iohook-node-api in TLA+

iohook-node-api is a Node.js add-on that reports every keyboard and mouse event
of the desktop to JavaScript. This directory holds TLA+ models of it, the TLC
configurations that check them, and proofs for TLAPS. File names below are
relative to the repository's root; `libuiohook/` stands for
`src/libuiohook/src/`, and `worker.c` for `src/lib/uiohook_worker.c`.

## 1. The system

### Components, their state and their operations

| component | state | operations | modelled by |
|---|---|---|---|
| `src/index.ts`, class `IOHook` | listeners | `start`, `stop`, the handler that emits `'input'` and a named event; `keyTap`, `keyToggle` | `Addon`; `KeyTap` |
| `src/lib/addon.c` | `threadsafe_fn`, `is_worker_running`, the copies of events | `start`, `stop`, `dispatch_proc`, `tsfn_callback`; `key_tap` | `HookWorker`, `Addon`; `KeyTap` |
| `src/lib/uiohook_worker.c` | hook thread, its status, two mutexes, a condition variable | `hook_enable`, `uiohook_worker_start/stop`, `hook_thread_proc`, `worker_dispatch_proc` | `HookWorker` |
| `libuiohook/x11/input_hook.c` | `hook`: displays, record context, modifier mask, click and drag state | `hook_run`, `hook_stop`, `hook_event_proc` | life cycle in `HookWorker`; events in `X11Input`; what is held in `HookResources` |
| `libuiohook/darwin/input_hook.c` | event tap, run loop, modifier mask, click and drag state | `hook_run`, `hook_stop`, `hook_event_proc` | life cycle in `HookWorker`; events in `DarwinInput`; lookups on the main queue in `DarwinTyping`; what is held in `HookResources` |
| `libuiohook/windows/input_hook.c` | hooks, timer, foreground window, UIPI flag, modifier mask | `hook_run`, `hook_stop`, key and foreground handlers | life cycle in `HookWorker`; keys in `WindowsInput`; what is held in `HookResources` |
| `libuiohook/*/post_event.c` | X11: the mask of keys and buttons posted so far; darwin: the mask of keys and the kind of motions | `hook_post_event` | `PostEvent` |
| `libuiohook/*/input_helper.c` | keyboard and button maps, locale list, dead key, wheel accumulator | load, unload, lookups | `button_map_lookup` in `X11Input`; keysyms and characters in `KeysymSearch`; locales, dead key and wheel in `WindowsHelper`; load and unload in `HookResources` |
| `libuiohook/*/system_properties.c` | helper display, screen list | `on_library_load`, `on_library_unload`, `DllMain`; `hook_create_screen_info`, `hook_get_*` | the first three in `HookResources`; the rest not |

### How they interact

The **JavaScript thread** runs `start()` and `stop()`. `start()` creates Node's
thread-safe function (a queue of 10), creates the **hook thread** and waits on
`hook_control_cond`. The hook thread runs the platform loop, which calls
`worker_dispatch_proc()` with `EVENT_HOOK_ENABLED`, then with input events, then
with `EVENT_HOOK_DISABLED`. `hook_running_mutex` is held by the hook thread
between the first and the last: `start()` reads it with a trylock to learn
whether the hook came up. Input events are copied and queued without blocking;
the event loop of the JavaScript thread takes them out and calls the handler of
`index.ts`, whose listeners may call `start()` and `stop()` in turn. `stop()`
asks the platform loop to end, joins the thread and releases the queue.

### What is hard

* A hand-shake of two threads over a condition variable that is waited on once,
  signalled without its mutex on one path, and whose two mutexes are locked and
  unlocked by different functions of different events.
* State with no lock at all: `threadsafe_fn`, `is_worker_running`, the x11 `hook`
  pointer. Each is safe only because of where the other thread must be.
* A bounded queue whose overflow ends the process.
* A dozen things that `hook_run()` takes in order and gives back in another, each
  call of which may fail, while `hook_stop()` and the library's destructor reach
  for the same variables.
* Statics of the helpers that outlive a session, a focus or a keyboard layout: the
  dead key, the list of layouts, what is left of a notch of the wheel.
* Ownership of event copies that are freed on three paths.
* Masks and counters (modifiers, click count, drag flag) rebuilt from separate
  press and release events, some of which are never seen.
* `NAPI_CALL(env, status)` declares its own `status` and initialises it from
  itself, so it tests an uninitialised value (`src/lib/napi_helpers.h:10`).

### What makes each component correct

* Worker: `start()` and `stop()` return; `is_worker_running` tells the truth;
  nothing survives a stopped session; mutexes are given back by their owners.
* Delivery: every copy has one owner and is freed; listeners see each input of
  the current session once, in order, and none of another session.
* Input hooks: a mask bit is set exactly while its key or button is down; a
  click follows a press and a release with no drag between; click counts grow
  only on repeated presses of one button within the multi-click time.
* Posting: a tap releases what it pressed; the flags of a posted key are those of
  the keys posted before it; a motion is a drag only with a button down.
* Set-up and tear-down: whichever call fails, nothing stays installed or allocated;
  nothing is used before it exists or after it is gone.
* Helpers: a keysym and the character it is turned into belong together; a key is
  looked up in the layout that has the focus, a dead key composes in its own
  layout only; no rotation of the wheel is lost.

## 2. The modules

| module | what it is |
|---|---|
| `HookSession` | what the add-on promises its caller: a session that is stopped, starting, running or stopping, and a hook that is enabled only within it |
| `HookWorker` | `addon.c`'s `start`/`stop` and all of `worker.c`, with `hook_run`/`hook_stop` of the three platforms; it implements `HookSession` |
| `HookWorkerProofs` | the TLAPS proofs about `HookWorker` and `DarwinTyping` |
| `EventChannel` | what the add-on promises its listeners: while the channel is open, events come through one by one in the order the hook saw them |
| `Addon` | `HookWorker` composed with event delivery: `dispatch_proc`, the thread-safe function, `tsfn_callback` and the handler of `index.ts`; it implements `EventChannel` |
| `AddonProofs` | the TLAPS proofs about `Addon`, on top of those about `HookWorker` |
| `InputEvents` | the bits of the modifier mask, and the reference definition of a run of clicks |
| `X11Input`, `DarwinInput` | what `hook_event_proc` keeps (mask, click and drag state) and dispatches |
| `DarwinTyping` | `HookWorker` on macOS, with the lookups that the hook thread leaves to the main thread |
| `WindowsInput` | the modifier and lock bits of the Windows hook and their resynchronisation |
| `InputEventsProofs` | lemmas about runs of clicks, for every sequence of presses |
| `X11InputProofs`, `DarwinInputProofs`, `WindowsInputProofs` | the TLAPS proofs about the three input hooks, the first two on those lemmas |
| `HookResources` | what `hook_run()` takes and gives back, with `hook_stop()` and the library's constructor and destructor, on the three platforms |
| `KeysymSearch` | `keysym_to_unicode` and `unicode_to_keysym`, one iteration of the search a step |
| `WindowsHelper` | the list of keyboard layouts, the dead key and the wheel of Windows |
| `HelperProofs` | the TLAPS proofs about these three, which share no state |
| `PostEvent` | `hook_post_event` on the three platforms |
| `KeyTap` | `keyTap`, `keyToggle` and `key_tap` over `PostEvent` |
| `KeyTapProofs` | the TLAPS proofs about `PostEvent` and `KeyTap` |
| `MC*` | the modules TLC is started on; `MCHelpers` takes `HookResources`, `KeysymSearch` and `WindowsHelper` together |

### HookWorker

`mainPc` and `hookPc` are the places of the two threads; an action is one
synchronising call with the private work around it, named after it:
`LockControl` (worker.c:116), `CondWait`/`CondReturn` (125), `TryLockSucceeds`
and `TryLockFails` (127), `JoinFailed` (132), `UnlockControl` (150) on one side,
`EnabledLockRunning` ... `EnabledUnlockControl` (50-55), `DisabledLockControl`,
`DisabledUnlockRunning` (60-63), `FinalSignal`, `FinalUnlock` (109-110) on the
other. A mutex is `"destroyed"`, `"free"` or the thread that holds it.

The platform's part is four actions. `RunFails`: `hook_run()` returns an error
before the hook is enabled (no display, no accessibility permission,
`SetWindowsHookEx` failing). `RunEnabled`: the loop starts and
`EVENT_HOOK_ENABLED` is dispatched. `LoopEnds`: the loop ends and
`EVENT_HOOK_DISABLED` is dispatched. `RunReturns`. What differs between the
platforms is how late `hook_stop()` still succeeds: while the record context is
enabled (x11), while the run loop has a mode (darwin), while the thread takes
messages (windows). `Stoppable` says so.

Undefined behaviour is a choice. Unlocking a mutex somebody else holds may work
or be ignored (`AfterUnlock`); destroying a held one may go unnoticed or, except
on Windows, abort the process, as libuv does when `pthread_mutex_destroy()`
reports EBUSY (`DestroyAborts`); `NAPI_CALL`'s verdict need not agree with the
call it judges (`StartCreate`'s second argument). What the environment may do is
switched by constants: `HookMayFail`, `HookMayDie`, `SpuriousWakeups`,
`NapiCheckBlind`.

### Addon

`Addon` extends `HookWorker`: each of its steps either leaves the delivery
variables alone (`WorkerStep`) or is conjoined with what it does to them
(`StartOpens`, `Release`, `LoopEndsBetweenInputs`). Inputs are numbered in the
order the hook sees them, so a copy is its number. `queue` is the live
thread-safe function, `draining` what released ones still hold. Node's part (the
bounded queue, `napi_closing` after environment tear-down, emptying a released
function with a null environment) is modelled from how `addon.c` uses it.
`phase` is the handler of `index.ts`: `'input'` listeners first, then the
event's own; any of them may call `start()` or `stop()`, because those are
enabled whenever `mainPc = "idle"`, also during a callback. An `'input'` listener that
ends the session does not end the handler, which goes on to emit the named event of the
old session; `interrupted` remembers that input, and `OnlyTheCurrentSession`, which looks
at the events emitted under both names, says that it is the only one.

`EventChannel` sees of all this whether the channel is open (a live thread-safe
function and a process that still runs JavaScript), what waits (the queue and the copy
that the hook thread is about to add to it) and what has been emitted. An event is
seen by `dispatch_proc()` and heard of when `'input'` is emitted; `stop()`, a failed
`start()` and the end of the process close the channel.

### X11Input, DarwinInput, WindowsInput

A mask is the set of its bits, so that setting and clearing are union and
difference. `dispatched` is what the step just taken has passed to
`dispatch_event()`, one event or a few: a press and the characters typed, a
release and the click. The dispatcher of this repository never marks an event consumed
(`event.reserved`). On Windows `process_key_pressed()` itself does so, for the keys outside
of what it takes for the reserved range (`windows/input_hook.c:247`); what follows from that
is up to the missing `keyboard_hook_event_proc`, and no model relies on it.

`X11Input` has two sides. The server records what the user does in `pending`,
with its own clock, and runs ahead of the hook, which reads the head of
`pending` later; the LEDs and the pointer mapping are asked for only then. Every
recorded event carries, for the properties, the bits that were down after it.
In `DarwinInput` the tap is asked while the change happens; there is no queue,
but the tap may be switched off by the system. In `WindowsInput` the hook is not
called while a window of higher privilege is in front; the low-level hook is
called before the state that `GetAsyncKeyState()` reads is updated, so a
resynchronisation sees the keys from before the event. Locks on Windows are a
second set, `toggled`: the mask's lock bits are set from whether the lock's key is
held at a resynchronisation, by every press of the lock's key, whatever that toggles
(lines 230 to 242: NumLock and ScrollLock lie within the reserved range), and from what
the lock toggles at its release.

History variables say what a listener is entitled to. `stale` holds the bits whose
last change the hook could not hear of; `missed` (Windows) those that no
resynchronisation has mended; `presses`, `down` and `moved` what has happened to
the buttons. The constants `Buttons` and `Keys` also say which of the program's known deviations
are in a run (section 6).

### DarwinTyping

`process_key_pressed()` asks the main dispatch queue for the characters of a key
and waits. Nothing in the repository serves the main queue: a host whose event loop is
a Cocoa run loop does while the JavaScript thread is idle, the event loop of plain Node never does.
The module adds one variable, `lookup`, keeps the loop from ending while it is TRUE, and
lets the queue be served at any moment with `mainPc = "idle"`, or never.

### PostEvent and KeyTap

`keyTap()` becomes a list of `calls` of `lib.keyTap()`, a call a list of `events`,
and an event one `hook_post_event()`, each of which may be refused before or
after the remembered flags have changed. `downKeys` and `downButtons` are what
the system was told. The add-on posts keys only; mouse events belong to the
library's C interface (`uiohook.h`) and are posted between two taps. The
platform is chosen in the initial state, so that one run covers the three.

### HookResources

`Setup` and `Teardown` are the platforms' lists of what is taken, group by group,
and of what is given back. `Acquire` takes any part of a group, the rest having
failed; if a part the code insists on (`Required`) is missing, `Fail` is what the
platform then does: X11 and macOS give everything back, but for the last allocation
of macOS; Windows leaves it to the end of the thread. `held` is what exists,
`named` what the variables of the program still point to; they differ where the
code leaves a pointer behind. `Touch` records in `misused` every use, release
included, of something that is not held, and by which function: every handler uses
what its checks for NULL let through; `hook_stop()` of X11 is one action for each
time it follows `hook` (`StopChecks`, `StopGetsContext`, `StopDisables`, `StopSyncs`), with the
hook thread running in between; `LibraryUnloads` is the destructor, which may run at
any time, as a process may exit with its hook running. The loop ends on request or by itself
(`LoopEnds`), and a request takes effect as soon as it is sent: the next round trip on
the connection sends it, which may be the hook thread's own (`x11/input_hook.c:165`). The
thread's run loop on macOS is a resource too, since `event_loop` outlives the thread.

### KeysymSearch

`min`, `max` and the branch of an iteration are the code's. The table is any table
sorted by keysym, and both functions search it, although `unicode_to_keysym()`
compares characters. Codes are small numbers in the order of the real ones.

### WindowsHelper

`locale_list` is the set of the layouts in the list and `locale_first` its first item, the
only one whose place matters (to `RefreshCrashes`);
`keycode_to_unicode` looks for the layout of the window in front, or for the hook thread's
(`own`) if that window has none (`Wanted`), and rebuilds the list if it is not there. The
rebuilding looks for the layout of the window only, and Windows may fail to give the list
(`ListFails`), so that a key may find no layout although its own could be loaded: `typed`
tells such a key (`"blind"`) from the others. What a layout contains is abstracted: a key is dead or not
and may or may not compose with the dead key before it. `deadChar` remembers the
layout a dead key was pressed in. Division is C's, towards zero.

### MCHelpers

The three modules above share no state; `part` picks the one a behaviour is about,
and the other two keep one value, so that a run is the sum of three and not their
product.

## 3. The runs

| run | expects | what it shows |
|---|---|---|
| `addon_adverse` | pass | with every adversity on (failing, dying, spuriously woken hooks, blind status checks, process exit, listeners that restart the hook) nothing is left behind by a stopped worker, `threadsafe_fn` is unshared, `hook_stop()` meets no half-built hook, copies keep owner and session, a mutex is destroyed only when the hook thread is gone and held then only by a `start()` that failed, and the delivery implements `EventChannel`: order kept, nothing twice, nothing left out |
| `addon_live` | pass | mutex discipline, termination of both calls with a full queue, freeing of all copies, the live `HookSession` |
| `darwin_typing` | pass | loops that end only on request, with failed starts and spurious wake-ups: the threads block each other only in the three known ways, `HookSession` is implemented, and a `stop()` that does not return waits for a lookup; nothing depends on the main queue being served |
| `x11_input` | pass | with buttons down before the start, mouse mappings that change and queries that fail: events carry the bits of the moment they were recorded but for named misreadings, lock bits follow the LEDs, click numbers are the run of presses, no drag ends in a click |
| `darwin_input` | pass | mask, caps lock, clicks and drags across time-outs of the tap and restarts of the hook |
| `windows_uipi` | pass | with a key of each of two modifiers, Delete and NumLock: a resynchronisation is due whenever one is needed, and no other modifier or lock bit is ever wrong |
| `key_taps` | pass | taps are released, posted flags and drags are right, on the three platforms, posts that fail included |
| `helpers` | pass | on the three platforms, with loops that end by themselves and a process that exits at any time, `hook_run()` leaves nothing behind and uses nothing that is gone, and `hook_stop()` oversteps in four known places only; the keysym searches end and answer rightly; keys are looked up in the layout in front but for the named failures, dead keys stay in theirs or are carried over, and notches add up to the rotation |
| `worker_lostwakeup`, `darwin_typing_stop`, `darwin_middle`, `addon_burst` | violation | the findings of section 6 |

Bounds. `HookWorker` and `DarwinTyping` need none: their state spaces are finite and
small. `Addon` bounds the number of inputs (`MaxInputs`) and the queue
(`QueueSize`, 10 in the code). Two slots and four inputs give empty, partly
full, full and overflowing queues, and copies in all five places at once; one
slot and two inputs are enough for a hook thread that finds the queue full while
`stop()` waits for it. `MaxTime` bounds the clock of the input hooks: with
`MultiClickTime` 1 and two ticks (0 and one tick on macOS) presses fall within
and beyond the multi-click time. `ClickLimit` stands for `USHRT_MAX`; at 2 the
count saturates within three presses. `MaxPending` bounds how far the X server
runs ahead; two recorded events are enough for one to be read in the state the
other has left, and one for the mapping to change between record and read.
`MaxWinEvents` is the number of foreground events under way: three are a visit to
an elevated window and half of another. `MaxModifiers` is 2, so that the order
of modifiers and both keys of a pair occur. A behaviour of `x11_input` exercises
the clock with the buttons and the mapping, or what is down at the start, or the keys
and one button with two recorded events (the constraint `KeysOrClicks` of
`MCX11Input`): the handlers of keys and of buttons share no more than the mask.

`HookResources` needs no bound. `MaxRows` 4 gives every table of one to four rows:
searches that go up, down and both ways, that end with either bound passing the
other, and characters that occur twice. `CharRange`, `Direct` and `MaxKeysym` leave
room for keysyms whose character is cut. Of the three layouts one cannot be loaded,
so that lists with one left out, first items that are removed and focus on a layout
without an item, or on a window without a layout, occur. A notch of 3 and rotations up to 4 give parts of a notch,
whole ones and more; `MaxTurned` 7 lets the wheel turn more than two notches to
either side.

Deadlock is not checked in `addon_adverse`, `darwin_typing` and
`worker_lostwakeup`: the lost or the spurious wake-up really blocks both threads. That
nothing else does is a property of its own there, `OneMoreDeadlock`.
Nor is it in `helpers`: a library that is unloaded does nothing more, and Windows
crashes when the first layout of its list is removed.

Fairness (`LiveSpec`, `DeliveryLiveSpec`, `TypingSpec`): both threads are scheduled;
a loop told to quit ends, which is the contract of `XRecordDisableContext`,
`CFRunLoopStop` and `WM_QUIT`; listeners return and the JavaScript thread keeps
coming back to its event loop (strong fairness, since a listener may call
`start()` and `stop()` any number of times before it returns). No fairness is assumed for
calls of the client, inputs, failures or deaths of a loop, nor for the main dispatch queue
of macOS, which a host need not serve. `SearchSpec` assumes only that the search goes
on: it is one loop of one thread.

## 4. The proofs

`HookWorkerProofs` proves, for every platform and every value of the constants,
`TypeCorrect`, `CleanSlate`, `ThreadsafeFnRaceFree` and `StopMeetsNoSetup` from
one inductive invariant, `Lifecycle`. None of the four is inductive by itself:
that `threadsafe_fn` is unshared when `start()` reports a failure needs that a
failure status is only ever set with no hook thread left, which needs that only
a join or a failed creation sets it, which needs the places of both threads.

`RunningMeansHooked` (`is_worker_running` means that the hook thread holds the running
mutex) is in no run's list, since `ImplementsSession`, which `darwin_typing` checks, implies it.
`RunningIsHooked` and `WorkerImplementsSession` assume `HookMayDie = FALSE` and
use the stronger `Attachment`: the running mutex is the hook thread's exactly
from `EVENT_HOOK_ENABLED` to `EVENT_HOOK_DISABLED`, only `stop()` sets `quit`,
and a thread leaves `hook_run()` because of it or because it failed. The
assumption is needed: with `HookMayDie` TRUE, `RunningMeansHooked` is violated by a
loop that ends by itself.

`MutexesGivenBack` assumes `HookMayFail = FALSE` and uses
`Ownership`, which gives the places of each thread at which it holds each mutex.
The property speaks of steps, and whether the step of a thread that gives a
mutex back takes it from the other depends on where the other is. A spurious wake-up or
a hook that has already ended leaves the running mutex with the JavaScript thread for
good; `Ownership` says that there is then no hook thread to meet it. This
assumption is needed too: a hook that fails gives back a control mutex that it
never took (`uiohook_worker.c:110`).

`NoneDestroyedUnderOther` assumes nothing, so that the failing start is in it. It uses
`MayOwn` (below) and two facts of its own: a start is taken for failed with the running
mutex in the hands of the JavaScript thread itself (`TakenForFailure`), and a destroyed
mutex means that there is no session, and none being started (`DestroyedStopped`).

`DeadlocksAreKnown` assumes nothing: on every platform and in every environment, if the
JavaScript thread is in a call that cannot return as things are, and the hook thread is
blocked too or is gone, then it is the wake-up that came too early (`LostWakeup`) or,
after a spurious wake-up, the running mutex that `start()` holds while it joins a thread that wants
it (`StolenLock`). `NoDeadlock` says that without failures and spurious wake-ups there is
no deadlock at all. Both come from two parts of an inductive invariant. `MayOwn` says where a
thread may be that owns a mutex, also after a mutex was unlocked by the thread that did not
lock it: `Ownership` is of no use here, as it holds only without failures. `Awaited` says of
each wait that what ends it is still to come. Neither is inductive alone, since a
wait for the control mutex ends only if its owner is on its way, and the owner's way
leads through the other waits. TLC checked both, with `Lifecycle`, in all
environments (the three platforms and each choice of the adversities), also for being inductive.

`TypingImplementsSession` and `TypingRunningIsHooked` take two of these results over to
`DarwinTyping`, and `TypingDeadlocks` a third: lookups add `StopAgainstLookup` and no
other deadlock, which needs that a lookup is made only in the loop (`LookupsInLoop`). That a hook thread waiting for the main queue does nothing that it could
not do without is the lemma `TypingIsWorker`, so every theorem about `HookWorker` holds
with lookups.

`KeyTapProofs` proves all four properties of posting for any keys, buttons, number
of modifiers and failures, of which the run takes two modifiers and three keys:

* `PostedFlags` from `MaskTracks`: but for `stale` flags, the remembered mask
  equals what the system believes is down. The flags of an event are the mask of
  before it (X11) or after it (macOS), so that the property of steps follows.
* `HeldDrags` from `DragHeld`: while `current_motion_event` is a drag, a button of
  its kind is down, unless the press was lost.
* `TapsRelease` from `TapBalance`: each press, whether done, an event still to be
  posted or a call still to be made, has its release to come behind it or is
  accounted for in `mayStay`. `TapsAreReleased` speaks only of the moment
  `keyTap()` is through and says nothing about the way there. That `keyTap()`'s
  calls satisfy it is the lemma `TapCallsMatch`.
* `PostTypeCorrect`, which takes the length of the calls from the same lemma.

The assumptions are those of the modules: `PostAssumption` and `TapAssumption`,
whose last part says that an argument that is no number is not a key.

`AddonProofs` proves all the invariants, the action property and the refinement of `addon_adverse`
for any size of the queue, any number of inputs and every adversity:

* `OneOwner` and `EmissionInOrder` from `Owned`: a copy is in one place, none lies in a
  queue twice, and what waits is younger than what was emitted. It does not depend on
  where the two threads are.
* `DeliveryTypeCorrect` and `NoStrayEvents` from `Attended`: copies are made only by a
  hook thread in its loop, a function without a hook thread has none queued, and none
  is of an earlier session; for the named event, that the handler's input is of the session
  that runs or is `interrupted`. It needs `Lifecycle` of `HookWorkerProofs` for the places
  of the threads.
* `NothingLost` from `InSession`: as long as the function of the last `start()` lives,
  each input since is a copy or has been emitted.
* `DeliveryImplementsChannel` from `Owned`, `Attended` and `Fed`: while JavaScript runs,
  copies wait, in the queue or in the hook thread's hand, only if there is a live
  function, so that what is queued or emitted goes through an open channel. Most steps of the worker are invisible to the channel (`BesideChannel`);
  `CopySees`, `CallbackHears` and `EndCloses` say which step of the channel the others are.
  The channel's capacity is one more than the queue's, for the copy in hand. It implies
  `EmittedInOrder`, which no run lists for that reason and `EmissionInOrder` proves from less.

Its next part is the composition. `Addon` does not implement `HookWorker`: its process
may exit in the event loop or die of a full queue, and a hook thread that outlives
JavaScript runs on where `HookWorker` says nothing. `LivingSteps` and `LeavingSteps` say
what each step of the add-on is to the worker before and after that moment, and from
them `DeliveryDeadlocks`, `DeliveryCleanSlate`, `DeliveryRaceFree`, `DeliveryStopMeetsNoSetup`,
`DeliveryGivesBack`, `DeliveryDestroysLast` and `DeliveryImplementsSession` follow:
what holds of the worker alone holds within the add-on, under the specification that
`addon_adverse` and `addon_live` check. The mutexes need `OwnersWhileLeaving`, since a
process that exits may leave one with a thread that is gone.

`HelperProofs` has one part for each helper. It proves `AllGivenBack` and `ResourcesTypeCorrect` from `Balance`,
and `NothingMisused` from `Sound`. `Balance` says, for every place in the plans,
what can be held there: while things are taken, only what earlier groups may have
taken; while they are given back, only what later groups will give back. `Sound` says
that what a variable names is held where it can be used, but for the pointers the
code leaves behind and for what is only lent to the hook thread: the helper's display,
which may be missing or go with the process, and the run loop (`Lent`). That each platform's plan gives back all that it takes, and
in an order in which whatever a call is made on still exists (`PlanOK`), is the lemma
`EveryPlan`.
Neither assumes anything. What `hook_stop()` may touch too late is named in
`UsedWhileHeld` itself; section 6 says how each comes about.

It proves `SearchTypeCorrect` and `SearchAnswers` for tables of any
length from `SearchInv`: while a keysym is searched for, every row that holds it is
between the bounds. Nothing of the kind holds for a character; there the answer is
right because a miss falls back to the direct keysym.

It proves `NoRotationLost` for any size of a notch, from the equation
`turned + WHEEL_DELTA * reported = v_rotation` (`WheelInv`) and the bound on `v_rotation`
that division towards zero gives; `DeadKeysStay` for any layouts, in which a dead key
that a refresh or a new session carried over is excepted; and
`KeysFindTheirLayout` from `LayoutInv` (the current layout is in the list, which holds
only layouts that could be loaded) and the lemma that a refresh which gets its list finds
the layout of the focus, if there is one and it can be loaded.

`WindowsInputProofs` proves the three properties of `windows_uipi` for any keys and
any number of window events:

* `ResyncFollows` from `Warned`: while a window of higher privilege is in front, or a
  change has been missed, either a resynchronisation is due or the event of such a
  window is still in the queue. `ResyncIsDue` speaks only of an empty queue.
* `MaskFollowsKeys` from `Followed`: unless a resynchronisation is due, the bits that
  are wrong are `stale`.

`InputEventsProofs` is about `RunLength`, which is the longest of a set of runs and not
a recursion, so that the provers can reason about it: how the length of a run
changes when a press is added, the oldest press dropped at the limit included.
`FollowsRun` relates a click count to the presses that were heard.

`DarwinInputProofs` proves, for any keys, buttons, clock and limit, `DarwinTypeCorrect`,
`CapsLockIsKnown`, `NoClickAfterDrag` (from `DragRemembered`: a button that was moved
means the drag flag is still set), `ClicksAreCounted` (from `ClickCounted`: the count
follows the run until something resets it) and `MaskFollowsInput`. The last assumes
`NoKnownDeviation`: one key of each pair and no button of 3 to 5. Section 6 says what
the others do.

`X11InputProofs` proves the five properties of `x11_input` for any keys, buttons, clock
and limit, and for a server that is any number of recorded events ahead (`MaxPending`).
What makes it longer than the others is that stream: the mask is compared with what
was down when an event was recorded, while by now something else is.

* `X11TypeCorrect` from `Types`, which also says that a recorded key event is of no
  button and a button event of no key.
* `LocksAreTheLeds` from `LocksBehind`: the lock bits are the LEDs, or a key event that
  will set them right is still to be read. `LocksFollowLeds` speaks only of an empty
  stream.
* `MaskShows` from `MaskInv`: each recorded event shows what the one before it shows,
  but for its own bits; the last shows what is down now; and the mask is behind by
  the first event only.
* `X11ClicksAreCounted` from `ClickInv`: the events are in the order of their times, the
  count follows the run of the presses that were read, and once it has been reset by the
  clock no event still to be read is early enough to go on with it.
* `NoClickAfterDrag` from `DragInv`: until the mapping changes, a button that is down has
  its bit in the mask, and one that was moved has set the drag flag. The flag is
  worked out from the mask, so the bit is part of the invariant.

`InputAssumption` is all they assume: types, a click limit that is positive, no key with
the name of a bit and no wheel held down at the start.

Every invariant and every action property that a passing run checks is thus proved.
Only model-checked is liveness (`CallsReturn`, `CopiesAreFreed`, `StopWaitsForLookupsOnly`,
`SearchEnds`, and the fairness part of `ImplementsLiveSession`, of which
`DeliveryImplementsSession` proves the safety part), which rests on fairness and
ENABLED and is out of the prover's reach. The violations of section 6 are TLC's.

## 5. The plan

Done: the worker and its session, delivery, the three input hooks with the lock bits
of Windows, lookups on the main queue, posting and key taps, what `hook_run()` takes
and gives back with the helper's life cycle, the keysym searches, the locale list, the
dead key and the wheel of Windows; the abstract channel of events; proofs of every safety
property of the runs, of the two refinements, and that the deadlocks found are all there are.

Left:

1. An abstract `ModifierMask` that the three input hooks implement, and each of them
   composed with `Addon`'s delivery.
2. The recoding of keypad keys, `keycode_to_keysym`'s choice of group and level, and
   the scan code tables, as functions against reference definitions.
3. `hook_create_screen_info`, a list that is built from the screens for C callers.

## 6. Findings and known deviations

`findings` in PROJECT.json names the run that exhibits each: a failing hook's lost
wake-up, `stop()` against a lookup on the main queue, the release of a middle
button on macOS, a burst of inputs.

The models show more, with other values of the constants than the passing runs
have:

* `SpuriousWakeups = TRUE` violates `StartReturns`; `HookMayDie = TRUE` violates
  `RunningMeansHooked`.
* X11: the two buttons beyond the wheel (8 and 9) share `MASK_BUTTON5`, which
  `MaskShowsInput` therefore leaves out, and buttons from 10 on have the wheel's number,
  0, which `ClicksCountTheRun` leaves out. The right or middle button down at the start,
  whose bits `initialize_modifiers()` does not exchange, and a mouse mapping changed
  between a press and a release are exceptions that `MaskShowsInput` and
  `ClickedWithoutDrag` name.
* macOS: `Keys = {"SHIFT_L", "SHIFT_R"}` violates `ReleasesAreReported` (one flag for
  both keys), `Buttons = {1, 4}` violates `MaskShowsInput` (the number of the button
  is used as a mask).
* Windows: the key whose event triggers a resynchronisation is misread by it, and a
  lock that is on but not held is taken for off (`input_hook.c:120`); the press of a
  lock sets its bit also when it switches the lock off (`input_hook.c:230-242`).
  `MaskShowsInput` excepts these bits.
* A listener of `'input'` that calls `stop()` is followed by the named event of the same
  input, which `OnlyTheCurrentSession` excepts (`index.ts:207-228`).
* macOS: a host that does not serve the main dispatch queue never answers a lookup, so
  that the first key press stops the hook thread for good.
* X11: the destructor closes the helper display and frees the maps without stopping the
  hook (its `hook_stop()` is commented out, `x11/system_properties.c:479`), and a handler
  may still use the display and the key map; nor is it checked that the display was
  opened (`system_properties.c:438`, `input_helper.c:1803`).
* X11: `hook_stop()` checks `hook` once and follows it three times more
  (`input_hook.c:1079`, `1081`, `1092`), while a loop that ends, by itself or because the request
  has already gone out, frees the structure, the context and the connection. The comment
  of line 1076 ("We need to make sure the context is still valid") holds for that moment only.
* macOS: `event_loop` still names the run loop of a thread that has ended when a
  `stop()` comes after a loop that ended by itself (`input_hook.c:1419`).
* macOS: when the last allocation of `create_event_runloop_info()` fails, nothing is
  given back; the next start is refused and cleans up (`outcome = "leaked"`).
* Windows: after a start that failed, `DllMain` unhooks handles that are gone already,
  which Windows refuses.
* Windows: removing the first layout of the list writes through NULL
  (`RefreshCrashes`, `input_helper.c:546`); the dead key is reset when the focus goes
  to another layout of the list, but not when the list is rebuilt or a new session
  begins (`carried`); and if the list has to
  be rebuilt for a key whose window has no layout, or Windows fails to give it, the key is
  looked up in no layout although the one it is meant for could be loaded.
* `unicode_to_keysym()` searches by character a table that is sorted by keysym: of its
  758 rows it misses most and answers with the direct keysym, which means the same
  character. `keysym_to_unicode()` cuts a character above U+FFFF.

Outside the models, but seen on the way: each session of X11 leaves the descriptors
of `XkbGetKeyboard()` and `XkbGetMap()`, and each `hook_stop()` an `XRecordState`; a
motion posted on X11 has an event type or-ed into its state and its x coordinate for
`y_root` (`x11/post_event.c:367`, `369`); posting the release of a button on Windows leaves
the caller's event a press (`windows/post_event.c:179`).

## 7. Not modelled

* Logging, `tsfn_finalize` (empty), building JavaScript objects, the contents of the
  key code tables, coordinates and screens.
* `keyboard_hook_event_proc` and `mouse_hook_event_proc` of the Windows hook are in no
  file of the repository. `WindowsInput` takes the first to call the key handlers
  of `input_hook.c`; of the second nothing is assumed but that it calls
  `get_scroll_wheel_rotation()` (`WindowsHelper`).
* The recoding of keypad keys under NumLock, and the type that Windows'
  `hook_post_event` leaves in the caller's event.
* The helper of macOS: in the build of `binding.gyp` its load and unload are empty and
  it keeps no dead key; what is left are tables and calls of the system.
* `keycode_to_keysym` of X11, which reads tables of Xkb and keeps nothing.
* The list of screens of `system_properties.c`, which only C callers see.
* The example program `src/demo.ts`: it calls `stop()` on Escape and again when the
  process exits, where `stop()` throws "Worker is not running".
* Code that `binding.gyp` never compiles (`USE_XTEST`, `USE_EVDEV`, `USE_XRANDR`,
  `USE_APPLICATION_SERVICES`, ...).
