--------------------------- MODULE HookResources ---------------------------
(***************************************************************************)
(* What hook_run() takes from the system and gives back, on the three      *)
(* platforms: memory, displays, taps, hooks, timers and the tables of the  *)
(* input helper.  Any call that takes something may fail, the loop may end *)
(* by itself, hook_stop() follows the hook's own pointers from another     *)
(* thread, call by call, while the hook thread is on its way out, and the  *)
(* process may exit at any time.  What the handlers compute is left to     *)
(* X11Input, DarwinInput and WindowsInput.                                 *)
(***************************************************************************)
EXTENDS Naturals, Sequences

CONSTANT Platforms   \* those of "x11", "darwin" and "windows" to consider

ASSUME ResourcesAssumption == Platforms \subseteq {"x11", "darwin", "windows"}

VARIABLES
    platform,
    loaded,    \* the library's constructor has run and its destructor has not
    pc,        \* the hook thread: "idle" (there is none), "acquire", "loop", "release"
               \* or "returned" from hook_run()
    step,      \* the place in Setup or Teardown it has reached
    held,      \* what exists
    named,     \* what the variables of the program still point to
    outcome,   \* how the last hook_run() went
    stopPc,    \* stop(): "none" with no session to stop, "session" outside of it, the
               \* next call of hook_stop() ("get_context", "disable", "sync"), "joining"
    misused    \* history: what was used when it did not exist, and by which function

resourceVars == <<platform, loaded, pc, step, held, named, outcome, stopPc, misused>>

WindowsHandles == {"keyboard_hook", "mouse_hook", "foreground_hook", "minimize_hook", "timer"}
HelperTables == {"keyboard_map", "button_map"}
Resources ==
    {"hook", "ctrl_display", "data_display", "range", "context", "stream", "helper_disp",
     "run_loop", "port", "source", "observer", "tis", "locales"} \union WindowsHandles \union HelperTables

-----------------------------------------------------------------------------
(* The plan of each platform: what is taken, group by group, and the order *)
(* in which it is given back.                                              *)

xrecord_start ==
    <<{"hook"}, {"ctrl_display", "data_display"}, {"range"}, {"context"}, {"stream"},
      HelperTables>>

create_event_runloop_info == <<{"hook"}, {"port"}, {"source"}, {"observer"}, {"tis"}>>

SetWindowsHooks == <<WindowsHandles, {"locales"}>>

Setup == [x11 |-> xrecord_start, darwin |-> create_event_runloop_info,
          windows |-> SetWindowsHooks]

\* The calls whose failure ends hook_run(); load_input_helper() and the hooks and
\* the timer that watch the foreground may fail unnoticed.
Required == Resources \ (HelperTables \union {"foreground_hook", "minimize_hook", "timer", "locales"})

\* Defective variant: the data display goes before the context made with it.
xrecord_finish_displays_first ==
    <<{"stream"}, HelperTables, {"data_display"}, {"context"}, {"range"}, {"ctrl_display"},
      {"hook"}>>

xrecord_finish ==
    <<{"stream"}, HelperTables, {"context"}, {"range"}, {"data_display"}, {"ctrl_display"},
      {"hook"}>>

destroy_event_runloop_info == <<{"tis"}, {"observer"}, {"source"}, {"port"}, {"hook"}>>

unregister_running_hooks ==
    <<{"foreground_hook"}, {"minimize_hook"}, {"timer"}, {"keyboard_hook"}, {"mouse_hook"},
      {"locales"}>>

Teardown == [x11 |-> xrecord_finish, darwin |-> destroy_event_runloop_info,
             windows |-> unregister_running_hooks]

\* What a call that takes or gives back r is made on.
Base(r) ==
    CASE r \in {"ctrl_display", "data_display", "range", "port"} -> {"hook"}
      [] r = "context" -> {"hook", "data_display", "range"}
      [] r = "stream" -> {"hook", "data_display", "context"}
      [] r = "source" -> {"hook", "port", "run_loop"}
      [] r = "observer" -> {"hook", "run_loop"}
      [] r \in HelperTables -> {"helper_disp"}
      [] OTHER -> {}

BasesOf(rs) == UNION {Base(r) : r \in rs}

Touch(user, rs) == misused' = misused \union {<<user, r>> : r \in rs \ held}

\* The display of the input helper is opened when the library is loaded, if it can be.
ResourcesInit ==
    /\ platform \in Platforms
    /\ loaded = TRUE
    /\ pc = "idle" /\ step = 1
    /\ held \in IF platform = "x11" THEN {{}, {"helper_disp"}} ELSE {{}}
    /\ named = held
    /\ outcome = "none"
    /\ stopPc = "none"
    /\ misused = {}

-----------------------------------------------------------------------------
(* The hook thread.                                                        *)

\* A thread of macOS comes with a run loop, and goes with it.
ThreadOwns == IF platform = "darwin" THEN {"run_loop"} ELSE {}

StartHook ==
    /\ loaded /\ pc = "idle" /\ stopPc = "none"
    /\ pc' = "acquire" /\ step' = 1
    /\ held' = held \union ThreadOwns
    /\ named' = named \union ThreadOwns
    /\ UNCHANGED <<platform, loaded, outcome, stopPc, misused>>

Group == Setup[platform][step]

\* Defective variant: every failure returns at once.
FailReturns == pc' = "returned" /\ step' = step /\ outcome' = "failed"

\* A failure before the loop.  Windows frees what a thread leaves behind; on macOS
\* the last allocation is checked after everything else is in place, and its
\* failure returns without giving anything back.
Fail ==
    /\ CASE platform = "windows" -> pc' = "returned" /\ step' = step /\ outcome' = "failed"
         [] Group = {"tis"} -> pc' = "returned" /\ step' = step /\ outcome' = "leaked"
         [] OTHER -> pc' = "release" /\ step' = 1 /\ outcome' = "failed"

Succeed ==
    IF step < Len(Setup[platform])
    THEN pc' = "acquire" /\ step' = step + 1 /\ outcome' = outcome
    ELSE pc' = "loop" /\ step' = step /\ outcome' = "running"

\* create_event_runloop_info() finds the structure of an earlier hook_run().
FoundAllocated == platform = "darwin" /\ step = 1 /\ "hook" \in named

\* The hook is reported once everything is in place, and stop() may be called.
Acquire ==
    /\ pc = "acquire" /\ ~FoundAllocated
    /\ \E got \in SUBSET Group :
        /\ held' = held \union got
        /\ named' = (named \ Group) \union got
        /\ IF Group \intersect Required \subseteq got THEN Succeed ELSE Fail
    /\ stopPc' = IF pc' = "loop" THEN "session" ELSE stopPc
    /\ Touch("hook_run", BasesOf(Group))
    /\ UNCHANGED <<platform, loaded>>

\* The start is refused, but what was left behind is destroyed.
Refuse ==
    /\ pc = "acquire" /\ FoundAllocated
    /\ pc' = "release" /\ step' = 1 /\ outcome' = "refused"
    /\ UNCHANGED <<platform, loaded, held, named, stopPc, misused>>

EventUses == {"helper_disp", "keyboard_map", "button_map", "port", "tis", "locales"}

\* A handler: pointers are checked for NULL before they are used.
HandleEvent ==
    /\ pc = "loop"
    /\ Touch("hook_run", named \intersect EventUses)
    /\ UNCHANGED <<platform, loaded, pc, step, held, named, outcome, stopPc>>

\* On request or by itself.  A request is sent with whichever call next fills or
\* flushes the connection, and initialize_locks() of the hook thread is one of them.
LoopEnds ==
    /\ pc = "loop"
    /\ pc' = "release" /\ step' = 1 /\ outcome' = "ended"
    /\ UNCHANGED <<platform, loaded, held, named, stopPc, misused>>

\* The next one given back.  keyboard_map keeps pointing to a descriptor whose
\* tables are gone, tis_keycode_message to freed memory.
Release ==
    /\ pc = "release"
    /\ LET gone == Teardown[platform][step] \intersect held IN
        /\ held' = held \ gone
        /\ named' = named \ (gone \ {"keyboard_map", "tis"})
        /\ Touch("hook_run", BasesOf(gone))
    /\ IF step < Len(Teardown[platform])
       THEN step' = step + 1 /\ pc' = pc
       ELSE step' = step /\ pc' = "returned"
    /\ UNCHANGED <<platform, loaded, outcome, stopPc>>

\* The thread ends, and with it its run loop; Windows removes its hooks and timers.
\* event_loop and the handles stay in their variables.
ThreadEnds ==
    /\ pc = "returned"
    /\ pc' = "idle"
    /\ held' = held \ (WindowsHandles \union {"run_loop"})
    /\ UNCHANGED <<platform, loaded, step, named, outcome, stopPc, misused>>

-----------------------------------------------------------------------------
(* The thread that calls hook_stop(), and the destructor.                  *)

\* The calls of hook_stop() follow `hook` anew, one by one.
StopGoesOn(at, to, rs) ==
    /\ stopPc = at /\ stopPc' \in to
    /\ Touch("hook_stop", rs)
    /\ UNCHANGED <<platform, loaded, pc, step, held, named, outcome>>

\* The pointers are checked once, at the beginning; ctrl.context is never cleared.
StopChecks ==
    /\ loaded /\ platform = "x11"
    /\ IF {"hook", "ctrl_display"} \subseteq named
       THEN StopGoesOn("session", {"get_context"}, {"hook"})
       ELSE StopGoesOn("session", {"session"}, {})

\* XRecordGetContext() may fail, or report a stream that has ended.
StopGetsContext ==
    StopGoesOn("get_context", {"session"} \union (IF "stream" \in held THEN {"disable"} ELSE {}),
               {"hook", "ctrl_display", "context"})

StopDisables == StopGoesOn("disable", {"sync"}, {"hook", "ctrl_display", "context"})

StopSyncs == StopGoesOn("sync", {"joining"}, {"hook", "ctrl_display"})

\* A run loop that is not running has no mode.
StopsRunLoop ==
    /\ loaded /\ platform = "darwin"
    /\ StopGoesOn("session", {IF pc = "loop" THEN "joining" ELSE "session"}, {"run_loop"})

\* PostThreadMessage() fails once the thread is gone.
StopPosts ==
    /\ loaded /\ platform = "windows"
    /\ StopGoesOn("session", {IF pc # "idle" THEN "joining" ELSE "session"}, {})

StopJoins ==
    /\ pc = "idle"
    /\ StopGoesOn("joining", {"none"}, {})

\* on_library_unload() of X11 and DllMain() of Windows as the process exits; neither
\* stops the hook, and whoever exits is in no call of hook_stop().
LibraryUnloads ==
    /\ loaded /\ stopPc \in {"none", "session"}
    /\ loaded' = FALSE
    /\ held' = held \ (WindowsHandles \union HelperTables \union {"helper_disp"})
    /\ named' = named \ (WindowsHandles \union {"button_map", "helper_disp"})
    /\ Touch("unload", named \intersect (WindowsHandles \union {"button_map", "helper_disp"}))
    /\ UNCHANGED <<platform, pc, step, outcome, stopPc>>

\* Windows ends the other threads of a process before it calls DllMain().
HookThread ==
    /\ loaded \/ platform # "windows"
    /\ Acquire \/ Refuse \/ HandleEvent \/ LoopEnds \/ Release \/ ThreadEnds

Stop == StopChecks \/ StopGetsContext \/ StopDisables \/ StopSyncs \/ StopsRunLoop \/ StopPosts \/ StopJoins

ResourcesNext == HookThread \/ StartHook \/ Stop \/ LibraryUnloads

ResourcesSpec == ResourcesInit /\ [][ResourcesNext]_resourceVars

-----------------------------------------------------------------------------
(* What makes setting up and tearing down correct.                         *)

ResourcesTypeOK ==
    /\ platform \in Platforms
    /\ loaded \in BOOLEAN
    /\ pc \in {"idle", "acquire", "loop", "release", "returned"}
    /\ step \in 1..7
    /\ pc = "acquire" => step <= Len(Setup[platform])
    /\ pc = "release" => step <= Len(Teardown[platform])
    /\ held \subseteq Resources /\ named \subseteq Resources
    /\ outcome \in {"none", "running", "ended", "failed", "leaked", "refused"}
    /\ stopPc \in {"none", "session", "get_context", "disable", "sync", "joining"}
    /\ misused \subseteq {"hook_run", "hook_stop", "unload"} \X Resources

\* Whatever fails on the way in, hook_run() leaves nothing installed or allocated
\* when it returns, and no start is refused after it; but for the allocation that
\* macOS checks last, which costs the next start and no more
\* (x11/input_hook.c:1029-1059, darwin/input_hook.c:1285, 1297, windows/input_hook.c:133).
NothingLeft ==
    pc = "idle" /\ outcome # "leaked" => held \subseteq {"helper_disp"} /\ "hook" \notin named

MisusedBy(user) == {r \in Resources : <<user, r>> \in misused}

\* Nothing is used before it exists or after it is gone.  hook_run() keeps to that on
\* every path, as long as the helper's display is there: it may never have been opened
\* (x11/system_properties.c:438, x11/input_helper.c:1803), and a process that exits
\* takes it and the key map away under the hook (x11/system_properties.c:482).
\* hook_stop() does not, in the four things it names: it follows `hook` anew at each
\* call while the hook thread may be freeing it (x11/input_hook.c:1079, 1081, 1092),
\* and event_loop may be that of a thread that has ended (darwin/input_hook.c:1419).
\* The destructor does not where DllMain() unhooks what a failed start left in its
\* variables (windows/system_properties.c:217).
UsedWhileHeld ==
    /\ MisusedBy("hook_run") \subseteq
            IF platform = "x11" /\ "helper_disp" \notin held
            THEN {"helper_disp", "keyboard_map"} ELSE {}
    /\ MisusedBy("hook_stop") \subseteq
            CASE platform = "x11" -> {"hook", "ctrl_display", "context"}
              [] platform = "darwin" -> {"run_loop"}
              [] OTHER -> {}
    /\ MisusedBy("unload") \subseteq IF platform = "windows" THEN WindowsHandles ELSE {}
=============================================================================
