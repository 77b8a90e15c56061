---------------------------- MODULE HelperProofs ----------------------------
(***************************************************************************)
(* The proofs about HookResources, KeysymSearch and WindowsHelper, which   *)
(* share no state.                                                         *)
(***************************************************************************)
EXTENDS HookResources, KeysymSearch, WindowsHelper, TLAPS

(***************************************************************************)
(* HookResources: what hook_run() takes it gives back, and nothing is used *)
(* outside its life.  The three platforms differ in their plans only, so   *)
(* PlanOK says once what a plan must satisfy, a lemma per platform that    *)
(* its plan does, and the invariants never look at a platform's list       *)
(* again.                                                                  *)
(***************************************************************************)

Names == {"x11", "darwin", "windows"}

\* What hook_run() uses and neither takes nor gives back.
Loaned(p) == CASE p = "x11" -> {"helper_disp"} [] p = "darwin" -> {"run_loop"} [] OTHER -> {}
Loans == {"helper_disp", "run_loop"}

\* The groups of a plan before place i, and all of them.
Before(plan, i) == UNION {plan[j] : j \in 1 .. i-1}
Whole(plan) == Before(plan, Len(plan) + 1)

\* One place further, one group more.
LEMMA BeforeNext ==
  ASSUME NEW plan, NEW i \in Nat \ {0}
  PROVE  Before(plan, i+1) = Before(plan, i) \union plan[i]
  BY DEF Before

\* Nothing comes before the first place.
LEMMA BeforeFirst == \A plan : Before(plan, 1) = {}
  BY DEF Before

\* The groups before each place of a plan of up to seven.
LEMMA BeforeSeven ==
  ASSUME NEW plan
  PROVE  /\ Before(plan, 2) = plan[1]
         /\ Before(plan, 3) = plan[1] \union plan[2]
         /\ Before(plan, 4) = plan[1] \union plan[2] \union plan[3]
         /\ Before(plan, 5) = plan[1] \union plan[2] \union plan[3] \union plan[4]
         /\ Before(plan, 6) = plan[1] \union plan[2] \union plan[3] \union plan[4] \union plan[5]
         /\ Before(plan, 7) = plan[1] \union plan[2] \union plan[3] \union plan[4] \union plan[5]
                                \union plan[6]
         /\ Before(plan, 8) = plan[1] \union plan[2] \union plan[3] \union plan[4] \union plan[5]
                                \union plan[6] \union plan[7]
<1>1. Before(plan, 2) = plan[1]
  <2>1. Before(plan, 1+1) = Before(plan, 1) \union plan[1]
    BY BeforeNext
  <2> QED BY <2>1, BeforeFirst
<1>2. Before(plan, 3) = plan[1] \union plan[2]
  BY <1>1, BeforeNext, 2+1 = 3
<1>3. Before(plan, 4) = plan[1] \union plan[2] \union plan[3]
  BY <1>2, BeforeNext, 3+1 = 4
<1>4. Before(plan, 5) = plan[1] \union plan[2] \union plan[3] \union plan[4]
  BY <1>3, BeforeNext, 4+1 = 5
<1>5. Before(plan, 6) = plan[1] \union plan[2] \union plan[3] \union plan[4] \union plan[5]
  BY <1>4, BeforeNext, 5+1 = 6
<1>6. Before(plan, 7) = plan[1] \union plan[2] \union plan[3] \union plan[4] \union plan[5] \union plan[6]
  BY <1>5, BeforeNext, 6+1 = 7
<1>7. Before(plan, 8) = plan[1] \union plan[2] \union plan[3] \union plan[4] \union plan[5] \union plan[6]
                          \union plan[7]
  BY <1>6, BeforeNext, 7+1 = 8
<1> QED
  BY <1>1, <1>2, <1>3, <1>4, <1>5, <1>6, <1>7

\* What the three plans have in common: they give back exactly what they take; the
\* allocation macOS checks last is not the first; a required call of Windows comes
\* before anything but handles; every call is made on what required calls have taken
\* before it, or on the helper's display or the thread's run loop; nothing goes before
\* what was made on it; and handles and tables are taken on their own platform only.
PlanOK(p) ==
  /\ Len(Setup[p]) \in Nat /\ 1 <= Len(Setup[p]) /\ Len(Setup[p]) <= 6
  /\ Len(Teardown[p]) \in Nat /\ 1 <= Len(Teardown[p]) /\ Len(Teardown[p]) <= 7
  /\ Whole(Setup[p]) \subseteq Resources \ Loans
  /\ Whole(Teardown[p]) = Whole(Setup[p])
  /\ \A i \in 1 .. Len(Setup[p]) : Setup[p][i] \subseteq Whole(Setup[p])
  /\ \A i \in 1 .. Len(Setup[p]) : p = "darwin" => ("hook" \in Setup[p][i] <=> i = 1)
  /\ \A i \in 1 .. Len(Setup[p]) : Setup[p][i] = {"tis"} => p = "darwin" /\ i > 1
  /\ \A i \in 1 .. Len(Setup[p]) :
       p = "windows" => Setup[p][i] \intersect Required = {} \/ Before(Setup[p], i+1) \subseteq WindowsHandles
  /\ \A i \in 1 .. Len(Setup[p]) :
       BasesOf(Setup[p][i]) \subseteq (Before(Setup[p], i) \intersect Required) \union Loaned(p)
  /\ \A r \in Whole(Setup[p]) : Base(r) \subseteq Whole(Setup[p]) \union Loaned(p)
  /\ p # "windows" => Whole(Setup[p]) \intersect WindowsHandles = {}
  /\ p # "x11" => Whole(Setup[p]) \intersect HelperTables = {}
  /\ \A i \in 1 .. Len(Teardown[p]), r \in Whole(Setup[p]) :
       Base(r) \intersect Teardown[p][i] # {} => r \in Before(Teardown[p], i)

\* xrecord_start(), load_input_helper() and the way back (x11/input_hook.c:1029-1059).
LEMMA X11Plan == PlanOK("x11")
<1> DEFINE up == Setup["x11"]
           down == Teardown["x11"]
<1>1. Len(up) = 6 /\ up[1] = {"hook"} /\ up[2] = {"ctrl_display", "data_display"} /\ up[3] = {"range"}
      /\ up[4] = {"context"} /\ up[5] = {"stream"} /\ up[6] = {"keyboard_map", "button_map"}
  BY DEF Setup, xrecord_start, HelperTables
<1>2. Len(down) = 7 /\ down[1] = {"stream"} /\ down[2] = {"keyboard_map", "button_map"}
      /\ down[3] = {"context"} /\ down[4] = {"range"} /\ down[5] = {"data_display"}
      /\ down[6] = {"ctrl_display"} /\ down[7] = {"hook"}
  BY DEF Teardown, xrecord_finish, HelperTables
<1>3. /\ Before(up, 1) = {}
      /\ Before(up, 2) = {"hook"}
      /\ Before(up, 3) = {"hook", "ctrl_display", "data_display"}
      /\ Before(up, 4) = {"hook", "ctrl_display", "data_display", "range"}
      /\ Before(up, 5) = {"hook", "ctrl_display", "data_display", "range", "context"}
      /\ Before(up, 6) = {"hook", "ctrl_display", "data_display", "range", "context", "stream"}
      /\ Before(up, 7) = {"hook", "ctrl_display", "data_display", "range", "context", "stream",
                          "keyboard_map", "button_map"}
  <2> HIDE DEF up
  <2> QED BY <1>1, BeforeFirst, BeforeSeven
<1>4. /\ Before(down, 1) = {}
      /\ Before(down, 2) = {"stream"}
      /\ Before(down, 3) = {"stream", "keyboard_map", "button_map"}
      /\ Before(down, 4) = {"stream", "keyboard_map", "button_map", "context"}
      /\ Before(down, 5) = {"stream", "keyboard_map", "button_map", "context", "range"}
      /\ Before(down, 6) = {"stream", "keyboard_map", "button_map", "context", "range", "data_display"}
      /\ Before(down, 7) = {"stream", "keyboard_map", "button_map", "context", "range", "data_display",
                          "ctrl_display"}
      /\ Before(down, 8) = {"stream", "keyboard_map", "button_map", "context", "range", "data_display",
                          "ctrl_display", "hook"}
  <2> HIDE DEF down
  <2> QED BY <1>2, BeforeFirst, BeforeSeven
<1> HIDE DEF up, down
<1>5. Whole(up) = {"hook", "ctrl_display", "data_display", "range", "context", "stream",
                   "keyboard_map", "button_map"}
  BY <1>1, <1>3 DEF Whole
<1>6. Whole(down) = Whole(up)
  <2>1. Whole(down) = Before(down, 8)
    BY <1>2 DEF Whole
  <2> QED BY <2>1, <1>4, <1>5
<1>7. /\ Whole(up) \subseteq Resources \ Loans
      /\ \A i \in 1..6 : up[i] \subseteq Whole(up)
      /\ \A i \in 1..6 : up[i] # {"tis"}
      /\ Whole(up) \intersect WindowsHandles = {}
  BY <1>1, <1>5 DEF Resources, HelperTables, Loans, WindowsHandles
<1>8. /\ \A i \in 1..6 : BasesOf(up[i]) \subseteq (Before(up, i) \intersect Required) \union {"helper_disp"}
      /\ \A r \in Whole(up) : Base(r) \subseteq Whole(up) \union {"helper_disp"}
  <2>1. \A i \in 1..6 : BasesOf(up[i]) \subseteq (Before(up, i) \intersect Required) \union {"helper_disp"}
    BY <1>1, <1>3 DEF BasesOf, Base, Required, Resources, HelperTables
  <2>2. \A r \in Whole(up) : Base(r) \subseteq Whole(up) \union {"helper_disp"}
    BY <1>5 DEF Base, HelperTables
  <2> QED
    BY <2>1, <2>2
<1>9. \A i \in 1..7, r \in Whole(up) : Base(r) \intersect down[i] # {} => r \in Before(down, i)
  BY <1>2, <1>4, <1>5 DEF Base, HelperTables
<1> QED
  BY <1>1, <1>2, <1>6, <1>7, <1>8, <1>9 DEF PlanOK, up, down, Loaned

\* create_event_runloop_info() and destroy_event_runloop_info() (darwin/input_hook.c:1285).
LEMMA DarwinPlan == PlanOK("darwin")
<1> DEFINE up == Setup["darwin"]
           down == Teardown["darwin"]
<1>1. Len(up) = 5 /\ up[1] = {"hook"} /\ up[2] = {"port"} /\ up[3] = {"source"}
      /\ up[4] = {"observer"} /\ up[5] = {"tis"}
  BY DEF Setup, create_event_runloop_info
<1>2. Len(down) = 5 /\ down[1] = {"tis"} /\ down[2] = {"observer"} /\ down[3] = {"source"}
      /\ down[4] = {"port"} /\ down[5] = {"hook"}
  BY DEF Teardown, destroy_event_runloop_info
<1>3. /\ Before(up, 1) = {}
      /\ Before(up, 2) = {"hook"}
      /\ Before(up, 3) = {"hook", "port"}
      /\ Before(up, 4) = {"hook", "port", "source"}
      /\ Before(up, 5) = {"hook", "port", "source", "observer"}
      /\ Before(up, 6) = {"hook", "port", "source", "observer", "tis"}
  <2> HIDE DEF up
  <2> QED BY <1>1, BeforeFirst, BeforeSeven
<1>4. /\ Before(down, 1) = {}
      /\ Before(down, 2) = {"tis"}
      /\ Before(down, 3) = {"tis", "observer"}
      /\ Before(down, 4) = {"tis", "observer", "source"}
      /\ Before(down, 5) = {"tis", "observer", "source", "port"}
      /\ Before(down, 6) = {"tis", "observer", "source", "port", "hook"}
  <2> HIDE DEF down
  <2> QED BY <1>2, BeforeFirst, BeforeSeven
<1> HIDE DEF up, down
<1>5. Whole(up) = {"hook", "port", "source", "observer", "tis"}
  <2>1. Whole(up) = Before(up, 6)
    BY <1>1 DEF Whole
  <2> QED BY <2>1, <1>3
<1>6. Whole(down) = Whole(up)
  <2>1. Whole(down) = Before(down, 6)
    BY <1>2 DEF Whole
  <2> QED BY <2>1, <1>4, <1>5
<1>7. /\ Whole(up) \subseteq Resources \ Loans
      /\ \A i \in 1..5 : up[i] \subseteq Whole(up)
      /\ \A i \in 1..5 : "hook" \in up[i] <=> i = 1
      /\ \A i \in 1..5 : up[i] = {"tis"} => i > 1
      /\ Whole(up) \intersect (WindowsHandles \union HelperTables) = {}
  BY <1>1, <1>5 DEF Resources, Loans, WindowsHandles, HelperTables
<1>8. /\ \A i \in 1..5 : BasesOf(up[i]) \subseteq (Before(up, i) \intersect Required) \union {"run_loop"}
      /\ \A r \in Whole(up) : Base(r) \subseteq Whole(up) \union {"run_loop"}
  <2>1. \A i \in 1..5 : BasesOf(up[i]) \subseteq (Before(up, i) \intersect Required) \union {"run_loop"}
    BY <1>1, <1>3 DEF BasesOf, Base, Required, Resources, HelperTables, WindowsHandles
  <2>2. \A r \in Whole(up) : Base(r) \subseteq Whole(up) \union {"run_loop"}
    BY <1>5 DEF Base, HelperTables
  <2> QED
    BY <2>1, <2>2
<1>9. \A i \in 1..5, r \in Whole(up) : Base(r) \intersect down[i] # {} => r \in Before(down, i)
  BY <1>2, <1>4, <1>5 DEF Base, HelperTables
<1> QED
  BY <1>1, <1>2, <1>6, <1>7, <1>8, <1>9 DEF PlanOK, up, down, Loaned

\* SetWindowsHookEx() and what goes with it, unregister_running_hooks().
LEMMA WindowsPlan == PlanOK("windows")
<1> DEFINE up == Setup["windows"]
           down == Teardown["windows"]
<1>1. Len(up) = 2 /\ up[1] = WindowsHandles /\ up[2] = {"locales"}
  BY DEF Setup, SetWindowsHooks
<1>2. Len(down) = 6 /\ down[1] = {"foreground_hook"} /\ down[2] = {"minimize_hook"} /\ down[3] = {"timer"}
      /\ down[4] = {"keyboard_hook"} /\ down[5] = {"mouse_hook"} /\ down[6] = {"locales"}
  BY DEF Teardown, unregister_running_hooks
<1>3. /\ Before(up, 1) = {}
      /\ Before(up, 2) = WindowsHandles
      /\ Before(up, 3) = WindowsHandles \union {"locales"}
  <2> HIDE DEF up
  <2> QED BY <1>1, BeforeFirst, BeforeSeven
<1>4. Before(down, 7) = WindowsHandles \union {"locales"}
  <2> HIDE DEF down
  <2> QED BY <1>2, BeforeSeven DEF WindowsHandles
<1> HIDE DEF up, down
<1>5. Whole(up) = WindowsHandles \union {"locales"}
  <2>1. Whole(up) = Before(up, 3)
    BY <1>1 DEF Whole
  <2> QED BY <2>1, <1>3
<1>6. Whole(down) = Whole(up)
  <2>1. Whole(down) = Before(down, 7)
    BY <1>2 DEF Whole
  <2> QED BY <2>1, <1>4, <1>5
<1>7. /\ Whole(up) \subseteq Resources \ Loans
      /\ \A i \in 1..2 : up[i] \subseteq Whole(up) /\ up[i] # {"tis"}
      /\ Whole(up) \intersect HelperTables = {}
  BY <1>1, <1>5 DEF Resources, WindowsHandles, HelperTables, Loans
<1>8. \A i \in 1..2 : up[i] \intersect Required = {} \/ Before(up, i+1) \subseteq WindowsHandles
  BY <1>1, <1>3, 1+1 = 2 DEF Required
<1>9. /\ \A i \in 1..2 : BasesOf(up[i]) = {}
      /\ \A r \in Whole(up) : Base(r) = {}
  BY <1>1, <1>5 DEF BasesOf, Base, WindowsHandles, HelperTables
<1> QED
  BY <1>1, <1>2, <1>6, <1>7, <1>8, <1>9 DEF PlanOK, up, down, Loaned

\* The plan of every platform is a good one.
LEMMA EveryPlan == \A p \in Names : PlanOK(p)
  BY X11Plan, DarwinPlan, WindowsPlan DEF Names

\* Before the first place nothing, behind the last one everything, and no group is
\* missed on the way.
LEMMA Places ==
  ASSUME NEW p \in Names
  PROVE  /\ Before(Setup[p], 1) = {} /\ Before(Teardown[p], 1) = {}
         /\ \A i \in 1 .. Len(Setup[p]) :
              Before(Setup[p], i+1) = Before(Setup[p], i) \union Setup[p][i]
         /\ \A i \in 1 .. Len(Teardown[p]) :
              Before(Teardown[p], i+1) = Before(Teardown[p], i) \union Teardown[p][i]
         /\ Whole(Setup[p]) = Before(Setup[p], Len(Setup[p]) + 1)
         /\ Whole(Setup[p]) = Before(Teardown[p], Len(Teardown[p]) + 1)
         /\ \A i \in 1 .. Len(Setup[p]) : Before(Setup[p], i) \subseteq Whole(Setup[p])
         /\ \A i \in 1 .. Len(Teardown[p]) : Teardown[p][i] \subseteq Whole(Setup[p])
<1>1. PlanOK(p)
  BY EveryPlan
<1>2. Len(Setup[p]) \in Nat /\ Len(Teardown[p]) \in Nat
  BY <1>1 DEF PlanOK
<1>3. \A i \in 1 .. Len(Setup[p]) :
        Before(Setup[p], i+1) = Before(Setup[p], i) \union Setup[p][i]
  BY <1>2, BeforeNext
<1>4. \A i \in 1 .. Len(Teardown[p]) :
        Before(Teardown[p], i+1) = Before(Teardown[p], i) \union Teardown[p][i]
  BY <1>2, BeforeNext
<1>5. Whole(Setup[p]) = Before(Teardown[p], Len(Teardown[p]) + 1)
  BY <1>1 DEF PlanOK, Whole
<1>6. \A i \in 1 .. Len(Setup[p]) : Before(Setup[p], i) \subseteq Whole(Setup[p])
  BY <1>2 DEF Whole, Before
<1>7. \A i \in 1 .. Len(Teardown[p]) : Teardown[p][i] \subseteq Whole(Setup[p])
  <2>1. \A i \in 1 .. Len(Teardown[p]) : Teardown[p][i] \subseteq Whole(Teardown[p])
    BY <1>2 DEF Whole, Before
  <2> QED
    BY <2>1, <1>1 DEF PlanOK
<1> QED
  BY <1>3, <1>4, <1>5, <1>6, <1>7, BeforeFirst DEF Whole

-----------------------------------------------------------------------------
(* The balance: what hook_run() has taken at each place, and what it has   *)
(* still to give back.                                                     *)

\* What this platform's hook_run() ever takes.
Mine == Whole(Setup[platform])

\* Nothing else is held, and a pointer to what is gone is one of the known ones.
PointedTo ==
  /\ held \subseteq Loans \union Mine
  /\ named \subseteq Loans \union Mine
  /\ named \subseteq held \union {"keyboard_map", "tis", "run_loop"} \union WindowsHandles

\* A hook_run() that begins with nothing, or finds what a failed one left.
WayIn ==
  pc = "acquire" /\ ~FoundAllocated =>
    /\ held \subseteq Loans \union Before(Setup[platform], step)
    /\ outcome # "leaked"
    /\ platform = "darwin" /\ step > 1 => "hook" \in named

\* What has been given back is not held again, and hook_run() returns with nothing but
\* what goes with the thread, or with the leftover that the next start will find.
Leftover == platform = "darwin" /\ "hook" \in named

WayOut ==
  /\ pc = "release" => held \intersect Before(Teardown[platform], step) = {} /\ outcome # "leaked"
  /\ pc = "returned" => IF outcome = "leaked" THEN Leftover
                                              ELSE held \subseteq Loans \union WindowsHandles

\* Between two runs there is nothing but the display the library opened on load, or
\* that leftover.
AtRest ==
  pc = "idle" => IF outcome = "leaked" THEN Leftover ELSE held \subseteq {"helper_disp"}

\* Only hook_stop() of X11 is a sequence of calls.
OnX11 == stopPc \in {"get_context", "disable", "sync"} => platform = "x11"

\* The inductive invariant of NothingLeft.
Balance == ResourcesTypeOK /\ PointedTo /\ WayIn /\ WayOut /\ AtRest /\ OnX11

\* In a state of the right types, the plan in use is a good one.
LEMMA PlatformPlan ==
  ASSUME ResourcesTypeOK
  PROVE  platform \in Names /\ PlanOK(platform)
  BY ResourcesAssumption, EveryPlan DEF ResourcesTypeOK, Names

\* The balance holds before the first hook_run() ...
LEMMA BalanceInit == ResourcesInit => Balance
<1> SUFFICES ASSUME ResourcesInit PROVE Balance
  OBVIOUS
<1>1. ResourcesTypeOK
  BY DEF ResourcesInit, ResourcesTypeOK, Resources
<1> QED
  BY <1>1 DEF ResourcesInit, Balance, PointedTo, WayIn, WayOut, AtRest, OnX11, Loans

\* What hook_stop() may use ...
StopTouches ==
  CASE platform = "x11" -> {"hook", "ctrl_display", "context"}
    [] platform = "darwin" -> {"run_loop"}
    [] OTHER -> {}

\* ... and all that its steps change.
LEMMA StopUses ==
  ASSUME Stop, OnX11, stopPc \in {"none", "session", "get_context", "disable", "sync", "joining"}
  PROVE  /\ \E rs \in SUBSET StopTouches : Touch("hook_stop", rs)
         /\ UNCHANGED <<platform, loaded, pc, step, held, named, outcome>>
         /\ stopPc' \in {"none", "session", "get_context", "disable", "sync", "joining"}
         /\ OnX11'
<1> USE DEF StopGoesOn, StopTouches, OnX11
<1>1. CASE StopChecks
  <2>1. CASE {"hook", "ctrl_display"} \subseteq named
    <3>1. Touch("hook_stop", {"hook"})
      BY <1>1, <2>1 DEF StopChecks
    <3> QED
      BY <1>1, <2>1, <3>1 DEF StopChecks
  <2>2. CASE ~({"hook", "ctrl_display"} \subseteq named)
    <3>1. Touch("hook_stop", {})
      BY <1>1, <2>2 DEF StopChecks
    <3> QED
      BY <1>1, <2>2, <3>1 DEF StopChecks
  <2> QED
    BY <2>1, <2>2
<1>2. CASE StopGetsContext
  BY <1>2 DEF StopGetsContext
<1>3. CASE StopDisables
  BY <1>3 DEF StopDisables
<1>4. CASE StopSyncs
  BY <1>4 DEF StopSyncs
<1>5. CASE StopsRunLoop
  BY <1>5 DEF StopsRunLoop
<1>6. CASE StopPosts
  BY <1>6 DEF StopPosts
<1>7. CASE StopJoins
  BY <1>7 DEF StopJoins
<1> QED
  BY <1>1, <1>2, <1>3, <1>4, <1>5, <1>6, <1>7 DEF Stop

\* No other platform gets into the middle of hook_stop().
LEMMA OnX11Next ==
  ASSUME ResourcesTypeOK, OnX11, [ResourcesNext]_resourceVars
  PROVE  OnX11'
<1>1. CASE HookThread
  BY <1>1 DEF HookThread, Acquire, Refuse, HandleEvent, LoopEnds, Release, ThreadEnds, OnX11
<1>2. CASE StartHook \/ LibraryUnloads \/ UNCHANGED resourceVars
  BY <1>2 DEF StartHook, LibraryUnloads, resourceVars, OnX11
<1>3. CASE Stop
  BY <1>3, StopUses DEF ResourcesTypeOK
<1> QED
  BY <1>1, <1>2, <1>3 DEF ResourcesNext

\* Every step of either thread keeps the balance.
LEMMA BalanceNext == Balance /\ [ResourcesNext]_resourceVars => Balance'
<1> SUFFICES ASSUME Balance, [ResourcesNext]_resourceVars
             PROVE  Balance'
  OBVIOUS
<1> USE DEF Balance
<1>p. platform \in Names /\ PlanOK(platform)
  BY PlatformPlan
<1>x. OnX11'
  BY OnX11Next
<1> SUFFICES (ResourcesTypeOK /\ PointedTo /\ WayIn /\ WayOut /\ AtRest)'
  BY <1>x
<1>q. /\ Len(Setup[platform]) \in Nat /\ 1 <= Len(Setup[platform]) /\ Len(Setup[platform]) <= 6
      /\ Len(Teardown[platform]) \in Nat /\ 1 <= Len(Teardown[platform]) /\ Len(Teardown[platform]) <= 7
  BY <1>p DEF PlanOK
<1>1. CASE StartHook
  <2>1. /\ pc = "idle" /\ pc' = "acquire" /\ step' = 1 /\ platform' = platform /\ outcome' = outcome
        /\ held' = held \union ThreadOwns /\ named' = named \union ThreadOwns
        /\ ThreadOwns \subseteq {"run_loop"}
    BY <1>1 DEF StartHook, ThreadOwns
  <2>2. ResourcesTypeOK'
    <3>1. ThreadOwns \subseteq Resources
      BY <2>1 DEF Resources
    <3> QED
      BY <1>1, <1>q, <3>1 DEF StartHook, ResourcesTypeOK
  <2>3. PointedTo'
    BY <2>1 DEF PointedTo, Mine, Loans
  <2>4. WayIn'
    <3>1. CASE outcome = "leaked"
      <4>1. FoundAllocated'
        BY <3>1, <2>1 DEF AtRest, Leftover, FoundAllocated
      <4> QED
        BY <4>1 DEF WayIn
    <3>2. CASE outcome # "leaked"
      <4>1. held' \subseteq Loans
        BY <3>2, <2>1 DEF AtRest, Loans
      <4> QED
        BY <3>2, <4>1, <2>1 DEF WayIn
    <3> QED
      BY <3>1, <3>2
  <2> QED
    BY <2>1, <2>2, <2>3, <2>4 DEF WayOut, AtRest
<1>2. CASE Acquire
  <2>1. PICK got \in SUBSET Group :
          /\ held' = held \union got
          /\ named' = (named \ Group) \union got
          /\ IF Group \intersect Required \subseteq got THEN Succeed ELSE Fail
    BY <1>2 DEF Acquire
  <2>2. /\ pc = "acquire" /\ ~FoundAllocated
        /\ platform' = platform /\ loaded' = loaded
        /\ stopPc' = IF pc' = "loop" THEN "session" ELSE stopPc
        /\ misused' = misused \union {<<"hook_run", r>> : r \in BasesOf(Group) \ held}
    BY <1>2 DEF Acquire, Touch
  <2>3. step \in 1 .. Len(Setup[platform])
    BY <2>2, <1>q DEF ResourcesTypeOK
  <2>4. Group \subseteq Mine /\ Mine \subseteq Resources
    BY <2>3, <1>p DEF Group, Mine, PlanOK
  <2>5. BasesOf(Group) \subseteq Resources
    BY DEF BasesOf, Base, Resources, HelperTables, WindowsHandles
  <2>6. PointedTo'
    BY <2>1, <2>2, <2>4 DEF PointedTo, Mine
  <2>7. /\ held' \subseteq Loans \union Before(Setup[platform], step+1)
        /\ outcome # "leaked"
        /\ platform = "darwin" => "hook" \in named' \/ (step = 1 /\ ~(Group \intersect Required \subseteq got))
    <3>1. held' \subseteq Loans \union Before(Setup[platform], step+1)
      <4>1. Before(Setup[platform], step+1) = Before(Setup[platform], step) \union Group
        BY <1>p, <2>3, Places DEF Group
      <4> QED
        BY <4>1, <2>1, <2>2 DEF WayIn
    <3>2. ASSUME platform = "darwin" PROVE "hook" \in named' \/ (step = 1 /\ ~(Group \intersect Required \subseteq got))
      <4>1. CASE step = 1
        <5>1. "hook" \in Group
          BY <4>1, <3>2, <2>3, <1>p DEF Group, PlanOK
        <5>2. "hook" \in Required
          BY DEF Required, Resources, HelperTables
        <5> QED
          BY <4>1, <5>1, <5>2, <2>1
      <4>2. CASE step # 1
        <5>1. "hook" \notin Group
          BY <4>2, <3>2, <2>3, <1>p DEF Group, PlanOK
        <5>2. "hook" \in named
          BY <4>2, <3>2, <2>2, <2>3 DEF WayIn
        <5> QED
          BY <5>1, <5>2, <2>1
      <4> QED
        BY <4>1, <4>2
    <3> QED
      BY <3>1, <3>2, <2>2 DEF WayIn
  <2>8. misused' \subseteq {"hook_run", "hook_stop", "unload"} \X Resources /\ held' \subseteq Resources /\ named' \subseteq Resources
    BY <2>1, <2>2, <2>4, <2>5 DEF ResourcesTypeOK
  <2>9. CASE Group \intersect Required \subseteq got
    <3>1. Succeed
      BY <2>1, <2>9
    <3>2. CASE step < Len(Setup[platform])
      <4>1. pc' = "acquire" /\ step' = step + 1 /\ outcome' = outcome
        BY <3>1, <3>2 DEF Succeed
      <4>2. ResourcesTypeOK'
        <5>1. /\ step' \in 1..7
              /\ pc' = "acquire" => step' <= Len(Setup[platform'])
              /\ pc' = "release" => step' <= Len(Teardown[platform'])
          BY <4>1, <3>2, <2>2, <2>3, <1>q
        <5> QED
          BY <4>1, <2>2, <2>8, <5>1 DEF ResourcesTypeOK
      <4>3. WayIn'
        BY <4>1, <2>2, <2>3, <2>7, <2>9 DEF WayIn
      <4> QED
        BY <4>1, <4>2, <4>3, <2>6 DEF WayOut, AtRest
    <3>3. CASE ~(step < Len(Setup[platform]))
      <4>1. pc' = "loop" /\ step' = step /\ outcome' = "running"
        BY <3>1, <3>3 DEF Succeed
      <4>2. ResourcesTypeOK'
        BY <4>1, <2>2, <2>8 DEF ResourcesTypeOK
      <4> QED
        BY <4>1, <4>2, <2>6 DEF WayIn, WayOut, AtRest
    <3> QED
      BY <3>2, <3>3
  <2>10. CASE ~(Group \intersect Required \subseteq got)
    <3>1. Fail
      BY <2>1, <2>10
    <3>2. CASE platform = "windows"
      <4>1. pc' = "returned" /\ step' = step /\ outcome' = "failed"
        <5>1. Group # {"tis"}
          BY <3>2, <2>3, <1>p DEF Group, PlanOK
        <5> QED
          BY <3>1, <3>2, <5>1 DEF Fail
      <4>2. ResourcesTypeOK'
        BY <4>1, <2>2, <2>8 DEF ResourcesTypeOK
      <4>3. Group \intersect Required # {}
        BY <2>10
      <4>4. Before(Setup[platform], step+1) \subseteq WindowsHandles
        BY <4>3, <3>2, <2>3, <1>p DEF PlanOK, Group
      <4> QED
        BY <4>1, <4>2, <4>4, <2>6, <2>7 DEF WayIn, WayOut, AtRest
    <3>3. CASE platform # "windows" /\ Group = {"tis"}
      <4>1. pc' = "returned" /\ step' = step /\ outcome' = "leaked"
        BY <3>1, <3>3 DEF Fail
      <4>2. platform = "darwin" /\ step # 1
        BY <3>3, <2>3, <1>p DEF Group, PlanOK
      <4>3. ResourcesTypeOK'
        BY <4>1, <2>2, <2>8 DEF ResourcesTypeOK
      <4> QED
        BY <4>1, <4>2, <4>3, <2>2, <2>6, <2>7 DEF WayIn, WayOut, AtRest, Leftover
    <3>4. CASE platform # "windows" /\ Group # {"tis"}
      <4>1. pc' = "release" /\ step' = 1 /\ outcome' = "failed"
        BY <3>1, <3>4 DEF Fail
      <4>2. ResourcesTypeOK'
        <5>1. /\ step' \in 1..7
              /\ pc' = "acquire" => step' <= Len(Setup[platform'])
              /\ pc' = "release" => step' <= Len(Teardown[platform'])
          BY <4>1, <2>2, <1>q
        <5> QED
          BY <4>1, <2>2, <2>8, <5>1 DEF ResourcesTypeOK
      <4> QED
        BY <4>1, <4>2, <2>2, <2>6, <1>p, Places DEF WayIn, WayOut, AtRest
    <3> QED
      BY <3>2, <3>3, <3>4
  <2> QED
    BY <2>9, <2>10
<1>3. CASE Refuse
  <2>1. ResourcesTypeOK'
    BY <1>3, <1>q DEF Refuse, ResourcesTypeOK
  <2> QED
    BY <1>3, <1>p, <2>1, Places DEF Refuse, PointedTo, Mine, WayIn, WayOut, AtRest
<1>4. CASE HandleEvent
  <2>1. ResourcesTypeOK'
    BY <1>4 DEF HandleEvent, ResourcesTypeOK, Touch
  <2> QED
    BY <1>4, <2>1 DEF HandleEvent, PointedTo, Mine, WayIn, WayOut, AtRest, FoundAllocated
<1>5. CASE LoopEnds
  <2>1. ResourcesTypeOK'
    <3>1. /\ step' \in 1..7
          /\ pc' = "acquire" => step' <= Len(Setup[platform'])
          /\ pc' = "release" => step' <= Len(Teardown[platform'])
      <4>1. pc' = "release" /\ step' = 1 /\ platform' = platform
        BY <1>5 DEF LoopEnds
      <4> QED
        BY <4>1, <1>q
    <3> QED
      BY <1>5, <3>1 DEF LoopEnds, ResourcesTypeOK
  <2> QED
    BY <1>5, <1>p, <2>1, Places DEF LoopEnds, PointedTo, Mine, WayIn, WayOut, AtRest
<1>6. CASE Release
  <2> DEFINE gone == Teardown[platform][step] \intersect held
  <2>1. /\ pc = "release" /\ platform' = platform /\ loaded' = loaded
        /\ outcome' = outcome /\ stopPc' = stopPc
        /\ held' = held \ gone
        /\ named' = named \ (gone \ {"keyboard_map", "tis"})
        /\ misused' = misused \union {<<"hook_run", r>> : r \in BasesOf(gone) \ held}
    BY <1>6 DEF Release, Touch
  <2>2. step \in 1 .. Len(Teardown[platform])
    BY <2>1, <1>q DEF ResourcesTypeOK
  <2>3. held' \intersect Before(Teardown[platform], step+1) = {}
    BY <2>1, <2>2, <1>p, Places DEF WayOut
  <2>4. BasesOf(gone) \subseteq Resources
    BY DEF BasesOf, Base, Resources, HelperTables, WindowsHandles
  <2> HIDE DEF gone
  <2>5. PointedTo'
    BY <2>1 DEF PointedTo, Mine
  <2>6. held' \subseteq Resources /\ named' \subseteq Resources /\ misused' \subseteq {"hook_run", "hook_stop", "unload"} \X Resources
    BY <2>1, <2>4 DEF ResourcesTypeOK
  <2>7. CASE step < Len(Teardown[platform])
    <3>1. step' = step + 1 /\ pc' = pc
      BY <1>6, <2>7 DEF Release
    <3>2. ResourcesTypeOK'
      <4>1. /\ step' \in 1..7
            /\ pc' = "acquire" => step' <= Len(Setup[platform'])
            /\ pc' = "release" => step' <= Len(Teardown[platform'])
        BY <3>1, <2>1, <2>2, <2>7, <1>q
      <4> QED
        BY <3>1, <2>1, <2>6, <4>1 DEF ResourcesTypeOK
    <3> QED
      BY <3>1, <3>2, <2>1, <2>3, <2>5 DEF WayIn, WayOut, AtRest
  <2>8. CASE ~(step < Len(Teardown[platform]))
    <3>1. step' = step /\ pc' = "returned" /\ step = Len(Teardown[platform])
      BY <1>6, <2>2, <2>8, <1>p DEF Release, PlanOK
    <3>2. held' \intersect Mine = {}
      BY <3>1, <2>3, <1>p, Places DEF Mine
    <3>3. held' \subseteq Loans
      BY <3>2, <2>1 DEF PointedTo
    <3>4. ResourcesTypeOK'
      BY <3>1, <2>1, <2>6 DEF ResourcesTypeOK
    <3> QED
      BY <3>1, <3>3, <3>4, <2>1, <2>5 DEF WayIn, WayOut, AtRest
  <2> QED
    BY <2>7, <2>8
<1>7. CASE ThreadEnds
  <2>1. ResourcesTypeOK'
    BY <1>7 DEF ThreadEnds, ResourcesTypeOK
  <2>2. AtRest'
    BY <1>7 DEF ThreadEnds, AtRest, WayOut, Loans, Leftover
  <2> QED
    BY <1>7, <2>1, <2>2 DEF ThreadEnds, PointedTo, Mine, WayIn, WayOut
<1>8. CASE Stop
  <2> stopPc \in {"none", "session", "get_context", "disable", "sync", "joining"}
    BY DEF ResourcesTypeOK
  <2>1. PICK rs \in SUBSET StopTouches : Touch("hook_stop", rs)
    BY <1>8, StopUses
  <2>2. UNCHANGED <<platform, loaded, pc, step, held, named, outcome>>
        /\ stopPc' \in {"none", "session", "get_context", "disable", "sync", "joining"}
    BY <1>8, StopUses
  <2>3. ResourcesTypeOK'
    <3>1. StopTouches \subseteq Resources
      BY DEF StopTouches, Resources
    <3>2. misused' \subseteq {"hook_run", "hook_stop", "unload"} \X Resources
      BY <2>1, <3>1 DEF Touch, ResourcesTypeOK
    <3> QED
      BY <2>2, <3>2 DEF ResourcesTypeOK
  <2> QED
    BY <2>2, <2>3 DEF PointedTo, Mine, WayIn, WayOut, AtRest, FoundAllocated, Leftover
<1>9. CASE LibraryUnloads
  <2>1. /\ held' = held \ (WindowsHandles \union HelperTables \union {"helper_disp"})
        /\ named' = named \ (WindowsHandles \union {"button_map", "helper_disp"})
        /\ Touch("unload", named \intersect (WindowsHandles \union {"button_map", "helper_disp"}))
        /\ loaded' = FALSE
        /\ UNCHANGED <<platform, pc, step, outcome, stopPc>>
    BY <1>9 DEF LibraryUnloads
  <2>2. ResourcesTypeOK'
    <3>1. misused' \subseteq {"hook_run", "hook_stop", "unload"} \X Resources
      BY <2>1 DEF ResourcesTypeOK, Touch
    <3>2. held' \subseteq Resources /\ named' \subseteq Resources
      BY <2>1 DEF ResourcesTypeOK
    <3> QED
      BY <2>1, <3>1, <3>2 DEF ResourcesTypeOK
  <2>3. PointedTo'
    BY <2>1 DEF PointedTo, Mine, HelperTables
  <2>4. /\ "hook" \in named' <=> "hook" \in named
        /\ held' \subseteq held
    BY <2>1 DEF WindowsHandles
  <2> QED
    BY <2>1, <2>2, <2>3, <2>4 DEF WayIn, WayOut, AtRest, FoundAllocated, Leftover
<1>10. CASE UNCHANGED resourceVars
  BY <1>10 DEF resourceVars, ResourcesTypeOK, PointedTo, Mine, WayIn, WayOut, AtRest, FoundAllocated, Leftover
<1> QED
  BY <1>1, <1>2, <1>3, <1>4, <1>5, <1>6, <1>7, <1>8, <1>9, <1>10 DEF ResourcesNext, HookThread

\* At every place of hook_run() what is held is what the plan has taken and not yet
\* given back, or the leftover of the one leaking return (darwin/input_hook.c:1297).
THEOREM ResourcesBalance == ResourcesSpec => []Balance
  BY BalanceInit, BalanceNext, PTL DEF ResourcesSpec

\* Every variable of the model keeps its type, the places of both plans included.
THEOREM ResourcesTypeCorrect == ResourcesSpec => []ResourcesTypeOK
<1>1. Balance => ResourcesTypeOK
  BY DEF Balance
<1> QED
  BY <1>1, ResourcesBalance, PTL

\* Whatever call fails, hook_run() returns with nothing left installed or allocated and
\* no start refused after it, but for the one leaking return of macOS.
THEOREM AllGivenBack == ResourcesSpec => []NothingLeft
<1>1. Balance => NothingLeft
  BY DEF Balance, NothingLeft, AtRest, PointedTo, WindowsHandles
<1> QED
  BY <1>1, ResourcesBalance, PTL

-----------------------------------------------------------------------------
(* The order: what hook_run() holds at each place is enough for the calls  *)
(* it makes there.                                                         *)

\* On Windows there is no hook thread in a library that is unloaded.
Runs == loaded \/ platform # "windows"

\* What is lent to the hook thread: on macOS its run loop as long as it runs, on X11 the
\* helper's display, if it was ever opened and until the process exits.
Lent ==
  /\ platform = "darwin" /\ pc # "idle" => "run_loop" \in held
  /\ "helper_disp" \in named => "helper_disp" \in held

\* The uses that a missing display of the helper excuses.
Excused ==
  IF platform = "x11" /\ "helper_disp" \notin held THEN {"helper_disp", "keyboard_map"} ELSE {}

\* Nothing outlives what it was made on, but for what is only lent.
BasesHeld == Runs => \A r \in held : Base(r) \subseteq held \union Loans

\* On the way in, all that had to succeed is there and no pointer set so far is stale.
SoFar ==
  Runs /\ pc = "acquire" /\ ~FoundAllocated =>
    /\ Before(Setup[platform], step) \intersect Required \subseteq held
    /\ named \intersect Before(Setup[platform], step) \subseteq held \union Excused

\* The same of the whole plan, while events are handled.
AllOfIt ==
  Runs /\ pc = "loop" =>
    /\ Mine \intersect Required \subseteq held
    /\ named \intersect Mine \subseteq held \union Excused

\* The inductive invariant of UsedWhileHeld, together with Balance.
Sound == Lent /\ BasesHeld /\ SoFar /\ AllOfIt /\ UsedWhileHeld

\* A use of what is there, or excused, changes nothing of UsedWhileHeld.
LEMMA RunUses ==
  ASSUME UsedWhileHeld, NEW rs, Touch("hook_run", rs), rs \subseteq held \union Excused,
         platform' = platform, "helper_disp" \in held' => "helper_disp" \in held
  PROVE  UsedWhileHeld'
<1>1. misused' = misused \union {<<"hook_run", r>> : r \in rs \ held}
  BY DEF Touch
<1>2. MisusedBy("hook_run")' \subseteq MisusedBy("hook_run") \union Excused
  BY <1>1 DEF MisusedBy
<1>3. MisusedBy("hook_stop")' = MisusedBy("hook_stop") /\ MisusedBy("unload")' = MisusedBy("unload")
  BY <1>1 DEF MisusedBy
<1> QED
  BY <1>2, <1>3 DEF UsedWhileHeld, Excused

\* A step that uses nothing changes nothing of it either.
LEMMA NothingUsed ==
  ASSUME UsedWhileHeld, misused' = misused, platform' = platform,
         "helper_disp" \in held' => "helper_disp" \in held
  PROVE  UsedWhileHeld'
<1>1. \A u : MisusedBy(u)' = MisusedBy(u)
  BY DEF MisusedBy
<1> QED
  BY <1>1 DEF UsedWhileHeld

\* What a group to be given back was made on is there, or excused.
LEMMA BasesThere ==
  ASSUME platform \in Names, PlanOK(platform), Lent, BasesHeld, Runs, pc # "idle",
         NEW gone \in SUBSET (held \intersect Mine)
  PROVE  BasesOf(gone) \subseteq held \union Excused
<1>1. BasesOf(gone) \subseteq held \union Loans
  BY DEF BasesOf, BasesHeld
<1>2. BasesOf(gone) \subseteq Mine \union Loaned(platform)
  BY DEF BasesOf, PlanOK, Mine
<1>3. Mine \intersect Loans = {}
  BY DEF PlanOK, Mine
<1>4. Loaned(platform) \subseteq held \union Excused
  BY DEF Loaned, Lent, Excused
<1> QED
  BY <1>1, <1>2, <1>3, <1>4

\* The order holds before the first hook_run() ...
LEMMA SoundInit == ResourcesInit => Sound
<1> SUFFICES ASSUME ResourcesInit PROVE Sound
  OBVIOUS
<1>1. UsedWhileHeld
  <2>1. \A u : MisusedBy(u) = {}
    BY DEF ResourcesInit, MisusedBy
  <2> QED
    BY <2>1 DEF UsedWhileHeld
<1>2. BasesHeld
  BY DEF ResourcesInit, BasesHeld, Base, HelperTables
<1> QED
  BY <1>1, <1>2 DEF ResourcesInit, Sound, Lent, SoFar, AllOfIt

\* ... and every step keeps it.
LEMMA SoundNext ==
  ASSUME Balance, Sound, [ResourcesNext]_resourceVars
  PROVE  Sound'
<1> USE DEF Sound
<1>p. platform \in Names /\ PlanOK(platform) /\ ResourcesTypeOK /\ PointedTo /\ WayIn /\ WayOut /\ AtRest
  BY PlatformPlan DEF Balance
<1>1. CASE StartHook
  <2>1. /\ pc = "idle" /\ pc' = "acquire" /\ step' = 1 /\ platform' = platform /\ loaded' = loaded
        /\ held' = held \union ThreadOwns /\ named' = named \union ThreadOwns /\ misused' = misused
        /\ ThreadOwns \subseteq {"run_loop"} /\ (platform = "darwin" => "run_loop" \in ThreadOwns)
    BY <1>1 DEF StartHook, ThreadOwns
  <2>2. UsedWhileHeld'
    BY <2>1, NothingUsed
  <2>3. SoFar'
    BY <2>1, <1>p, Places DEF SoFar
  <2>4. BasesHeld'
    <3>1. Base("run_loop") = {}
      BY DEF Base, HelperTables
    <3> QED
      BY <2>1, <3>1 DEF BasesHeld, Runs
  <2> QED
    BY <2>1, <2>2, <2>3, <2>4 DEF Lent, AllOfIt
<1>2. CASE HookThread /\ Acquire
  <2>1. PICK got \in SUBSET Group :
          /\ held' = held \union got
          /\ named' = (named \ Group) \union got
          /\ IF Group \intersect Required \subseteq got THEN Succeed ELSE Fail
    BY <1>2 DEF Acquire
  <2>2. /\ pc = "acquire" /\ ~FoundAllocated
        /\ platform' = platform /\ loaded' = loaded
        /\ Touch("hook_run", BasesOf(Group))
        /\ Runs
    BY <1>2 DEF Acquire, HookThread, Runs
  <2>3. step \in 1 .. Len(Setup[platform])
    BY <2>2, <1>p DEF ResourcesTypeOK, PlanOK
  <2>4. Group \intersect Loans = {}
    BY <2>3, <1>p DEF Group, PlanOK
  <2>5. BasesOf(Group) \subseteq held \union Loaned(platform)
    BY <2>2, <2>3, <1>p DEF Group, PlanOK, SoFar
  <2>6. UsedWhileHeld'
    <3>1. Loaned(platform) \subseteq held \union Excused
      BY <2>2 DEF Loaned, Lent, Excused
    <3>2. BasesOf(Group) \subseteq held \union Excused
      BY <2>5, <3>1
    <3> QED
      BY <2>1, <2>2, <2>4, <3>2, RunUses DEF Loans
  <2>7. BasesHeld'
    <3>1. \A r \in got : Base(r) \subseteq BasesOf(Group)
      BY DEF BasesOf
    <3>2. Loaned(platform) \subseteq Loans
      BY DEF Loaned, Loans
    <3>3. \A r \in held : Base(r) \subseteq held \union Loans
      BY <2>2 DEF BasesHeld
    <3> QED
      BY <3>1, <3>2, <3>3, <2>1, <2>5 DEF BasesHeld
  <2>8. Lent'
    BY <2>1, <2>2, <2>4 DEF Lent, Loans
  <2>9. Excused' = Excused
    BY <2>1, <2>2, <2>4 DEF Excused, Loans
  <2>10. CASE Group \intersect Required \subseteq got
    <3>1. /\ Before(Setup[platform], step+1) \intersect Required \subseteq held'
          /\ named' \intersect Before(Setup[platform], step+1) \subseteq held' \union Excused'
      <4>1. Before(Setup[platform], step+1) = Before(Setup[platform], step) \union Group
        BY <2>3, <1>p, Places DEF Group
      <4>2. /\ Before(Setup[platform], step) \intersect Required \subseteq held
            /\ named \intersect Before(Setup[platform], step) \subseteq held \union Excused
        BY <2>2 DEF SoFar
      <4> QED
        BY <4>1, <4>2, <2>1, <2>9, <2>10
    <3>2. CASE step < Len(Setup[platform])
      <4>1. pc' = "acquire" /\ step' = step + 1
        BY <2>1, <2>10, <3>2 DEF Succeed
      <4> QED
        BY <4>1, <3>1, <2>2, <2>6, <2>7, <2>8 DEF SoFar, AllOfIt
    <3>3. CASE ~(step < Len(Setup[platform]))
      <4>1. pc' = "loop" /\ step = Len(Setup[platform])
        BY <2>1, <2>3, <2>10, <3>3, <1>p DEF Succeed, PlanOK
      <4>2. Mine' = Before(Setup[platform], step+1)
        BY <4>1, <2>2, <1>p, Places DEF Mine
      <4> QED
        BY <4>1, <4>2, <3>1, <2>6, <2>7, <2>8 DEF SoFar, AllOfIt
    <3> QED
      BY <3>2, <3>3
  <2>11. CASE ~(Group \intersect Required \subseteq got)
    <3>1. pc' \in {"returned", "release"}
      BY <2>1, <2>11 DEF Fail
    <3> QED
      BY <3>1, <2>6, <2>7, <2>8 DEF SoFar, AllOfIt
  <2> QED
    BY <2>10, <2>11
<1>3. CASE HookThread /\ (Refuse \/ LoopEnds)
  <2>1. /\ UNCHANGED <<platform, loaded, held, named, misused>>
        /\ pc # "idle" /\ pc' = "release"
    BY <1>3 DEF Refuse, LoopEnds
  <2>2. UsedWhileHeld'
    BY <2>1, NothingUsed
  <2> QED
    BY <2>1, <2>2 DEF Lent, BasesHeld, Runs, SoFar, AllOfIt
<1>4. CASE HookThread /\ HandleEvent
  <2>1. /\ UNCHANGED <<platform, loaded, pc, step, held, named, outcome>> /\ pc = "loop"
        /\ Touch("hook_run", named \intersect EventUses) /\ Runs
    BY <1>4 DEF HandleEvent, HookThread, Runs
  <2>2. named \intersect EventUses \subseteq held \union Excused
    <3>1. named \subseteq Loans \union Mine
      BY <1>p DEF PointedTo
    <3>2. named \intersect Mine \subseteq held \union Excused
      BY <2>1 DEF AllOfIt
    <3>3. named \intersect Loans \intersect EventUses \subseteq held
      BY DEF Lent, Loans, EventUses
    <3> QED
      BY <3>1, <3>2, <3>3
  <2>3. UsedWhileHeld'
    BY <2>1, <2>2, RunUses
  <2> QED
    BY <2>1, <2>3 DEF Lent, BasesHeld, Runs, SoFar, AllOfIt, Mine, Excused, FoundAllocated
<1>5. CASE HookThread /\ Release
  <2> DEFINE gone == Teardown[platform][step] \intersect held
  <2>1. /\ pc = "release" /\ platform' = platform /\ loaded' = loaded /\ Runs
        /\ held' = held \ gone
        /\ named' = named \ (gone \ {"keyboard_map", "tis"})
        /\ Touch("hook_run", BasesOf(gone))
        /\ pc' \in {"release", "returned"}
    BY <1>5 DEF Release, HookThread, Runs
  <2>2. step \in 1 .. Len(Teardown[platform])
    BY <2>1, <1>p DEF ResourcesTypeOK, PlanOK
  <2>3. Teardown[platform][step] \subseteq Mine /\ Mine \intersect Loans = {}
    <3>1. Teardown[platform][step] \subseteq Mine
      BY <2>2, <1>p, Places DEF Mine
    <3> QED
      BY <3>1, <1>p DEF Mine, PlanOK
  <2>4. UsedWhileHeld'
    <3>1. gone \in SUBSET (held \intersect Mine)
      BY <2>3
    <3>2. BasesOf(gone) \subseteq held \union Excused
      BY <3>1, <2>1, <1>p, BasesThere
    <3> QED
      BY <3>2, <2>1, RunUses
  <2>5. BasesHeld'
    <3>1. ASSUME NEW r \in held' PROVE Base(r) \intersect Teardown[platform][step] = {}
      <4>1. CASE r \in Loans
        BY <4>1 DEF Base, HelperTables, Loans
      <4>2. CASE r \notin Loans
        <5>1. r \in Mine
          BY <4>2, <2>1, <1>p DEF PointedTo
        <5>2. r \notin Before(Teardown[platform], step)
          BY <2>1, <1>p DEF WayOut
        <5> QED
          BY <5>1, <5>2, <2>2, <1>p DEF PlanOK, Mine
      <4> QED
        BY <4>1, <4>2
    <3>2. \A r \in held : Base(r) \subseteq held \union Loans
      BY <2>1 DEF BasesHeld
    <3> QED
      BY <3>1, <3>2, <2>1 DEF BasesHeld
  <2>6. Lent'
    BY <2>1, <2>3 DEF Lent, Loans
  <2> QED
    BY <2>1, <2>4, <2>5, <2>6 DEF SoFar, AllOfIt
<1>6. CASE HookThread /\ ThreadEnds
  <2>1. /\ held' = held \ (WindowsHandles \union {"run_loop"})
        /\ pc' = "idle" /\ UNCHANGED <<platform, loaded, named, misused>>
    BY <1>6 DEF ThreadEnds
  <2>2. UsedWhileHeld'
    BY <2>1, NothingUsed
  <2>3. \A r : Base(r) \intersect WindowsHandles = {}
    BY DEF Base, WindowsHandles, HelperTables
  <2>4. "helper_disp" \in held => "helper_disp" \in held'
    BY <2>1 DEF WindowsHandles
  <2>5. BasesHeld'
    BY <2>1, <2>3 DEF BasesHeld, Runs, Loans
  <2> QED
    BY <2>1, <2>2, <2>4, <2>5 DEF Lent, SoFar, AllOfIt
<1>7. CASE Stop
  <2> stopPc \in {"none", "session", "get_context", "disable", "sync", "joining"} /\ OnX11
    BY <1>p DEF ResourcesTypeOK, Balance
  <2>1. PICK rs \in SUBSET StopTouches : Touch("hook_stop", rs)
    BY <1>7, StopUses
  <2>2. UNCHANGED <<platform, loaded, pc, step, held, named, outcome>>
    BY <1>7, StopUses
  <2>3. /\ MisusedBy("hook_stop")' \subseteq MisusedBy("hook_stop") \union StopTouches
        /\ MisusedBy("hook_run")' = MisusedBy("hook_run") /\ MisusedBy("unload")' = MisusedBy("unload")
    BY <2>1 DEF Touch, MisusedBy
  <2>4. UsedWhileHeld'
    BY <2>2, <2>3 DEF UsedWhileHeld, StopTouches
  <2> QED
    BY <2>2, <2>4 DEF Lent, BasesHeld, Runs, SoFar, AllOfIt, Mine, Excused, FoundAllocated
<1>8. CASE LibraryUnloads
  <2> DEFINE lost == WindowsHandles \union HelperTables \union {"helper_disp"}
             cleared == WindowsHandles \union {"button_map", "helper_disp"}
  <2>1. /\ held' = held \ lost /\ named' = named \ cleared /\ loaded' = FALSE
        /\ misused' = misused \union {<<"unload", r>> : r \in (named \intersect cleared) \ held}
        /\ UNCHANGED <<platform, pc, step, outcome>>
    BY <1>8 DEF LibraryUnloads, Touch
  <2>2. (named \intersect cleared) \ held \subseteq IF platform = "windows" THEN WindowsHandles ELSE {}
    <3>1. (named \intersect cleared) \ held \subseteq WindowsHandles \intersect Mine
      BY <1>p DEF PointedTo, Lent, Loans, WindowsHandles
    <3>2. platform # "windows" => WindowsHandles \intersect Mine = {}
      BY <1>p DEF PlanOK, Mine
    <3> QED
      BY <3>1, <3>2
  <2>3. UsedWhileHeld'
    <3>1. /\ MisusedBy("unload")' \subseteq MisusedBy("unload") \union ((named \intersect cleared) \ held)
          /\ MisusedBy("hook_run")' = MisusedBy("hook_run")
          /\ MisusedBy("hook_stop")' = MisusedBy("hook_stop")
      BY <2>1 DEF MisusedBy
    <3> QED
      BY <3>1, <2>1, <2>2 DEF UsedWhileHeld
  <2>4. "run_loop" \notin lost
    BY DEF WindowsHandles, HelperTables
  <2>5. Lent'
    BY <2>1, <2>4 DEF Lent
  <2>6. BasesHeld'
    <3>1. \A r : Base(r) \intersect lost \subseteq Loans
      BY DEF Base, HelperTables, WindowsHandles, Loans
    <3> QED
      BY <3>1, <2>1 DEF BasesHeld, Runs
  <2>7. ASSUME Runs' PROVE /\ Mine' = Mine /\ Mine \intersect Required \intersect lost = {}
                           /\ Mine \intersect lost \subseteq cleared \union Excused'
                           /\ Excused \subseteq Excused' \union {"helper_disp"} /\ Runs
    <3>1. platform # "windows"
      BY <2>7, <2>1 DEF Runs
    <3>2. Mine \intersect WindowsHandles = {} /\ "helper_disp" \notin Mine
          /\ (platform # "x11" => Mine \intersect HelperTables = {})
      BY <3>1, <1>p DEF PlanOK, Mine, Loans
    <3>3. platform = "x11" => "keyboard_map" \in Excused'
      BY <2>1 DEF Excused
    <3>4. Excused \subseteq Excused'
      BY <2>1 DEF Excused
    <3> QED
      BY <2>1, <3>1, <3>2, <3>3, <3>4 DEF Mine, Required, HelperTables, Runs
  <2>8. SoFar'
    <3> SUFFICES ASSUME Runs', pc = "acquire", ~FoundAllocated'
                 PROVE  /\ Before(Setup[platform], step) \intersect Required \subseteq held'
                        /\ named' \intersect Before(Setup[platform], step) \subseteq held' \union Excused'
      BY <2>1 DEF SoFar
    <3>1. ~FoundAllocated
      BY <2>1 DEF FoundAllocated, WindowsHandles
    <3>2. Before(Setup[platform], step) \subseteq Mine
      <4>1. Len(Setup[platform]) \in Nat /\ step \in Nat /\ 1 <= step /\ step <= Len(Setup[platform])
        BY <1>p DEF ResourcesTypeOK, PlanOK
      <4>2. \A i \in 1 .. Len(Setup[platform]) : Before(Setup[platform], i) \subseteq Whole(Setup[platform])
        BY <1>p, Places
      <4>3. step \in 1 .. Len(Setup[platform])
        BY <4>1
      <4> QED
        BY <4>2, <4>3 DEF Mine
    <3>3. /\ Before(Setup[platform], step) \intersect Required \subseteq held
          /\ named \intersect Before(Setup[platform], step) \subseteq held \union Excused
      BY <3>1, <2>7 DEF SoFar
    <3> QED
      BY <3>2, <3>3, <2>1, <2>7
  <2>9. AllOfIt'
    BY <2>1, <2>7 DEF AllOfIt
  <2> QED
    BY <2>3, <2>5, <2>6, <2>8, <2>9
<1>9. CASE UNCHANGED resourceVars
  <2>1. UNCHANGED <<platform, loaded, pc, step, held, named, misused>>
    BY <1>9 DEF resourceVars
  <2>2. UsedWhileHeld'
    BY <2>1, NothingUsed
  <2> QED
    BY <2>1, <2>2 DEF Lent, BasesHeld, Runs, SoFar, AllOfIt, Mine, Excused, FoundAllocated
<1> QED
  BY <1>1, <1>2, <1>3, <1>4, <1>5, <1>6, <1>7, <1>8, <1>9 DEF ResourcesNext, HookThread

\* Whatever fails, whenever the loop ends, stop() is called or the process exits: hook_run()
\* uses nothing outside its life while the helper's display is there; hook_stop() may be
\* too late with `hook` and what it finds there (x11/input_hook.c:1079, 1081, 1092) or
\* with event_loop (darwin/input_hook.c:1419), and with nothing else; DllMain() unhooks
\* stale handles and no more.
THEOREM NothingMisused == ResourcesSpec => []UsedWhileHeld
<1>1. Balance /\ Sound /\ [ResourcesNext]_resourceVars => Sound'
  BY SoundNext
<1>2. Sound => UsedWhileHeld
  BY DEF Sound
<1> QED
  BY <1>1, <1>2, SoundInit, ResourcesBalance, PTL DEF ResourcesSpec

-----------------------------------------------------------------------------
(***************************************************************************)
(* KeysymSearch: the keysym searches are right on every table sorted by    *)
(* keysym, of any length, and for every input.                             *)
(***************************************************************************)

\* A table has rows from 0 to LastRow and nothing else, sorted by keysym.
Shape ==
  /\ LastRow \in Nat
  /\ DOMAIN table = 0..LastRow
  /\ \A i \in 0..LastRow :
       /\ table[i].keysym \in Latin1+1 .. Direct-1
       /\ table[i].unicode \in 1..CharRange-1
       /\ table[i] = [keysym |-> table[i].keysym, unicode |-> table[i].unicode]
  /\ \A i, j \in 0..LastRow : i < j => table[i].keysym < table[j].keysym

LEMMA TableShape == ASSUME table \in Tables PROVE Shape
<1>1. PICK n \in 1..MaxRows : table \in [0..n-1 -> Rows] /\ Sorted(table, n)
  BY DEF Tables
<1>2. DOMAIN table = 0..n-1 /\ n \in Nat /\ n >= 1
  BY <1>1, SearchAssumption
<1>3. LastRow = n-1
  <2>1. \A i \in DOMAIN table : i + 1 \notin DOMAIN table <=> i = n-1
    BY <1>2
  <2>2. n-1 \in DOMAIN table
    BY <1>2
  <2> QED
    BY <2>1, <2>2 DEF LastRow
<1>4. \A i \in 0..n-1 : table[i] \in Rows
  BY <1>1
<1> QED
  BY <1>1, <1>2, <1>3, <1>4 DEF Shape, Sorted, Rows

\* Before the search for a keysym has looked at it, a row can only be between min and
\* max; a character may be in a row it has passed.
Narrowed ==
  status = "searching" =>
    /\ Latin1 < input
    /\ fn = "keysym_to_unicode" =>
         /\ input < Direct
         /\ \A i \in 0..LastRow : i < min \/ max < i => table[i].keysym # input

SearchInv == SearchTypeOK /\ Narrowed /\ AnswersStandForInput

LEMMA SearchInvInit == SearchInit => SearchInv
<1> SUFFICES ASSUME SearchInit PROVE SearchInv
  OBVIOUS
<1>1. SearchTypeOK
  BY SearchAssumption DEF SearchInit, SearchTypeOK, Keysyms
<1> QED
  BY <1>1 DEF SearchInit, SearchInv, Narrowed, AnswersStandForInput

LEMMA SearchInvNext == SearchInv /\ [SearchNext]_searchVars => SearchInv'
<1> SUFFICES ASSUME SearchInv, [SearchNext]_searchVars
             PROVE  SearchInv'
  OBVIOUS
<1> USE DEF SearchInv
<1>c. /\ Latin1 \in Nat /\ Direct \in Nat /\ CharRange \in Nat /\ MaxRows \in Nat /\ MaxKeysym \in Nat
      /\ 0 < Latin1 /\ Latin1 < CharRange /\ CharRange <= Direct
  BY SearchAssumption
<1>s. Shape
  BY TableShape DEF SearchTypeOK
<1>t. /\ fn \in {"keysym_to_unicode", "unicode_to_keysym"}
      /\ input \in Nat /\ 0 < input
      /\ fn = "unicode_to_keysym" => input < CharRange
      /\ value \in Nat /\ min \in Int /\ max \in Int
  BY <1>c DEF SearchTypeOK, Keysyms, Characters
<1>1. CASE Call
  <2>1. SearchTypeOK'
    BY <1>1 DEF Call, SearchTypeOK, LastRow, Keysyms, Characters, Tables, Rows, Sorted
  <2> QED
    BY <1>1, <2>1 DEF Call, Narrowed, AnswersStandForInput
<1>2. CASE Shortcut
  <2>0. status = "called" /\ table' = table /\ fn' = fn /\ input' = input
    BY <1>2 DEF Shortcut
  <2>1. CASE input <= Latin1
    <3>1. status' = "found" /\ value' = input /\ min' = min /\ max' = max
      BY <1>2, <1>c, <1>t, <2>1 DEF Shortcut, Found
    <3>2. SearchTypeOK'
      BY <1>t, <2>0, <3>1 DEF SearchTypeOK, LastRow, Keysyms, Characters, Tables, Rows, Sorted
    <3> QED
      BY <1>c, <1>t, <2>0, <2>1, <3>1, <3>2 DEF Narrowed, AnswersStandForInput, StandsFor
  <2>2. CASE fn = "keysym_to_unicode" /\ input >= Direct
    <3>1. status' = "found" /\ value' = (input - Direct) % CharRange /\ min' = min /\ max' = max
      BY <1>2, <1>c, <1>t, <2>2 DEF Shortcut, Found
    <3>2. value' \in Nat /\ (input < Direct + CharRange => value' = input - Direct)
      BY <1>c, <1>t, <2>2, <3>1
    <3>3. SearchTypeOK'
      BY <1>t, <2>0, <3>1, <3>2 DEF SearchTypeOK, LastRow, Keysyms, Characters, Tables, Rows, Sorted
    <3>4. AnswersStandForInput'
      BY <1>c, <1>t, <2>0, <2>2, <3>1, <3>2 DEF AnswersStandForInput, StandsFor
    <3> QED
      BY <3>1, <3>3, <3>4 DEF Narrowed
  <2>3. CASE ~(input <= Latin1) /\ ~(fn = "keysym_to_unicode" /\ input >= Direct)
    <3>1. status' = "searching" /\ value' = value /\ min' = 0 /\ max' = LastRow
      BY <1>2, <2>3 DEF Shortcut, Found
    <3>2. SearchTypeOK'
      <4>1. LastRow' = LastRow
        BY <2>0 DEF LastRow
      <4>2. min' \in Int /\ max' \in Int /\ min' \in 0 .. LastRow+1 /\ max' \in -1 .. LastRow
        BY <1>s, <3>1 DEF Shape
      <4> QED
        BY <1>t, <2>0, <3>1, <4>1, <4>2 DEF SearchTypeOK, Keysyms, Characters, Tables, Rows, Sorted
    <3>3. LastRow' = LastRow
      BY <2>0 DEF LastRow
    <3>4. AnswersStandForInput'
      BY <3>1 DEF AnswersStandForInput
    <3>5. Latin1 < input /\ (fn = "keysym_to_unicode" => input < Direct)
      BY <1>c, <1>t, <2>3
    <3>6. \A i \in 0..LastRow : ~(i < 0 \/ LastRow < i)
      BY <1>s DEF Shape
    <3>7. Narrowed'
      BY <2>0, <3>1, <3>3, <3>5, <3>6 DEF Narrowed
    <3> QED
      BY <3>2, <3>4, <3>7
  <2> QED
    BY <2>1, <2>2, <2>3
<1>3. CASE Probe
  <2>0. /\ status = "searching" /\ max >= min
        /\ table' = table /\ fn' = fn /\ input' = input
        /\ min \in 0 .. LastRow+1 /\ max \in -1 .. LastRow
    BY <1>3 DEF Probe, SearchTypeOK
  <2>1. Mid \in 0..LastRow /\ min <= Mid /\ Mid <= max
    BY <1>s, <2>0, SMTT(30) DEF Mid, Shape
  <2>2. LastRow' = LastRow
    BY <2>0 DEF LastRow
  <2>3. table[Mid].keysym \in Nat /\ table[Mid].unicode \in Nat
    BY <1>c, <1>s, <2>1 DEF Shape
  <2>4. CASE Sought(Mid) < input /\ min' = GoUp(Mid) /\ UNCHANGED <<max, status, value>>
    <3>1. min' = Mid + 1 /\ max' = max /\ status' = "searching" /\ value' = value
      BY <2>0, <2>4 DEF GoUp
    <3>2. SearchTypeOK'
      <4>1. min' \in 0 .. LastRow+1 /\ min' \in Int
        BY <1>s, <2>1, <3>1 DEF Shape
      <4> QED
        BY <1>t, <2>0, <2>2, <3>1, <4>1 DEF SearchTypeOK, Keysyms, Characters, Tables, Rows, Sorted
    <3>3. ASSUME fn = "keysym_to_unicode", NEW i \in 0..LastRow, i < Mid + 1
          PROVE  table[i].keysym # input
      <4>1. table[Mid].keysym < input
        BY <3>3, <2>4 DEF Sought
      <4>2. i = Mid \/ i < Mid
        BY <3>3, <2>1, <1>s DEF Shape
      <4>3. table[i].keysym <= table[Mid].keysym
        BY <4>2, <2>1, <2>3, <1>s DEF Shape
      <4>4. table[i].keysym \in Nat
        BY <1>c, <1>s DEF Shape
      <4> QED
        BY <4>1, <4>3, <4>4, <2>3, <1>t
    <3>4. Narrowed'
      BY <2>0, <2>2, <3>1, <3>3 DEF Narrowed
    <3> QED
      BY <3>1, <3>2, <3>4 DEF AnswersStandForInput
  <2>5. CASE Sought(Mid) > input /\ max' = GoDown(Mid) /\ UNCHANGED <<min, status, value>>
    <3>1. max' = Mid - 1 /\ min' = min /\ status' = "searching" /\ value' = value
      BY <2>0, <2>5 DEF GoDown
    <3>2. SearchTypeOK'
      <4>1. max' \in -1 .. LastRow /\ max' \in Int
        BY <1>s, <2>1, <3>1 DEF Shape
      <4> QED
        BY <1>t, <2>0, <2>2, <3>1, <4>1 DEF SearchTypeOK, Keysyms, Characters, Tables, Rows, Sorted
    <3>3. ASSUME fn = "keysym_to_unicode", NEW i \in 0..LastRow, Mid - 1 < i
          PROVE  table[i].keysym # input
      <4>1. table[Mid].keysym > input
        BY <3>3, <2>5 DEF Sought
      <4>2. i = Mid \/ Mid < i
        BY <3>3, <2>1, <1>s DEF Shape
      <4>3. table[i].keysym >= table[Mid].keysym
        BY <4>2, <2>1, <2>3, <1>s DEF Shape
      <4>4. table[i].keysym \in Nat
        BY <1>c, <1>s DEF Shape
      <4> QED
        BY <4>1, <4>3, <4>4, <2>3, <1>t
    <3>4. Narrowed'
      BY <2>0, <2>2, <3>1, <3>3 DEF Narrowed
    <3> QED
      BY <3>1, <3>2, <3>4 DEF AnswersStandForInput
  <2>6. CASE Sought(Mid) = input /\ Found(Answer(Mid))
    <3>1. status' = "found" /\ value' = Answer(Mid) /\ min' = min /\ max' = max
      BY <2>6 DEF Found
    <3>2. table[Mid] = IF fn = "keysym_to_unicode" THEN [keysym |-> input, unicode |-> value']
                                                   ELSE [keysym |-> value', unicode |-> input]
      BY <1>s, <2>1, <2>6, <3>1 DEF Shape, Sought, Answer
    <3>3. value' \in Nat
      BY <2>3, <3>1 DEF Answer
    <3>4. SearchTypeOK'
      BY <1>t, <2>0, <3>1, <3>3 DEF SearchTypeOK, LastRow, Keysyms, Characters, Tables, Rows, Sorted
    <3>5. AnswersStandForInput'
      <4>1. Mid \in DOMAIN table
        BY <1>s, <2>1 DEF Shape
      <4>2. fn = "keysym_to_unicode" => StandsFor(input, value') /\ input < Direct + CharRange
        BY <1>c, <1>t, <2>0, <3>2, <4>1 DEF StandsFor, Narrowed
      <4>3. fn = "unicode_to_keysym" => StandsFor(value', input)
        BY <3>2, <4>1 DEF StandsFor
      <4> QED
        BY <1>t, <2>0, <3>1, <4>2, <4>3 DEF AnswersStandForInput, StandsFor
    <3> QED
      BY <3>1, <3>4, <3>5 DEF Narrowed
  <2> QED
    BY <1>3, <2>4, <2>5, <2>6 DEF Probe
<1>4. CASE NotFound
  <2>0. /\ status = "searching" /\ max < min
        /\ table' = table /\ fn' = fn /\ input' = input
    BY <1>4 DEF NotFound
  <2>1. CASE fn = "keysym_to_unicode"
    <3>1. status' = "absent" /\ min' = min /\ max' = max /\ value' = value
      BY <1>4, <2>1 DEF NotFound
    <3>2. SearchTypeOK'
      BY <1>t, <2>0, <3>1 DEF SearchTypeOK, LastRow, Keysyms, Characters, Tables, Rows, Sorted
    <3>3. \A i \in DOMAIN table : table[i].keysym # input
      BY <1>s, <1>t, <2>0, <2>1 DEF Narrowed, Shape
    <3>4. \A c \in Characters : ~StandsFor(input, c)
      <4>1. Latin1 < input /\ input < Direct
        BY <2>0, <2>1 DEF Narrowed
      <4>2. \A i \in DOMAIN table : \A c : table[i] # [keysym |-> input, unicode |-> c]
        BY <3>3
      <4> QED
        BY <1>c, <1>t, <4>1, <4>2 DEF StandsFor
    <3> QED
      BY <2>0, <3>1, <3>2, <3>4 DEF Narrowed, AnswersStandForInput, StandsFor, Characters
  <2>2. CASE fn # "keysym_to_unicode"
    <3>1. status' = "found" /\ value' = input + Direct /\ min' = min /\ max' = max
      BY <1>4, <2>2 DEF NotFound, Found
    <3>2. value' \in Nat /\ value' >= Direct /\ input = value' - Direct
      BY <1>c, <1>t, <3>1
    <3>3. SearchTypeOK'
      BY <1>t, <2>0, <3>1, <3>2 DEF SearchTypeOK, LastRow, Keysyms, Characters, Tables, Rows, Sorted
    <3>4. StandsFor(value', input)
      BY <3>2 DEF StandsFor
    <3> QED
      BY <1>t, <2>0, <2>2, <3>1, <3>3, <3>4 DEF Narrowed, AnswersStandForInput, StandsFor
  <2> QED
    BY <2>1, <2>2
<1>5. CASE Return
  <2>1. SearchTypeOK'
    BY <1>5 DEF Return, SearchTypeOK, LastRow, Keysyms, Characters, Tables, Rows, Sorted
  <2> QED
    BY <1>5, <2>1 DEF Return, Narrowed, AnswersStandForInput
<1>6. CASE UNCHANGED searchVars
  <2>1. SearchTypeOK'
    BY <1>6 DEF searchVars, locals, SearchTypeOK, LastRow, Keysyms, Characters, Tables, Rows, Sorted
  <2> QED
    BY <1>6, <2>1 DEF searchVars, locals, Narrowed, AnswersStandForInput, StandsFor, LastRow
<1> QED
  BY <1>1, <1>2, <1>3, <1>4, <1>5, <1>6 DEF SearchNext, SearchStep

\* The search never leaves the table (x11/input_helper.c:1520-1538).
THEOREM SearchTypeCorrect == SearchSpec => []SearchTypeOK
<1>1. SearchInv => SearchTypeOK
  BY DEF SearchInv
<1> QED
  BY <1>1, SearchInvInit, SearchInvNext, PTL DEF SearchSpec

\* Whatever the table sorted by keysym, the characters and keysyms answered belong to
\* what was asked, and no keysym of the table is missed.
THEOREM SearchAnswers == SearchSpec => []AnswersStandForInput
<1>1. SearchInv => AnswersStandForInput
  BY DEF SearchInv
<1> QED
  BY <1>1, SearchInvInit, SearchInvNext, PTL DEF SearchSpec

-----------------------------------------------------------------------------
(***************************************************************************)
(* WindowsHelper: the wheel, the dead key and the layout in use, for any   *)
(* size of a notch, any rotations and any layouts.                         *)
(***************************************************************************)

(* The wheel.                                                              *)

\* Division leaves less than the divisor.
LEMMA Division ==
  ASSUME NEW a \in Nat, NEW w \in Nat \ {0}
  PROVE  /\ a \div w \in Nat
         /\ a - w * (a \div w) \in 0 .. w-1
<1>1. a \div w \in Nat
  OBVIOUS
<1>2. a = w * (a \div w) + (a % w) /\ a % w \in 0 .. w-1
  OBVIOUS
<1> QED
  BY <1>1, <1>2

\* What is kept of a rotation is less than a notch, in the direction of the rotation.
LEMMA LessThanANotch ==
  ASSUME NEW a \in Int
  PROVE  /\ Quotient(a) \in Int /\ Remainder(a) \in Int
         /\ Remainder(a) \in -(WHEEL_DELTA - 1) .. WHEEL_DELTA - 1
         /\ a = WHEEL_DELTA * Quotient(a) + Remainder(a)
<1>w. WHEEL_DELTA \in Nat \ {0}
  BY HelperAssumption
<1>1. CASE a >= 0
  <2>1. a \in Nat /\ Quotient(a) = a \div WHEEL_DELTA
    BY <1>1 DEF Quotient
  <2>2. Quotient(a) \in Nat /\ a - WHEEL_DELTA * Quotient(a) \in 0 .. WHEEL_DELTA-1
    BY <1>w, <2>1, Division
  <2> QED
    BY <1>w, <2>2 DEF Remainder
<1>2. CASE ~(a >= 0)
  <2> DEFINE b == -a
  <2>1. b \in Nat /\ Quotient(a) = -(b \div WHEEL_DELTA) /\ a = -b
    BY <1>2 DEF Quotient
  <2>2. b \div WHEEL_DELTA \in Nat /\ b - WHEEL_DELTA * (b \div WHEEL_DELTA) \in 0 .. WHEEL_DELTA-1
    BY <1>w, <2>1, Division
  <2> HIDE DEF b
  <2>3. PICK q \in Nat : q = b \div WHEEL_DELTA
    BY <2>2
  <2>4. WHEEL_DELTA * (-q) = -(WHEEL_DELTA * q)
    BY <1>w
  <2>5. WHEEL_DELTA * q \in Int
    BY <1>w
  <2> QED
    BY <1>w, <2>1, <2>2, <2>3, <2>4, <2>5 DEF Remainder
<1> QED
  BY <1>1, <1>2

\* The wheel's rotation is the notches reported, of the inverted sign, and the rest
\* that is kept for the next one.
WheelInv ==
  /\ v_rotation \in -(WHEEL_DELTA - 1) .. WHEEL_DELTA - 1
  /\ turned \in Int /\ reported \in Int
  /\ turned + WHEEL_DELTA * reported = v_rotation

LEMMA WheelTurns ==
  ASSUME WheelInv, get_scroll_wheel_rotation
  PROVE  WheelInv'
<1>w. WHEEL_DELTA \in Nat \ {0} /\ Deltas \subseteq Nat /\ MaxTurned \in Nat
  BY HelperAssumption
<1>1. PICK d \in Deltas \union {-e : e \in Deltas} :
        /\ turned' = turned + d
        /\ v_rotation' = Remainder(v_rotation + d)
        /\ reported' = reported - Quotient(v_rotation + d)
  BY DEF get_scroll_wheel_rotation
<1>2. d \in Int
  BY <1>w
<1>3. v_rotation \in Int /\ v_rotation + d \in Int
  BY <1>w, <1>2 DEF WheelInv
<1> DEFINE a == v_rotation + d
           q == Quotient(v_rotation + d)
           r == Remainder(v_rotation + d)
<1>4. /\ q \in Int /\ r \in Int
      /\ r \in -(WHEEL_DELTA - 1) .. WHEEL_DELTA - 1
      /\ v_rotation + d = WHEEL_DELTA * q + r
  BY <1>3, LessThanANotch
<1>5. turned' = turned + d /\ v_rotation' = r /\ reported' = reported - q
  BY <1>1
<1> HIDE DEF a, q, r
<1>6. WHEEL_DELTA * (reported - q) = WHEEL_DELTA * reported - WHEEL_DELTA * q
  BY <1>w, <1>4 DEF WheelInv
<1>7. WHEEL_DELTA * reported \in Int /\ WHEEL_DELTA * q \in Int
  BY <1>w, <1>4 DEF WheelInv
<1>8. turned + d + (WHEEL_DELTA * reported - WHEEL_DELTA * q) = r
  BY <1>2, <1>3, <1>4, <1>7 DEF WheelInv
<1> QED
  BY <1>2, <1>4, <1>5, <1>6, <1>8 DEF WheelInv

\* However the rotations are split up, the notches reported are never a whole notch
\* away from the wheel (windows/input_helper.c:359).
THEOREM NoRotationLost == HelperSpec => []WheelAddsUp
<1>w. WHEEL_DELTA \in Nat \ {0}
  BY HelperAssumption
<1>1. HelperInit => WheelInv
  BY <1>w DEF HelperInit, WheelInv
<1>2. WheelInv /\ [HelperNext]_helperVars => WheelInv'
  <2> SUFFICES ASSUME WheelInv, [HelperNext]_helperVars PROVE WheelInv'
    OBVIOUS
  <2>1. CASE get_scroll_wheel_rotation
    BY <2>1, WheelTurns
  <2>2. CASE load_input_helper
    BY <2>2, <1>w DEF load_input_helper, WheelInv
  <2>3. CASE UNCHANGED wheelVars
    BY <2>3 DEF wheelVars, WheelInv
  <2> QED
    BY <2>1, <2>2, <2>3 DEF HelperNext, helperVars, InstallLayout, UninstallLayout, FocusChanges,
       unload_input_helper, keycode_to_unicode, RefreshCrashes
<1>3. WheelInv => WheelAddsUp
  BY DEF WheelInv, WheelAddsUp
<1> QED
  BY <1>1, <1>2, <1>3, PTL DEF HelperSpec

-----------------------------------------------------------------------------
(* The dead key.                                                           *)

\* From the load on, a pending dead key is of the layout in use or was carried over.
DeadKeyInv ==
  /\ hook # "off" /\ deadChar # NoLayout => deadChar = locale_current \/ carried
  /\ carried \in BOOLEAN

\* A dead key that is combined with a character of another layout than its own was
\* carried over by a refresh of the list or by a new session; a switch within the list
\* resets it, and so does the character that follows (windows/input_helper.c:701-710).
THEOREM DeadKeysStay == HelperSpec => []DeadKeyStaysHome
<1>1. HelperInit => DeadKeyInv
  BY DEF HelperInit, DeadKeyInv
<1>2. DeadKeyInv /\ [HelperNext]_helperVars => DeadKeyInv'
  <2> SUFFICES ASSUME DeadKeyInv, [HelperNext]_helperVars PROVE DeadKeyInv'
    OBVIOUS
  <2> USE DEF DeadKeyInv
  <2>1. CASE load_input_helper
    BY <2>1 DEF load_input_helper
  <2>2. CASE unload_input_helper
    BY <2>2 DEF unload_input_helper
  <2>3. CASE keycode_to_unicode
    <3>1. hook = "on" /\ hook' = "on"
      BY <2>3 DEF keycode_to_unicode
    <3>2. CASE Same
      BY <3>1, <3>2 DEF Same, Types
    <3>3. CASE Switch
      BY <3>1, <3>3 DEF Switch, Types
    <3>4. CASE Refresh
      BY <3>1, <3>4 DEF Refresh, Types
    <3> QED
      BY <2>3, <3>2, <3>3, <3>4 DEF keycode_to_unicode
  <2>4. CASE FocusChanges
    BY <2>4 DEF FocusChanges, localeVars
  <2>5. CASE RefreshCrashes
    BY <2>5 DEF RefreshCrashes, localeVars
  <2>6. CASE InstallLayout \/ UninstallLayout \/ get_scroll_wheel_rotation
    BY <2>6 DEF InstallLayout, UninstallLayout, get_scroll_wheel_rotation, localeVars
  <2>7. CASE UNCHANGED helperVars
    BY <2>7 DEF helperVars, localeVars
  <2> QED
    BY <2>1, <2>2, <2>3, <2>4, <2>5, <2>6, <2>7 DEF HelperNext
<1>3. DeadKeyInv => DeadKeyStaysHome
  BY DEF DeadKeyInv, DeadKeyStaysHome
<1> QED
  BY <1>1, <1>2, <1>3, PTL DEF HelperSpec

-----------------------------------------------------------------------------
(* The layout in use.                                                      *)

\* The current layout is in the list, which holds only layouts that could be loaded;
\* a key that has been typed since the focus changed has set it.
LayoutInv ==
  /\ installed \subseteq Layouts /\ own \in installed
  /\ focus \in installed \union {NoLayout}
  /\ locale_list \subseteq Layouts \ Broken
  /\ locale_current \in locale_list \union {NoLayout}
  /\ hook = "off" => typed = "no" /\ locale_current = NoLayout
  /\ KeysUseTheFocus

\* What a list that Windows gives leaves: it holds every installed layout that can be
\* loaded, so that the layout of the focus is found unless it cannot be.
LEMMA RefreshFindsTheFocus ==
  ASSUME LayoutInv, NEW current, ListComes(current)
  PROVE  /\ locale_list' \subseteq Layouts \ Broken
         /\ locale_current' \in locale_list' \union {NoLayout}
         /\ focus \notin Broken \union {NoLayout} => locale_current' = focus
         /\ focus \in Broken \union {NoLayout} /\ current = NoLayout => locale_current' = NoLayout
<1> DEFINE list == Kept \union Added
<1>1. locale_list' = list /\ locale_current' = AfterRefresh(current, list)
  BY DEF ListComes
<1>2. list = (locale_list \intersect installed) \union (installed \ (locale_list \union Broken))
  BY DEF Kept, Added
<1>3. /\ list \subseteq Layouts \ Broken
      /\ focus \in list <=> focus \notin Broken \union {NoLayout}
      /\ NoLayout \notin list
  BY <1>2, HelperAssumption DEF LayoutInv
<1> HIDE DEF list
<1>4. /\ AfterRefresh(current, list) \in list \union {NoLayout}
      /\ focus \in list => AfterRefresh(current, list) = focus
      /\ focus \notin list /\ current = NoLayout => AfterRefresh(current, list) = NoLayout
  BY <1>3 DEF AfterRefresh
<1> QED
  BY <1>1, <1>3, <1>4

\* However layouts come, go and change, a key is looked up in the layout of the window
\* that has the focus, or of the hook thread if that has none.  It is looked up in none
\* only if the layout cannot be loaded, or after a refresh that Windows gave no list
\* for, or that had no layout of the focus to look for.
THEOREM KeysFindTheirLayout == HelperSpec => []KeysUseTheFocus
<1>1. HelperInit => LayoutInv
  BY DEF HelperInit, LayoutInv, KeysUseTheFocus
<1>2. LayoutInv /\ [HelperNext]_helperVars => LayoutInv'
  <2> SUFFICES ASSUME LayoutInv, [HelperNext]_helperVars PROVE LayoutInv'
    OBVIOUS
  <2>1. CASE InstallLayout
    BY <2>1 DEF InstallLayout, LayoutInv, KeysUseTheFocus, Wanted, localeVars
  <2>2. CASE UninstallLayout
    BY <2>2 DEF UninstallLayout, LayoutInv, KeysUseTheFocus, Wanted, localeVars
  <2>3. CASE FocusChanges
    BY <2>3 DEF FocusChanges, LayoutInv, KeysUseTheFocus, localeVars
  <2>4. CASE load_input_helper
    <3>1. /\ locale_list' \subseteq Layouts \ Broken
          /\ locale_current' \in locale_list' \union {NoLayout}
      <4>1. CASE ListComes(locale_current)
        BY <4>1, RefreshFindsTheFocus
      <4>2. CASE ListFails(locale_current)
        BY <4>2 DEF ListFails, LayoutInv
      <4> QED
        BY <2>4, <4>1, <4>2 DEF load_input_helper, refresh_locale_list
    <3>2. typed' = "no" /\ hook' = "on"
      BY <2>4 DEF load_input_helper, LayoutInv
    <3> QED
      BY <2>4, <3>1, <3>2 DEF load_input_helper, LayoutInv, KeysUseTheFocus
  <2>5. CASE unload_input_helper
    BY <2>5 DEF unload_input_helper, LayoutInv, KeysUseTheFocus
  <2>6. CASE keycode_to_unicode
    <3>1. /\ hook' = "on" /\ UNCHANGED <<installed, focus, own>>
          /\ Wanted' = Wanted /\ Wanted \in installed /\ Wanted # NoLayout
      BY <2>6, HelperAssumption DEF keycode_to_unicode, Wanted, LayoutInv
    <3>2. CASE Same \/ Switch
      <4>1. /\ locale_current' = Wanted /\ typed' = "known" /\ locale_list' = locale_list
            /\ Wanted \in locale_list
        BY <3>1, <3>2 DEF Same, Switch, LayoutInv
      <4> QED
        BY <3>1, <4>1 DEF LayoutInv, KeysUseTheFocus
    <3>3. CASE ListComes(NoLayout) /\ typed' = IF focus = NoLayout THEN "blind" ELSE "known"
      <4>1. /\ locale_list' \subseteq Layouts \ Broken
            /\ locale_current' \in locale_list' \union {NoLayout}
        BY <3>3, RefreshFindsTheFocus
      <4>2. CASE focus = NoLayout
        <5>1. locale_current' = NoLayout /\ typed' = "blind"
          BY <3>3, <4>2, RefreshFindsTheFocus
        <5> QED
          BY <3>1, <4>1, <5>1 DEF LayoutInv, KeysUseTheFocus
      <4>3. CASE focus # NoLayout
        <5>1. Wanted = focus /\ locale_current' = IF focus \in Broken THEN NoLayout ELSE focus
          BY <3>3, <4>3, RefreshFindsTheFocus DEF Wanted
        <5> QED
          BY <3>1, <4>1, <5>1, <3>3, <4>3 DEF LayoutInv, KeysUseTheFocus
      <4> QED
        BY <4>2, <4>3
    <3>4. CASE ListFails(NoLayout) /\ typed' = "blind"
      BY <3>1, <3>4 DEF ListFails, LayoutInv, KeysUseTheFocus
    <3> QED
      BY <2>6, <3>2, <3>3, <3>4 DEF keycode_to_unicode, Refresh
  <2>7. CASE RefreshCrashes
    BY <2>7 DEF RefreshCrashes, LayoutInv, KeysUseTheFocus, localeVars
  <2>8. CASE get_scroll_wheel_rotation
    BY <2>8 DEF get_scroll_wheel_rotation, LayoutInv, KeysUseTheFocus, Wanted, localeVars
  <2>9. CASE UNCHANGED helperVars
    BY <2>9 DEF helperVars, LayoutInv, KeysUseTheFocus, Wanted, localeVars
  <2> QED
    BY <2>1, <2>2, <2>3, <2>4, <2>5, <2>6, <2>7, <2>8, <2>9 DEF HelperNext
<1>3. LayoutInv => KeysUseTheFocus
  BY DEF LayoutInv
<1> QED
  BY <1>1, <1>2, <1>3, PTL DEF HelperSpec
=============================================================================
