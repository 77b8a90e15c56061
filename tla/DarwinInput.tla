---------------------------- MODULE DarwinInput ----------------------------
(***************************************************************************)
(* The macOS back end, from the keyboard and mouse to the events it        *)
(* dispatches: darwin/input_hook.c's hook_event_proc() and its file-level  *)
(* variables, of which hook_run() resets only current_modifiers.           *)
(*                                                                         *)
(* An event tap is asked before the event goes on to the applications, and *)
(* everything the hook looks at is in the event, so what the user does and *)
(* what the hook makes of it are one step.  A tap that took too long is    *)
(* switched off by the system until the hook hears of it and switches it   *)
(* on again; what happens in between is lost.                              *)
(***************************************************************************)
EXTENDS InputEvents

CONSTANTS
    Keys,            \* the modifier keys that the model presses
    Buttons,         \* the mouse buttons, from 1; 3 is the middle one
    TapMayTimeOut,   \* the system may switch the tap off
    MultiClickTime,  \* hook_get_multi_click_time()
    ClickLimit,      \* USHRT_MAX, where the click count saturates
    MaxTime          \* bound: the clock

ASSUME DarwinAssumption ==
    /\ Keys \subseteq ModifierKeys
    /\ Buttons \subseteq Nat \ {0}
    /\ TapMayTimeOut \in BOOLEAN
    /\ {MultiClickTime, MaxTime} \subseteq Nat
    /\ ClickLimit \in Nat \ {0}

VARIABLES
    now, heldKeys, heldButtons, capsOn,   \* the user and the clock
    hook,              \* "off"; "ready": initialize_modifiers() is done; "on"
    tapEnabled,        \* the system asks the tap
    currentModifiers, mouseDragged, click,
    dispatched,        \* what the step just taken has passed to dispatch_event()
    stale,             \* history: bits whose last change the hook did not hear of
    presses,           \* history: presses heard since the wheel last turned
    down,              \* history: buttons whose press, and no change since, was heard
    moved              \* history: those of them dragged since

userVars == <<now, heldKeys, heldButtons, capsOn>>
historyVars == <<presses, down, moved>>
hookVars == <<currentModifiers, mouseDragged, click, stale, historyVars>>
vars == <<userVars, hook, tapEnabled, hookVars, dispatched>>

-----------------------------------------------------------------------------
Heard == hook = "on" /\ tapEnabled

Event(type, bits, button, clicks) ==
    [type |-> type, mask |-> bits, button |-> button, clicks |-> clicks]

\* No dispatcher of this program marks an event consumed (event.reserved = 1).
Dispatch(events) == dispatched' = events
DispatchNothing == Dispatch(<<>>)

(* The user does something that the tap is not asked about. *)
Unheard(bits, buttons) ==
    /\ ~Heard
    /\ DispatchNothing
    /\ stale' = stale \cup bits
    /\ down' = down \ buttons
    /\ moved' = moved \ buttons
    /\ UNCHANGED <<currentModifiers, mouseDragged, click, presses>>

-----------------------------------------------------------------------------
(* Keys.                                                                   *)

Pair(k) == CHOOSE p \in {{"SHIFT_L", "SHIFT_R"}, {"CTRL_L", "CTRL_R"},
                         {"ALT_L", "ALT_R"}, {"META_L", "META_R"}} : k \in p

Typed(bits) == {[i \in 1..n |-> Event("KEY_TYPED", bits, 0, 0)] : n \in 0..2}

process_key_pressed(bits) ==
    \E typed \in Typed(bits) : Dispatch(<<Event("KEY_PRESSED", bits, 0, 0)>> \o typed)
process_key_released(bits) == Dispatch(<<Event("KEY_RELEASED", bits, 0, 0)>>)

(* Defective variant: the released key keeps its bit. *)
ModifierSticks(k, flag) ==
    /\ currentModifiers' = currentModifiers \cup {k}
    /\ IF flag THEN process_key_pressed(currentModifiers')
               ELSE process_key_released(currentModifiers')

\* The event has one flag for both keys of a pair; the hook takes a set flag for
\* a press of the key that changed, whichever way it did.
process_modifier_changed(k, flag) ==
    \/ /\ flag
       /\ currentModifiers' = currentModifiers \cup {k}
       /\ process_key_pressed(currentModifiers')
    \/ /\ ~flag
       /\ currentModifiers' = currentModifiers \ {k}
       /\ process_key_released(currentModifiers')

FlagsChanged(k) ==
    /\ heldKeys' = Differ(heldKeys, {k})
    /\ \/ /\ Heard
          /\ process_modifier_changed(k, Pair(k) \cap heldKeys' # {})
          /\ stale' = stale \ {k}
          /\ UNCHANGED <<mouseDragged, click, historyVars>>
       \/ Unheard({k}, {})
    /\ UNCHANGED <<now, heldButtons, capsOn, hook, tapEnabled>>

(* Defective variant: caps lock is taken for down as long as the key is. *)
CapsIsHeld == currentModifiers \cup {"CAPS_LOCK"}

\* The hook keeps its own account of caps lock: every change toggles the bit.
CapsToggled == Differ(currentModifiers, {"CAPS_LOCK"})

CapsLockChanged ==
    /\ capsOn' = ~capsOn
    /\ \/ /\ Heard
          /\ currentModifiers' = CapsToggled
          /\ DispatchNothing
          /\ UNCHANGED <<mouseDragged, click, stale, historyVars>>
       \/ Unheard({"CAPS_LOCK"}, {})
    /\ UNCHANGED <<now, heldKeys, heldButtons, hook, tapEnabled>>

\* Any other key, the ones that arrive as system events included; of those, some
\* are passed over.
OtherKey ==
    /\ Heard
    /\ \/ process_key_pressed(currentModifiers)
       \/ process_key_released(currentModifiers)
       \/ DispatchNothing
    /\ UNCHANGED <<userVars, hook, tapEnabled, currentModifiers, mouseDragged, click,
                   stale, historyVars>>

-----------------------------------------------------------------------------
(* Mouse.                                                                  *)

\* The bits that OtherMouseDown sets for buttons 4 and 5: the code passes the
\* numbers MOUSE_BUTTON4 and MOUSE_BUTTON5 where a mask is expected.
ButtonMask(b) ==
    IF b \in 1..2 THEN {ButtonBit[b]}
    ELSE IF b = 4 THEN {"META_L"}
    ELSE IF b = 5 THEN {"META_L", "SHIFT_L"}
    ELSE {}

TooLate == now > click.time + MultiClickTime

(* Defective variants: at its limit the count starts anew; it has no limit. *)
NextClickWraps(b) ==
    IF b = click.button /\ ~TooLate /\ click.count < ClickLimit
    THEN [click EXCEPT !.count = @ + 1, !.time = now]
    ELSE [count |-> 1, time |-> now, button |-> b]

NextClickUnlimited(b) ==
    IF b = click.button /\ ~TooLate
    THEN [count |-> click.count + 1, time |-> now, button |-> b]
    ELSE [count |-> 1, time |-> now, button |-> b]

NextClick(b) ==
    IF b = click.button /\ ~TooLate
    THEN [count  |-> IF click.count < ClickLimit THEN click.count + 1 ELSE click.count,
          time   |-> now,
          button |-> b]
    ELSE [count |-> 1, time |-> now, button |-> b]

process_button_pressed(b) ==
    /\ click' = NextClick(b)
    /\ Dispatch(<<Event("MOUSE_PRESSED", currentModifiers', b, click'.count)>>)
    /\ presses' = LastFew(Append(presses, [button |-> b, time |-> now]), ClickLimit)
    /\ UNCHANGED mouseDragged

(* Defective variant: the drag flag is not asked. *)
IsClickAlways == TRUE

IsClick == ~mouseDragged

process_button_released(b) ==
    /\ LET e(type) == Event(type, currentModifiers', b, click.count) IN
       Dispatch(<<e("MOUSE_RELEASED")>> \o IF IsClick THEN <<e("MOUSE_CLICKED")>> ELSE <<>>)
    /\ click' = IF TooLate THEN [click EXCEPT !.count = 0] ELSE click
    /\ UNCHANGED <<mouseDragged, presses>>

MouseDown(b) ==
    /\ b \notin heldButtons
    /\ heldButtons' = heldButtons \cup {b}
    /\ \/ /\ Heard
          /\ currentModifiers' = currentModifiers \cup ButtonMask(b)
          /\ process_button_pressed(b)
          /\ stale' = stale \ ButtonMask(b)
          /\ down' = down \cup {b}
          /\ moved' = moved \ {b}
       \/ Unheard(Shown({}, {b}), {b})
    /\ UNCHANGED <<now, heldKeys, capsOn, hook, tapEnabled>>

\* OtherMouseUp calls process_button_pressed().
MouseUp(b) ==
    /\ b \in heldButtons
    /\ heldButtons' = heldButtons \ {b}
    /\ \/ /\ Heard
          /\ currentModifiers' = currentModifiers \ ButtonMask(b)
          /\ IF b \in 1..2 THEN process_button_released(b) ELSE process_button_pressed(b)
          /\ stale' = stale \ ButtonMask(b)
          /\ down' = down \ {b}
          /\ moved' = moved \ {b}
       \/ Unheard(Shown({}, {b}), {b})
    /\ UNCHANGED <<now, heldKeys, capsOn, hook, tapEnabled>>

\* The system says whether a motion is a drag, of any button.
MouseMoved ==
    /\ Heard
    /\ mouseDragged' = (heldButtons # {})
    /\ click' = IF click.count # 0 /\ TooLate THEN [click EXCEPT !.count = 0] ELSE click
    /\ Dispatch(<<Event(IF mouseDragged' THEN "MOUSE_DRAGGED" ELSE "MOUSE_MOVED",
                        currentModifiers, 0, click'.count)>>)
    /\ moved' = down
    /\ UNCHANGED <<userVars, hook, tapEnabled, currentModifiers, stale, presses, down>>

\* The run of clicks ends even if neither axis has turned.
ScrollWheel ==
    /\ Heard
    /\ click' = [click EXCEPT !.count = 1, !.button = 0]
    /\ \/ Dispatch(<<Event("MOUSE_WHEEL", currentModifiers, 0, 1)>>)
       \/ DispatchNothing
    /\ presses' = <<>>
    /\ UNCHANGED <<userVars, hook, tapEnabled, currentModifiers, mouseDragged, stale,
                   down, moved>>

-----------------------------------------------------------------------------
(* The tap and the run loop.                                               *)

TapTimesOut ==
    /\ TapMayTimeOut
    /\ Heard
    /\ tapEnabled' = FALSE
    /\ DispatchNothing
    /\ UNCHANGED <<userVars, hook, currentModifiers, mouseDragged, click, stale, historyVars>>

\* kCGEventTapDisabledByTimeout.
TapDisabledByTimeout ==
    /\ hook = "on"
    /\ ~tapEnabled
    /\ tapEnabled' = TRUE
    /\ DispatchNothing
    /\ UNCHANGED <<userVars, hook, currentModifiers, mouseDragged, click, stale, historyVars>>

\* hook_run() up to CFRunLoopRun().
Initialize ==
    /\ hook = "off"
    /\ hook' = "ready"
    /\ tapEnabled' = TRUE
    /\ currentModifiers' = Shown(heldKeys, heldButtons)
                           \cup (IF capsOn THEN {"CAPS_LOCK"} ELSE {})
    /\ stale' = {}
    /\ DispatchNothing
    /\ UNCHANGED <<userVars, mouseDragged, click, historyVars>>

\* hook_status_proc(), kCFRunLoopEntry and kCFRunLoopExit.
RunLoopEntry ==
    /\ hook = "ready"
    /\ hook' = "on"
    /\ Dispatch(<<Event("HOOK_ENABLED", {}, 0, 0)>>)
    /\ UNCHANGED <<userVars, tapEnabled, currentModifiers, mouseDragged, click, stale, historyVars>>

RunLoopExit ==
    /\ hook = "on"
    /\ hook' = "off"
    /\ Dispatch(<<Event("HOOK_DISABLED", {}, 0, 0)>>)
    /\ UNCHANGED <<userVars, tapEnabled, currentModifiers, mouseDragged, click, stale, historyVars>>

Tick ==
    /\ now < MaxTime
    /\ now' = now + 1
    /\ DispatchNothing
    /\ UNCHANGED <<heldKeys, heldButtons, capsOn, hook, tapEnabled, currentModifiers,
                   mouseDragged, click, stale, historyVars>>

-----------------------------------------------------------------------------
DarwinInit ==
    /\ now = 0
    /\ heldKeys \in SUBSET Keys
    /\ heldButtons \in SUBSET Buttons
    /\ capsOn \in BOOLEAN
    /\ hook = "off"
    /\ tapEnabled = TRUE
    /\ currentModifiers = {}
    /\ mouseDragged = FALSE
    /\ click = [count |-> 0, time |-> 0, button |-> 0]
    /\ dispatched = <<>>
    /\ stale = {}
    /\ presses = <<>>
    /\ down = {}
    /\ moved = {}

DarwinNext ==
    \/ \E k \in Keys : FlagsChanged(k)
    \/ CapsLockChanged \/ OtherKey
    \/ \E b \in Buttons : MouseDown(b) \/ MouseUp(b)
    \/ MouseMoved \/ ScrollWheel
    \/ TapTimesOut \/ TapDisabledByTimeout
    \/ Initialize \/ RunLoopEntry \/ RunLoopExit
    \/ Tick

DarwinSpec == DarwinInit /\ [][DarwinNext]_vars

-----------------------------------------------------------------------------
(* Properties.                                                             *)

InputKinds == {"KEY_PRESSED", "KEY_TYPED", "KEY_RELEASED", "MOUSE_WHEEL", "MOUSE_PRESSED",
               "MOUSE_RELEASED", "MOUSE_CLICKED", "MOUSE_MOVED", "MOUSE_DRAGGED"}

\* Every variable has its type; in particular the click count of
\* darwin/input_hook.c never runs past what its unsigned short can hold.
DarwinTypeOK ==
    /\ now \in 0..MaxTime
    /\ heldKeys \subseteq Keys /\ heldButtons \subseteq Buttons
    /\ {capsOn, tapEnabled, mouseDragged} \subseteq BOOLEAN
    /\ hook \in {"off", "ready", "on"}
    /\ currentModifiers \subseteq MaskBits
    /\ click \in [count : 0..ClickLimit, time : 0..MaxTime, button : Buttons \cup {0}]
    /\ stale \subseteq MaskBits
    /\ Len(presses) <= ClickLimit
    /\ moved \subseteq down /\ down \subseteq heldButtons

\* The modifier and button bits of every event are those of the keys and buttons
\* that are down, across restarts of the hook and time-outs of the tap; only a
\* bit whose last change the hook did not hear of may be wrong, until that key or
\* button changes again.
MaskShowsInput ==
    [][\A i \in DOMAIN dispatched' :
         dispatched'[i].type \in InputKinds =>
            Differ(dispatched'[i].mask, Shown(heldKeys', heldButtons')) \ LockKeys
                \subseteq stale']_vars

\* The caps lock bit, which the hook only ever toggles, is the keyboard's, as
\* long as the hook has heard of every change since it was started.
CapsLockFollows ==
    hook = "on" /\ "CAPS_LOCK" \notin stale => (("CAPS_LOCK" \in currentModifiers) <=> capsOn)

\* The click number of a press is the length of the run of presses that it ends,
\* although click_count, click_time and click_button survive a restart.
ClicksCountTheRun ==
    \A i \in DOMAIN dispatched :
        dispatched[i].type = "MOUSE_PRESSED" =>
            dispatched[i].clicks = RunLength(presses, MultiClickTime)

\* No click is reported for a button with which the pointer was dragged, although
\* mouse_dragged is one flag for all buttons and survives a restart.
ClickedWithoutDrag ==
    [][\A i \in DOMAIN dispatched' :
         dispatched'[i].type = "MOUSE_CLICKED" => dispatched'[i].button \notin moved]_vars

\* Whenever a key or a button goes up and the tap is asked, a listener is told
\* that it was released.
ReleasesAreReported ==
    [][Heard /\ (~(heldKeys \subseteq heldKeys') \/ ~(heldButtons \subseteq heldButtons')) =>
         dispatched'[1].type \in {"KEY_RELEASED", "MOUSE_RELEASED"}]_vars

=============================================================================
