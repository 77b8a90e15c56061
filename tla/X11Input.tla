------------------------------ MODULE X11Input ------------------------------
(***************************************************************************)
(* The X11 back end, from the keyboard and mouse to the events it          *)
(* dispatches: x11/input_hook.c's hook_event_proc() and what it remembers  *)
(* between events (modifier mask, drag flag, click run), and               *)
(* button_map_lookup() of input_helper.c.                                  *)
(*                                                                         *)
(* The X server runs ahead of the hook: it records device events into a    *)
(* stream, in order, with its own time stamps, and the hook reads them     *)
(* later.  The lock LEDs and the pointer mapping are not in that stream:   *)
(* the hook asks the server for them when it gets to an event.             *)
(***************************************************************************)
EXTENDS InputEvents

CONSTANTS
    Keys,            \* the keys of the keyboard that the model presses
    Buttons,         \* the buttons of the mouse, by X number; 4..7 are the wheel
    ButtonsAtStart,  \* the buttons that may be down when the hook starts
    MappingChanges,  \* the user may switch between right- and left-handed mouse
    QueriesMayFail,  \* XQueryPointer and XkbGetIndicatorState may fail
    MultiClickTime,  \* hook_get_multi_click_time()
    ClickLimit,      \* USHRT_MAX, where the click count saturates
    MaxTime,         \* bound: the server's clock
    MaxPending       \* bound: recorded events the hook has not read yet

Wheel == 4..7

ASSUME InputAssumption ==
    /\ Keys \subseteq STRING /\ Keys \cap (ButtonBits \cup {"LOCKS", "MAPPING"}) = {}
    /\ Buttons \subseteq Nat \ {0}
    /\ ButtonsAtStart \subseteq Buttons \ Wheel
    /\ {MappingChanges, QueriesMayFail} \subseteq BOOLEAN
    /\ {MultiClickTime, MaxTime, MaxPending} \subseteq Nat
    /\ ClickLimit \in Nat \ {0}

VARIABLES
    \* the X server and the user
    now, heldKeys, heldButtons, leds, leftHanded,
    pending,      \* recorded events, oldest first
    \* the hook
    recording,    \* "off"; "ready": initialize_modifiers() is done; "on"; "ending":
                  \* disabled, the rest of the stream still to be read
    mask,         \* hook->input.mask, as a set of bits
    isDragged,    \* hook->input.mouse.is_dragged
    click,        \* hook->input.mouse.click
    dispatched,   \* what the step just taken has passed to dispatch_event()
    \* history
    stale,        \* bits (and "LOCKS") whose last change was not recorded;
                  \* "MAPPING" once the mapping has changed under the hook
    presses,      \* the newest ClickLimit presses reported since the wheel last turned
    down,         \* buttons whose press has been read, and not yet their release
    moved         \* those of them with a motion since

serverVars == <<now, heldKeys, heldButtons, leds, leftHanded>>
clickVars == <<isDragged, click>>
historyVars == <<presses, down, moved>>
vars == <<serverVars, pending, recording, mask, clickVars, dispatched, stale, historyVars>>

-----------------------------------------------------------------------------
(* Buttons.                                                                *)

\* The server's pointer mapping: a left-handed mouse exchanges 1 and 3.
Logical(b) == IF leftHanded /\ b \in {1, 3} THEN 4 - b ELSE b

\* X11 numbers the right and the middle button the other way round.
Swap23(b) == IF b \in {2, 3} THEN 5 - b ELSE b

button_map_lookup(b) == Swap23(Logical(b))

\* The uiohook button of a looked-up X button; 0 is MOUSE_NOBUTTON.
MouseButton(m) == IF m \in 1..3 THEN m ELSE IF m \in {8, 9} THEN m - 4 ELSE 0

\* The mask bit of a looked-up X button, set by its press and cleared by its
\* release: XButton1 and XButton2 both use MASK_BUTTON5.
PressBits(m) ==
    IF m \in 1..3 THEN {ButtonBit[m]} ELSE IF m \in {8, 9} THEN {"BUTTON5"} ELSE {}

(* Defective variant: only the right and the middle button's bits are cleared. *)
ReleaseTwoOnly(m) == PressBits(m) \ {"BUTTON1"}

ReleaseBits(m) == PressBits(m)

\* What a listener should see: the bits of the keys and buttons that are down.
ShownNow(keys, buttons) == Shown(keys, {MouseButton(button_map_lookup(b)) : b \in buttons})

-----------------------------------------------------------------------------
(* The server.  A change is recorded once the context is enabled, with the *)
(* time and, for the properties, the bits that are down after it; before   *)
(* that nobody hears of it, and those bits are stale.                      *)

Record(type, key, button, keys, buttons) ==
    /\ heldKeys' = keys
    /\ heldButtons' = buttons
    /\ Len(pending) < MaxPending
    /\ pending' = IF recording = "on"
                  THEN Append(pending, [type |-> type, key |-> key, button |-> button,
                                        time |-> now, shown |-> ShownNow(keys, buttons)])
                  ELSE pending
    /\ dispatched' = <<>>
    /\ UNCHANGED <<now, leftHanded, recording, mask, clickVars, historyVars>>

Unheard(bits) == stale' = IF recording = "on" THEN stale ELSE stale \cup bits

\* A press of a lock key turns its LED on; the press or the release may turn
\* it off again.
LedsAfter(k) ==
    IF k \in LockKeys THEN leds' \in {leds, leds \cup {k}, leds \ {k}} ELSE leds' = leds

\* The key goes down, or auto-repeats.
KeyDown(k) ==
    /\ LedsAfter(k)
    /\ Unheard({k, "LOCKS"})
    /\ Record("KeyPress", k, 0, heldKeys \cup {k}, heldButtons)

KeyUp(k) ==
    /\ k \in heldKeys
    /\ LedsAfter(k)
    /\ Unheard({k, "LOCKS"})
    /\ Record("KeyRelease", k, 0, heldKeys \ {k}, heldButtons)

ButtonDown(b) ==
    /\ b \notin heldButtons
    /\ Unheard(ShownNow({}, {b}))
    /\ Record("ButtonPress", "", b, heldKeys, heldButtons \cup {b})
    /\ UNCHANGED leds

ButtonUp(b) ==
    /\ b \in heldButtons
    /\ Unheard(ShownNow({}, {b}))
    /\ Record("ButtonRelease", "", b, heldKeys, heldButtons \ {b})
    /\ UNCHANGED leds

PointerMoves ==
    /\ recording = "on"
    /\ Record("MotionNotify", "", 0, heldKeys, heldButtons)
    /\ UNCHANGED <<leds, stale>>

\* Another client switches a lock on or off: the LEDs change, no key event.
LedsChange ==
    /\ \E l \in LockKeys \cap Keys : leds' \in {leds \cup {l}, leds \ {l}} \ {leds}
    /\ stale' = stale \cup {"LOCKS"}
    /\ dispatched' = <<>>
    /\ UNCHANGED <<now, heldKeys, heldButtons, leftHanded, pending, recording, mask,
                   clickVars, historyVars>>

\* XSetPointerMapping() is refused (MappingBusy) while an altered button is down.
Remap ==
    /\ MappingChanges
    /\ heldButtons \cap {1, 3} = {}
    /\ leftHanded' = ~leftHanded
    /\ stale' = IF recording = "off" THEN stale ELSE stale \cup {"MAPPING"}
    /\ dispatched' = <<>>
    /\ UNCHANGED <<now, heldKeys, heldButtons, leds, pending, recording, mask,
                   clickVars, historyVars>>

Tick ==
    /\ now < MaxTime
    /\ now' = now + 1
    /\ dispatched' = <<>>
    /\ UNCHANGED <<heldKeys, heldButtons, leds, leftHanded, pending, recording, mask,
                   clickVars, stale, historyVars>>

-----------------------------------------------------------------------------
(* The hook.                                                               *)

NoClick == [count |-> 0, time |-> 0, button |-> 0]

(* Defective variant: a lock that has gone out keeps its bit. *)
LocksOnlyGrow(bits, answered) == IF answered THEN bits \cup leds ELSE bits

\* The mask after initialize_locks(); a failing query changes nothing.
initialize_locks(bits, answered) ==
    IF answered THEN (bits \ LockKeys) \cup leds ELSE bits

Answers == IF QueriesMayFail THEN BOOLEAN ELSE {TRUE}

\* The button bits of initialize_modifiers(): the server's button state, which
\* is numbered after the mapping and before the exchange of 2 and 3.
InitialButtons ==
    {ButtonBit[Logical(b)] : b \in {c \in heldButtons : Logical(c) \in 1..5}}

\* Which takes a right button that is down for a middle one, and the reverse.
Misread == IF \E b \in heldButtons : Logical(b) \in {2, 3} THEN {"BUTTON2", "BUTTON3"} ELSE {}

\* hook_run() up to XRecordEnableContext(): allocation and initialize_modifiers().
Initialize ==
    /\ recording = "off"
    /\ heldButtons \subseteq ButtonsAtStart
    /\ recording' = "ready"
    /\ \E pointer \in Answers, led \in Answers :
          /\ mask' = initialize_locks((heldKeys \cap ModifierKeys)
                                      \cup (IF pointer THEN InitialButtons ELSE {}), led)
          /\ stale' = (IF pointer THEN Misread ELSE ButtonBits)
                      \cup (IF led THEN {} ELSE {"LOCKS"})
    /\ isDragged' = FALSE
    /\ click' = NoClick
    /\ dispatched' = <<>>
    /\ presses' = <<>>
    /\ down' = {}
    /\ moved' = {}
    /\ UNCHANGED <<serverVars, pending>>

\* hook_event_proc(), XRecordStartOfData and XRecordEndOfData; the end of the
\* stream comes behind what was recorded before hook_stop().
Plain(type) == [type |-> type, mask |-> {}, button |-> 0, clicks |-> 0, time |-> 0]

StartOfData ==
    /\ recording = "ready"
    /\ recording' = "on"
    /\ dispatched' = <<Plain("HOOK_ENABLED")>>
    /\ UNCHANGED <<serverVars, pending, mask, clickVars, stale, historyVars>>

\* hook_stop(): XRecordDisableContext().
hook_stop ==
    /\ recording = "on"
    /\ recording' = "ending"
    /\ dispatched' = <<>>
    /\ UNCHANGED <<serverVars, pending, mask, clickVars, stale, historyVars>>

EndOfData ==
    /\ recording = "ending"
    /\ pending = <<>>
    /\ recording' = "off"
    /\ dispatched' = <<Plain("HOOK_DISABLED")>>
    /\ UNCHANGED <<serverVars, pending, mask, clickVars, stale, historyVars>>

Read(type) ==
    /\ pending # <<>>
    /\ pending[1].type = type
    /\ pending' = Tail(pending)
    /\ UNCHANGED <<serverVars, recording>>

\* An event to dispatch.  No dispatcher of this program marks one consumed
\* (event.reserved = 1).
Event(type, bits, button, clicks) ==
    [type |-> type, mask |-> bits, button |-> button, clicks |-> clicks,
     time |-> pending[1].time]

HandleKey(type, bits, then) ==
    \E answered \in Answers :
       LET m == initialize_locks(bits, answered) IN
       /\ mask' = m
       /\ dispatched' = <<Event(type, m, 0, 0)>> \o [i \in 1..then |-> Event("KEY_TYPED", m, 0, 0)]
       /\ stale' = IF answered THEN stale \ {pending[1].key, "LOCKS"}
                     ELSE (stale \ {pending[1].key}) \cup {"LOCKS"}

SetKeyBit(k) == mask \cup ({k} \cap ModifierKeys)
UnsetKeyBit(k) == mask \ ({k} \cap ModifierKeys)

\* A key has at most two characters.
KeyPress ==
    /\ Read("KeyPress")
    /\ \E typed \in 0..2 : HandleKey("KEY_PRESSED", SetKeyBit(pending[1].key), typed)
    /\ UNCHANGED <<clickVars, historyVars>>

KeyRelease ==
    /\ Read("KeyRelease")
    /\ HandleKey("KEY_RELEASED", UnsetKeyBit(pending[1].key), 0)
    /\ UNCHANGED <<clickVars, historyVars>>

\* A notch of the wheel: it ends the run of clicks.
WheelPress ==
    /\ Read("ButtonPress")
    /\ button_map_lookup(pending[1].button) \in Wheel
    /\ click' = [click EXCEPT !.count = 1, !.button = 0]
    /\ dispatched' = <<Event("MOUSE_WHEEL", mask, 0, 1)>>
    /\ presses' = <<>>
    /\ UNCHANGED <<mask, isDragged, stale, down, moved>>

TooLate(time) == time > click.time + MultiClickTime

(* Defective variants: the run survives another button; it is not limited. *)
NextClickAnyButton(b, time) ==
    IF ~TooLate(time) /\ click.count < ClickLimit
    THEN [count |-> click.count + 1, time |-> time, button |-> b]
    ELSE [count |-> 1, time |-> time, button |-> b]

NextClickUnlimited(b, time) ==
    IF b = click.button /\ ~TooLate(time)
    THEN [count |-> click.count + 1, time |-> time, button |-> b]
    ELSE [count |-> 1, time |-> time, button |-> b]

\* The click run after a press.
NextClick(b, time) ==
    IF b = click.button /\ ~TooLate(time)
    THEN [count  |-> IF click.count < ClickLimit THEN click.count + 1 ELSE click.count,
          time   |-> time,
          button |-> b]
    ELSE [count |-> 1, time |-> time, button |-> b]

ButtonPress ==
    /\ Read("ButtonPress")
    /\ LET m == button_map_lookup(pending[1].button)
           b == MouseButton(m)
       IN  /\ m \notin Wheel
           /\ mask' = mask \cup PressBits(m)
           /\ click' = NextClick(b, pending[1].time)
           /\ dispatched' = <<Event("MOUSE_PRESSED", mask', b, click'.count)>>
           /\ stale' = stale \ PressBits(m)
           /\ presses' = LastFew(Append(presses, [button |-> b, time |-> pending[1].time]), ClickLimit)
           /\ down' = down \cup {pending[1].button}
           /\ moved' = moved \ {pending[1].button}
    /\ UNCHANGED isDragged

\* Releases of the wheel's buttons are not looked at.
WheelRelease ==
    /\ Read("ButtonRelease")
    /\ button_map_lookup(pending[1].button) \in Wheel
    /\ dispatched' = <<>>
    /\ UNCHANGED <<mask, clickVars, stale, historyVars>>

(* Defective variant: the drag flag is not asked. *)
IsClickAlways == TRUE

\* Does a release also make a click?
IsClick == ~isDragged

ButtonRelease ==
    /\ Read("ButtonRelease")
    /\ LET m == button_map_lookup(pending[1].button)
           b == MouseButton(m)
           e(type) == Event(type, mask', b, click.count)
       IN  /\ m \notin Wheel
           /\ mask' = mask \ ReleaseBits(m)
           /\ dispatched' = <<e("MOUSE_RELEASED")>>
                             \o IF IsClick THEN <<e("MOUSE_CLICKED")>> ELSE <<>>
           /\ click' = IF b = click.button /\ TooLate(pending[1].time)
                       THEN [click EXCEPT !.count = 0] ELSE click
           /\ stale' = stale \ PressBits(m)
           /\ down' = down \ {pending[1].button}
           /\ moved' = moved \ {pending[1].button}
    /\ UNCHANGED <<isDragged, presses>>

\* The drag flag is worked out here and nowhere else.
MotionNotify ==
    /\ Read("MotionNotify")
    /\ click' = IF click.count # 0 /\ TooLate(pending[1].time)
                THEN [click EXCEPT !.count = 0] ELSE click
    /\ isDragged' = (mask \cap ButtonBits # {})
    /\ dispatched' = <<Event(IF isDragged' THEN "MOUSE_DRAGGED" ELSE "MOUSE_MOVED",
                             mask, 0, click'.count)>>
    /\ moved' = down
    /\ UNCHANGED <<mask, stale, presses, down>>

-----------------------------------------------------------------------------
InputInit ==
    /\ now = 0
    /\ heldKeys \in SUBSET Keys
    /\ heldButtons \in SUBSET ButtonsAtStart
    /\ leds \in SUBSET (LockKeys \cap Keys)
    /\ leftHanded \in (IF MappingChanges THEN BOOLEAN ELSE {FALSE})
    /\ pending = <<>>
    /\ recording = "off"
    /\ mask = {}
    /\ isDragged = FALSE
    /\ click = NoClick
    /\ dispatched = <<>>
    /\ stale = {}
    /\ presses = <<>>
    /\ down = {}
    /\ moved = {}

ServerStep ==
    \/ \E k \in Keys : KeyDown(k) \/ KeyUp(k)
    \/ \E b \in Buttons : ButtonDown(b) \/ ButtonUp(b)
    \/ PointerMoves
    \/ LedsChange
    \/ Remap
    \/ Tick

HookStep ==
    \/ Initialize \/ StartOfData \/ hook_stop \/ EndOfData
    \/ KeyPress \/ KeyRelease
    \/ WheelPress \/ ButtonPress \/ WheelRelease \/ ButtonRelease \/ MotionNotify

InputNext == ServerStep \/ HookStep

InputSpec == InputInit /\ [][InputNext]_vars

-----------------------------------------------------------------------------
(* Properties.                                                             *)

Clock == 0..MaxTime
EventTypes == {"KeyPress", "KeyRelease", "ButtonPress", "ButtonRelease", "MotionNotify"}
Recorded == [type : EventTypes, key : Keys \cup {""}, button : Buttons \cup {0}, time : Clock,
             shown : SUBSET MaskBits]

\* Every variable has its type; in particular the click count of
\* x11/input_hook.c never runs past what its unsigned short can hold.
InputTypeOK ==
    /\ now \in Clock
    /\ heldKeys \subseteq Keys
    /\ heldButtons \subseteq Buttons
    /\ leds \subseteq LockKeys
    /\ leftHanded \in BOOLEAN
    /\ pending \in Seq(Recorded) /\ Len(pending) <= MaxPending
    /\ recording \in {"off", "ready", "on", "ending"}
    /\ mask \subseteq MaskBits
    /\ isDragged \in BOOLEAN
    /\ click \in [count : 0..ClickLimit, time : Clock, button : 0..5]
    /\ stale \subseteq MaskBits \cup Keys \cup {"LOCKS", "MAPPING"}
    /\ presses \in Seq([button : 0..5, time : Clock]) /\ Len(presses) <= ClickLimit
    /\ moved \subseteq down /\ down \subseteq Buttons

InputKinds == {"KEY_PRESSED", "KEY_TYPED", "KEY_RELEASED", "MOUSE_WHEEL", "MOUSE_PRESSED",
               "MOUSE_RELEASED", "MOUSE_CLICKED", "MOUSE_MOVED", "MOUSE_DRAGGED"}

\* The bits that the mask is held to: buttons are looked up with the mapping of the
\* moment, so not theirs once it has changed under the hook; and not those of the two
\* buttons beyond the wheel, which both use MASK_BUTTON5.
Judged(st) ==
    ModifierKeys \cup (IF "MAPPING" \in st THEN {} ELSE {"BUTTON1", "BUTTON2", "BUTTON3"})

\* The modifier and button bits of every event that is dispatched are those of
\* the keys and buttons that were down when the server recorded it, however far
\* the server has run ahead; only a bit whose last change happened before the
\* context was enabled may be wrong, until that key or button changes again, and
\* those of the right and the middle button if one was down at the start.
MaskShowsInput ==
    [][\A i \in DOMAIN dispatched' :
         dispatched'[i].type \in InputKinds =>
            Differ(dispatched'[i].mask, pending[1].shown) \cap Judged(stale') \subseteq stale']_vars

\* Once the hook has read everything recorded, its lock bits are the LEDs, unless
\* the last change of a LED came without a key event that the hook could read.
LocksFollowLeds ==
    recording = "on" /\ pending = <<>> /\ "LOCKS" \notin stale => mask \cap LockKeys = leds

\* The click number of a press is the length of the run that the press ends, and
\* the limit when the run is longer: neither another button, the wheel, a motion
\* nor a release in between adds to it or takes from it wrongly.  Left out are the
\* buttons the library has no number for (10 and up): theirs is the wheel's.
ClicksCountTheRun ==
    \A i \in DOMAIN dispatched :
        dispatched[i].type = "MOUSE_PRESSED" /\ dispatched[i].button # 0 =>
            dispatched[i].clicks = RunLength(presses, MultiClickTime)

\* No click is reported for a button, of the three, with which the pointer was
\* dragged, unless the mapping has changed under the hook: the drag flag is worked
\* out from the mask, where a press and a release may then use different bits.
ClickedWithoutDrag ==
    [][\A i \in DOMAIN dispatched' :
         /\ dispatched'[i].type = "MOUSE_CLICKED"
         /\ dispatched'[i].button \in 1..3
         /\ "MAPPING" \notin stale
         => pending[1].button \notin moved]_vars

=============================================================================
