----------------------------- MODULE PostEvent -----------------------------
(***************************************************************************)
(* hook_post_event() on the three platforms: what reaches the system, and  *)
(* what the library remembers between calls: the flags of the keys (on     *)
(* X11, of the buttons too) it has pressed, and on macOS the kind of event *)
(* a motion is.  Coordinates are left out.  The add-on posts keys only;    *)
(* mouse events are posted by C callers of the library.                    *)
(***************************************************************************)
EXTENDS InputEvents

CONSTANTS
    Platforms,      \* those among "x11", "darwin" and "windows" to look at
    Keys,           \* keys that are posted; Unknown is in no key code table
    Buttons,        \* mouse buttons that are posted; 0 is MOUSE_NOBUTTON
    PostsMayFail    \* the system may refuse to make or to take an event

Unknown == "UNKNOWN"

ASSUME PostAssumption ==
    /\ Platforms \subseteq {"x11", "darwin", "windows"}
    /\ Keys \subseteq STRING
    /\ Buttons \subseteq Nat
    /\ PostsMayFail \in BOOLEAN

VARIABLES
    platform,              \* the one this process runs on
    currentModifierMask,   \* x11 and darwin: current_modifier_mask
    motion,                \* darwin: current_motion_event
    motionButton,          \* darwin: current_motion_button, from 1
    posted,                \* what the step just taken has handed to the system
    downKeys, downButtons, \* history: what the system has been told is down
    stale                  \* history: flags that a lost post or a pair has made
                           \* wrong, and "MOTION"

postVars == <<platform, currentModifierMask, motion, motionButton, posted,
              downKeys, downButtons, stale>>

-----------------------------------------------------------------------------
\* The left and the right key of a modifier have one flag.
Pairs == [SHIFT   |-> {"SHIFT_L", "SHIFT_R"}, CONTROL |-> {"CTRL_L", "CTRL_R"},
          COMMAND |-> {"META_L", "META_R"},   ALT     |-> {"ALT_L", "ALT_R"}]
Flags(keys) == {f \in DOMAIN Pairs : Pairs[f] \cap keys # {}}

IsPress(type) == type \in {"KEY_PRESSED", "MOUSE_PRESSED"}

\* A set after the press or the release of one of its members.
After(set, type, members) == IF IsPress(type) THEN set \cup members ELSE set \ members

Post(event) == posted' = <<event>> \/ (PostsMayFail /\ posted' = <<>>)
Refused == posted' = <<>>

(* Defective variant: the flags of the last key only. *)
LastKeyOnly(type, k) == After({}, type, Flags({k}))

NewMask(type, k) == After(currentModifierMask, type, Flags({k}))

(* Defective variant: a key without a key code is sent all the same. *)
PostKeyX11Unchecked(type, k) ==
    /\ currentModifierMask' = NewMask(type, k)
    /\ Post([type |-> type, key |-> k, flags |-> currentModifierMask])

\* X11: the state of an event is that from before it.  A key without a key code
\* changes nothing; a key that XSendEvent() does not send changes the mask.
PostKeyX11(type, k) ==
    IF k = Unknown THEN Refused /\ UNCHANGED currentModifierMask
    ELSE /\ currentModifierMask' = NewMask(type, k)
         /\ Post([type |-> type, key |-> k, flags |-> currentModifierMask])

\* macOS: the flags of an event are those after it, and are kept even if it is
\* not posted.
PostKeyDarwin(type, k) ==
    /\ currentModifierMask' = NewMask(type, k)
    /\ IF k = Unknown THEN Refused
       ELSE Post([type |-> type, key |-> k, flags |-> currentModifierMask'])

PostKeyWindows(type, k) ==
    /\ IF k = Unknown THEN Refused ELSE Post([type |-> type, key |-> k, flags |-> {}])
    /\ UNCHANGED currentModifierMask

\* No display, no event source, no memory: hook_post_event() returns at once.
Unavailable ==
    /\ PostsMayFail
    /\ Refused
    /\ UNCHANGED <<currentModifierMask, motion, motionButton>>

\* What has come of a post: the system knows if it was posted; a flag is stale if
\* the mask changed without the system knowing, or if the other key of the pair
\* is still down.
KeyFollows(type, k) ==
    LET known == posted' # <<>>
        flag  == Flags({k})
    IN  /\ downKeys' = IF known THEN After(downKeys, type, {k}) ELSE downKeys
        /\ stale' = IF known /\ (IsPress(type) \/ Flags(downKeys') \cap flag = {})
                    THEN stale \ flag
                    ELSE IF known \/ currentModifierMask' # currentModifierMask
                    THEN stale \cup flag ELSE stale
        /\ UNCHANGED <<platform, downButtons>>

PostKey(type, k) ==
    /\ \/ Unavailable
       \/ /\ \/ platform = "x11" /\ PostKeyX11(type, k)
             \/ platform = "darwin" /\ PostKeyDarwin(type, k)
             \/ platform = "windows" /\ PostKeyWindows(type, k)
          /\ UNCHANGED <<motion, motionButton>>
    /\ KeyFollows(type, k)

-----------------------------------------------------------------------------
(* Mouse events, from C.                                                   *)

MouseEvent(type, b, flags) == [type |-> type, button |-> b, flags |-> flags]

PostButtonX11(type, b) ==
    /\ IF b \in 1..5
       THEN /\ currentModifierMask' = After(currentModifierMask, type, {ButtonBit[b]})
            /\ Post(MouseEvent(type, b, currentModifierMask'))
       ELSE Refused /\ UNCHANGED currentModifierMask
    /\ UNCHANGED <<motion, motionButton>>

Drag(b) == IF b = 1 THEN "LEFT_DRAGGED" ELSE IF b = 2 THEN "RIGHT_DRAGGED" ELSE "OTHER_DRAGGED"

(* Defective variant: a release does not end the drag. *)
MotionSticks(type, b) == IF IsPress(type) THEN Drag(b) ELSE motion

\* The kind of the motions that follow the press or release of a button.
NextMotion(type, b) ==
    IF IsPress(type) THEN Drag(b) ELSE IF motion = Drag(b) THEN "MOVED" ELSE motion

PostButtonDarwin(type, b) ==
    /\ IF b = 0
       THEN Refused /\ UNCHANGED <<motion, motionButton>>
       ELSE /\ motion' = NextMotion(type, b)
            /\ motionButton' = b
            /\ Post(MouseEvent(type, b, {}))
    /\ UNCHANGED currentModifierMask

\* Windows: the pointer is moved first, by a nested hook_post_event().
PostButtonWindows(type, b) ==
    /\ LET move == MouseEvent("MOVED", 0, {})
           button == MouseEvent(type, b, {})
       IN  IF b = 0 THEN Refused
           ELSE posted' \in {<<move, button>>}
                            \cup (IF PostsMayFail THEN {<<move>>, <<button>>, <<>>} ELSE {})
    /\ UNCHANGED <<currentModifierMask, motion, motionButton>>

\* As KeyFollows; a motion is stale after a press that was not posted, until
\* another press or its release.
ButtonFollows(type, b) ==
    LET known == \E i \in DOMAIN posted' : posted'[i].type = type
        bits  == Shown({}, {b})
    IN  /\ downButtons' = IF known THEN After(downButtons, type, {b}) ELSE downButtons
        /\ stale' =
              LET s == IF known THEN stale \ bits
                       ELSE IF currentModifierMask' # currentModifierMask THEN stale \cup bits
                       ELSE stale
              IN  IF motion' = "MOVED" \/ (known /\ IsPress(type)) THEN s \ {"MOTION"}
                  ELSE IF motion' # motion THEN s \cup {"MOTION"} ELSE s
        /\ UNCHANGED <<platform, downKeys>>

PostButton(type, b) ==
    /\ \/ Unavailable
       \/ platform = "x11" /\ PostButtonX11(type, b)
       \/ platform = "darwin" /\ PostButtonDarwin(type, b)
       \/ platform = "windows" /\ PostButtonWindows(type, b)
    /\ ButtonFollows(type, b)

\* The state of an X11 motion is or-ed with MotionNotify, which is 6, the value of
\* ControlMask | LockMask.
Motion ==
    CASE platform = "x11"    -> MouseEvent("MOVED", 0, currentModifierMask \cup {"CONTROL", "LOCK"})
      [] platform = "darwin" -> MouseEvent(motion, motionButton, {})
      [] OTHER               -> MouseEvent("MOVED", 0, {})

\* On X11 a notch of the wheel is the press and the release of a button.
Notch ==
    IF platform = "x11"
    THEN <<MouseEvent("WHEEL_PRESSED", 0, currentModifierMask),
           MouseEvent("WHEEL_RELEASED", 0, currentModifierMask)>>
    ELSE <<MouseEvent("WHEEL", 0, {})>>

PostMotionOrWheel ==
    /\ \/ Post(Motion)
       \/ posted' \in {Notch} \cup (IF PostsMayFail THEN {Tail(Notch), <<>>} ELSE {})
    /\ UNCHANGED <<platform, currentModifierMask, motion, motionButton, downKeys, downButtons, stale>>

\* A C caller posts any mouse event.
PostMouse ==
    \/ \E b \in Buttons, type \in {"MOUSE_PRESSED", "MOUSE_RELEASED"} : PostButton(type, b)
    \/ PostMotionOrWheel

PostInit ==
    /\ platform \in Platforms
    /\ currentModifierMask = {}
    /\ motion = "MOVED"
    /\ motionButton = 1
    /\ posted = <<>>
    /\ downKeys = {}
    /\ downButtons = {}
    /\ stale = {}

-----------------------------------------------------------------------------
(* Properties.                                                             *)

\* The flags and buttons of the keys and buttons that the system believes down.
Believed(keys, buttons) == Flags(keys) \cup Shown({}, buttons)

KeyTypes == {"KEY_PRESSED", "KEY_RELEASED"}

\* A posted key event carries the flags of the posted keys that are down, before
\* the event on X11 and after it on macOS; only flags whose last post was lost,
\* or whose other key is still down, may be wrong, until the next post of a key
\* of that flag (post_event.c, current_modifier_mask).
FlagsShowPosted ==
    [][\A i \in DOMAIN posted' :
         posted'[i].type \in KeyTypes =>
            /\ platform = "x11" =>
                 Differ(posted'[i].flags, Believed(downKeys, downButtons)) \subseteq stale
            /\ platform = "darwin" =>
                 Differ(posted'[i].flags, Believed(downKeys', {})) \subseteq stale']_postVars

\* On macOS a motion is only posted as a drag while a button of that kind is down,
\* unless the last press was lost (darwin/post_event.c:153-187).
DragsHaveAButton ==
    [][\A i \in DOMAIN posted' :
         /\ posted'[i].type \in {"LEFT_DRAGGED", "RIGHT_DRAGGED", "OTHER_DRAGGED"}
         /\ "MOTION" \notin stale
         => \E b \in downButtons : Drag(b) = posted'[i].type]_postVars

=============================================================================
