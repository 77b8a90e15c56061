---------------------------- MODULE KeyTapProofs ----------------------------
(***************************************************************************)
(* Proofs about KeyTap and PostEvent: the flags of a posted key event are  *)
(* those of the keys that are down, whatever the keys, the buttons, the    *)
(* modifiers of a tap and the failures of the system.                      *)
(***************************************************************************)
EXTENDS KeyTap, TLAPS
LOCAL INSTANCE SequencesExt

KeyFlags == DOMAIN Pairs

MaskOK ==
    /\ platform = "x11" => currentModifierMask \subseteq KeyFlags \cup ButtonBits
    /\ platform = "darwin" => currentModifierMask \subseteq KeyFlags

\* What the system believes is down, as far as the mask of this platform shows it.
Tracked == IF platform = "x11" THEN Believed(downKeys, downButtons) ELSE Flags(downKeys)

DragKinds == {"LEFT_DRAGGED", "RIGHT_DRAGGED", "OTHER_DRAGGED"}

\* While motions are drags, a button of the kind is down.
DragHeld ==
    /\ motion \in DragKinds \cup {"MOVED"}
    /\ platform # "darwin" => motion = "MOVED"
    /\ motion # "MOVED" /\ "MOTION" \notin stale => \E b \in downButtons : Drag(b) = motion

MaskTracks ==
    /\ MaskOK
    /\ platform \in {"x11", "darwin"} => Differ(currentModifierMask, Tracked) \subseteq stale

-----------------------------------------------------------------------------
(* Flags and button bits.                                                  *)

\* The flags of keys, the bits of buttons and "MOTION" are all different.
LEMMA BitsApart ==
    ASSUME NEW keys, NEW buttons
    PROVE  /\ Flags(keys) \subseteq KeyFlags
           /\ Shown({}, buttons) \subseteq ButtonBits
           /\ KeyFlags \cap ButtonBits = {}
           /\ "MOTION" \notin KeyFlags \cup ButtonBits
<1>1. KeyFlags = {"SHIFT", "CONTROL", "COMMAND", "ALT"}
  BY DEF KeyFlags, Pairs
<1>2. ButtonBits = {"BUTTON1", "BUTTON2", "BUTTON3", "BUTTON4", "BUTTON5"}
  <2>1. 1..5 = {1, 2, 3, 4, 5}
    OBVIOUS
  <2> QED
    BY <2>1 DEF ButtonBits, ButtonBit
<1>3. Flags(keys) \subseteq KeyFlags
  BY DEF Flags, KeyFlags
<1>4. Shown({}, buttons) \subseteq ButtonBits
  BY DEF Shown, ButtonBits
<1> QED
  BY <1>1, <1>2, <1>3, <1>4

\* A key changes its own flag only; a flag is left while the pair's other key is down.
LEMMA FlagsAfter ==
    ASSUME NEW keys, NEW k, NEW type
    PROVE  /\ Flags(After(keys, type, {k})) \ Flags({k}) = Flags(keys) \ Flags({k})
           /\ IsPress(type) => Flags({k}) \subseteq Flags(After(keys, type, {k}))
<1>1. CASE IsPress(type)
  BY <1>1 DEF After, Flags
<1>2. CASE ~IsPress(type)
  BY <1>2 DEF After, Flags
<1> QED
  BY <1>1, <1>2

\* A button changes its own bit only, and that bit is its own.
LEMMA ShownAfter ==
    ASSUME NEW buttons, NEW b \in 1..5, NEW type
    PROVE  /\ Shown({}, {b}) = {ButtonBit[b]}
           /\ Shown({}, After(buttons, type, {b})) = After(Shown({}, buttons), type, {ButtonBit[b]})
<1>1. \A i, j \in 1..5 : ButtonBit[i] = ButtonBit[j] => i = j
  <2> SUFFICES ASSUME NEW i \in 1..5, NEW j \in 1..5, ButtonBit[i] = ButtonBit[j] PROVE i = j
    OBVIOUS
  <2>1. i \in {1, 2, 3, 4, 5} /\ j \in {1, 2, 3, 4, 5}
    OBVIOUS
  <2> QED
    BY <2>1 DEF ButtonBit
<1>2. Shown({}, {b}) = {ButtonBit[b]}
  BY DEF Shown
<1>3. CASE IsPress(type)
  BY <1>3 DEF After, Shown
<1>4. CASE ~IsPress(type)
  BY <1>1, <1>4 DEF After, Shown
<1> QED
  BY <1>2, <1>3, <1>4

-----------------------------------------------------------------------------
(* The mask follows what is posted.                                        *)

\* Posting a key keeps the mask exact but for the flags that are stale.
LEMMA KeyKeepsMask ==
    ASSUME MaskTracks, NEW type, NEW k, PostKey(type, k)
    PROVE  MaskTracks'
<1> DEFINE flag == Flags({k})
           keys == Flags(downKeys)
           bits == Shown({}, downButtons)
<1>1. /\ flag \subseteq KeyFlags /\ keys \subseteq KeyFlags /\ Flags(downKeys') \subseteq KeyFlags
      /\ bits \subseteq ButtonBits
      /\ KeyFlags \cap ButtonBits = {}
  BY BitsApart
<1>2. platform' = platform /\ downButtons' = downButtons
  BY DEF PostKey, KeyFollows
<1>3. Tracked = keys \cup (IF platform = "x11" THEN bits ELSE {})
  BY DEF Tracked, Believed
<1>4. Tracked' = Flags(downKeys') \cup (IF platform = "x11" THEN bits ELSE {})
  BY <1>2 DEF Tracked, Believed
<1>5. \/ currentModifierMask' = currentModifierMask /\ (platform \in {"x11", "darwin"} => posted' = <<>>)
      \/ currentModifierMask' = After(currentModifierMask, type, flag)
  BY DEF PostKey, Unavailable, PostKeyX11, PostKeyDarwin, PostKeyWindows, Refused, NewMask
<1>6. MaskOK'
  BY <1>1, <1>2, <1>5 DEF MaskTracks, MaskOK, After
<1>7. CASE posted' # <<>> /\ platform \in {"x11", "darwin"}
  <2>1. currentModifierMask' = After(currentModifierMask, type, flag)
    BY <1>5, <1>7
  <2>2. downKeys' = After(downKeys, type, {k})
    BY <1>7 DEF KeyFollows, PostKey
  <2>3. /\ Flags(downKeys') \ flag = keys \ flag
        /\ IsPress(type) => flag \subseteq Flags(downKeys')
    BY <2>2, FlagsAfter
  <2>4. CASE IsPress(type)
    <3>1. stale' = stale \ flag
      BY <1>7, <2>4 DEF KeyFollows, PostKey
    <3> QED
      BY <1>1, <1>2, <1>3, <1>4, <1>6, <2>1, <2>3, <2>4, <3>1 DEF MaskTracks, Differ, After
  <2>5. CASE ~IsPress(type) /\ Flags(downKeys') \cap flag = {}
    <3>1. stale' = stale \ flag
      BY <1>7, <2>5 DEF KeyFollows, PostKey
    <3> QED
      BY <1>1, <1>2, <1>3, <1>4, <1>6, <2>1, <2>3, <2>5, <3>1 DEF MaskTracks, Differ, After
  <2>6. CASE ~IsPress(type) /\ Flags(downKeys') \cap flag # {}
    <3>1. stale' = stale \cup flag
      BY <1>7, <2>6 DEF KeyFollows, PostKey
    <3> QED
      BY <1>1, <1>2, <1>3, <1>4, <1>6, <2>1, <2>3, <2>6, <3>1 DEF MaskTracks, Differ, After
  <2> QED
    BY <2>4, <2>5, <2>6
<1>8. CASE posted' = <<>>
  <2>1. /\ downKeys' = downKeys
        /\ stale' = IF currentModifierMask' # currentModifierMask THEN stale \cup flag ELSE stale
    BY <1>8 DEF KeyFollows, PostKey
  <2>2. Tracked' = Tracked
    BY <1>3, <1>4, <2>1
  <2> QED
    BY <1>2, <1>5, <1>6, <2>1, <2>2 DEF MaskTracks, Differ, After
<1>9. CASE platform \notin {"x11", "darwin"}
  BY <1>2, <1>6, <1>9 DEF MaskTracks
<1> QED
  BY <1>7, <1>8, <1>9

\* On X11 a button keeps its bit exact; on macOS the mask has no button bits.
LEMMA ButtonKeepsMask ==
    ASSUME MaskTracks, NEW type, NEW b \in Nat, PostButton(type, b)
    PROVE  MaskTracks'
<1> DEFINE known == \E i \in DOMAIN posted' : posted'[i].type = type
           bit == Shown({}, {b})
           stale1 == IF known THEN stale \ bit
                     ELSE IF currentModifierMask' # currentModifierMask THEN stale \cup bit
                     ELSE stale
<1>1. /\ platform' = platform /\ downKeys' = downKeys
      /\ downButtons' = IF known THEN After(downButtons, type, {b}) ELSE downButtons
      /\ \E gain \in {{}, {"MOTION"}}, loss \in {{}, {"MOTION"}} : stale' = (stale1 \cup gain) \ loss
  BY DEF PostButton, ButtonFollows
<1>2. /\ Flags(downKeys) \subseteq KeyFlags
      /\ bit \subseteq ButtonBits /\ Shown({}, downButtons) \subseteq ButtonBits
      /\ KeyFlags \cap ButtonBits = {}
      /\ "MOTION" \notin KeyFlags \cup ButtonBits
  BY BitsApart
<1>3. CASE platform = "darwin"
  <2>1. currentModifierMask' = currentModifierMask
    BY <1>3 DEF PostButton, Unavailable, PostButtonDarwin
  <2>2. Tracked' = Tracked /\ Tracked = Flags(downKeys)
    BY <1>1, <1>3 DEF Tracked
  <2> QED
    BY <1>1, <1>2, <1>3, <2>1, <2>2 DEF MaskTracks, MaskOK, Differ
<1>4. CASE platform = "x11" /\ b \in 1..5 /\ ~Unavailable
  <2>1. /\ bit = {ButtonBit[b]}
        /\ Shown({}, After(downButtons, type, {b})) = After(Shown({}, downButtons), type, bit)
    <3>1. b \in 1..5
      BY <1>4
    <3>2. /\ Shown({}, {b}) = {ButtonBit[b]}
          /\ Shown({}, After(downButtons, type, {b})) = After(Shown({}, downButtons), type, {ButtonBit[b]})
      BY <3>1, ShownAfter
    <3> QED
      BY <3>2
  <2>2. currentModifierMask' = After(currentModifierMask, type, bit)
    BY <1>4, <2>1 DEF PostButton, PostButtonX11
  <2>3. /\ Tracked = Flags(downKeys) \cup Shown({}, downButtons)
        /\ Tracked' = Flags(downKeys) \cup Shown({}, downButtons')
    BY <1>1, <1>4 DEF Tracked, Believed
  <2>4. MaskOK'
    BY <1>1, <1>2, <1>4, <2>2 DEF MaskTracks, MaskOK, After
  <2>5. CASE known
    BY <1>1, <1>2, <1>4, <2>1, <2>2, <2>3, <2>4, <2>5 DEF MaskTracks, MaskOK, Differ, After
  <2>6. CASE ~known
    BY <1>1, <1>2, <1>4, <2>2, <2>3, <2>4, <2>6 DEF MaskTracks, MaskOK, Differ, After
  <2> QED
    BY <2>5, <2>6
<1>5. CASE platform = "x11" /\ (b \notin 1..5 \/ Unavailable)
  <2>1. posted' = <<>> /\ currentModifierMask' = currentModifierMask
    BY <1>5 DEF PostButton, PostButtonX11, Unavailable, Refused
  <2>2. ~known
    BY <2>1
  <2>3. Tracked' = Tracked /\ Tracked \subseteq KeyFlags \cup ButtonBits
    BY <1>1, <1>2, <1>5, <2>2 DEF Tracked, Believed
  <2> QED
    BY <1>1, <1>2, <1>5, <2>1, <2>2, <2>3 DEF MaskTracks, MaskOK, Differ
<1>6. CASE platform \notin {"x11", "darwin"}
  BY <1>1, <1>6 DEF MaskTracks, MaskOK
<1> QED
  BY <1>3, <1>4, <1>5, <1>6

\* current_modifier_mask of the two platforms is what the keys and buttons say.
LEMMA MaskInvariant == TapSpec => []MaskTracks
<1>1. TapInit => MaskTracks
  BY DEF TapInit, PostInit, MaskTracks, MaskOK, Tracked, Believed, Flags, Shown, Differ
<1>2. MaskTracks /\ [TapNext]_vars => MaskTracks'
  <2> SUFFICES ASSUME MaskTracks, [TapNext]_vars PROVE MaskTracks'
    OBVIOUS
  <2>1. ASSUME UNCHANGED <<platform, currentModifierMask, downKeys, downButtons, stale>>
        PROVE  MaskTracks'
    BY <2>1 DEF MaskTracks, MaskOK, Tracked
  <2>2. CASE keyTap
    BY <2>1, <2>2 DEF keyTap, Quiet
  <2>3. CASE keyToggle
    BY <2>1, <2>3 DEF keyToggle, Quiet
  <2>4. CASE ArgumentsRead
    BY <2>1, <2>4 DEF ArgumentsRead, Quiet
  <2>5. CASE ArgumentThrows
    BY <2>1, <2>5 DEF ArgumentThrows, Quiet
  <2>6. CASE PostNext
    BY <2>6, KeyKeepsMask DEF PostNext
  <2>7. CASE PostMouse
    <3>1. CASE PostMotionOrWheel
      BY <2>1, <3>1 DEF PostMotionOrWheel
    <3>2. ASSUME NEW b \in Buttons, NEW type \in {"MOUSE_PRESSED", "MOUSE_RELEASED"},
                 PostButton(type, b)
          PROVE  MaskTracks'
      <4>1. b \in Nat
        BY PostAssumption
      <4> QED
        BY <3>2, <4>1, ButtonKeepsMask
    <3> QED
      BY <2>7, <3>1, <3>2 DEF PostMouse
  <2>8. CASE UNCHANGED vars
    BY <2>1, <2>8 DEF vars, postVars
  <2> QED
    BY <2>2, <2>3, <2>4, <2>5, <2>6, <2>7, <2>8 DEF TapNext
<1> QED
  BY <1>1, <1>2, PTL DEF TapSpec

-----------------------------------------------------------------------------
(* On macOS, the motion follows the buttons.                               *)

\* A key leaves the motion and the buttons alone.
LEMMA KeyKeepsDrag ==
    ASSUME DragHeld, NEW type, NEW k, PostKey(type, k)
    PROVE  DragHeld'
<1>1. /\ platform' = platform /\ motion' = motion /\ downButtons' = downButtons
      /\ stale' \in {stale, stale \ Flags({k}), stale \cup Flags({k})}
  BY DEF PostKey, KeyFollows, Unavailable
<1>2. "MOTION" \notin Flags({k})
  BY BitsApart
<1> QED
  BY <1>1, <1>2 DEF DragHeld

\* A press starts the drag of its button; only that kind's release ends it.
LEMMA ButtonKeepsDrag ==
    ASSUME DragHeld, NEW type, NEW b \in Nat, PostButton(type, b)
    PROVE  DragHeld'
<1> DEFINE known == \E i \in DOMAIN posted' : posted'[i].type = type
<1>1. /\ platform' = platform
      /\ downButtons' = IF known THEN After(downButtons, type, {b}) ELSE downButtons
  BY DEF PostButton, ButtonFollows
<1>2. "MOTION" \in stale' <=>
         /\ motion' # "MOVED" /\ ~(known /\ IsPress(type))
         /\ motion' # motion \/ "MOTION" \in stale
  <2>1. "MOTION" \notin Shown({}, {b})
    BY BitsApart
  <2> QED
    BY <2>1 DEF PostButton, ButtonFollows
<1>3. Drag(b) \in DragKinds /\ "MOVED" \notin DragKinds
  BY DEF Drag, DragKinds
<1>4. CASE platform = "darwin" /\ b # 0 /\ ~Unavailable
  <2>1. motion' = NextMotion(type, b)
    BY <1>4 DEF PostButton, PostButtonDarwin
  <2>2. CASE IsPress(type)
    <3>1. motion' = Drag(b)
      BY <2>1, <2>2 DEF NextMotion
    <3>2. CASE known
      <4>1. b \in downButtons'
        BY <1>1, <2>2, <3>2 DEF After
      <4> QED
        BY <1>1, <1>3, <1>4, <3>1, <4>1 DEF DragHeld
    <3>3. CASE ~known
      BY <1>1, <1>2, <1>3, <1>4, <3>1, <3>3 DEF DragHeld
    <3> QED
      BY <3>2, <3>3
  <2>3. CASE ~IsPress(type) /\ motion = Drag(b)
    BY <1>1, <1>4, <2>1, <2>3 DEF DragHeld, NextMotion
  <2>4. CASE ~IsPress(type) /\ motion # Drag(b)
    <3>1. motion' = motion
      BY <2>1, <2>4 DEF NextMotion
    <3>2. ASSUME NEW c \in downButtons, Drag(c) = motion
          PROVE  c \in downButtons'
      <4>1. c # b
        BY <2>4, <3>2
      <4> QED
        BY <1>1, <2>4, <4>1 DEF After
    <3> QED
      BY <1>1, <1>2, <1>4, <2>4, <3>1, <3>2 DEF DragHeld
  <2> QED
    BY <2>2, <2>3, <2>4
<1>5. CASE platform = "darwin" /\ (b = 0 \/ Unavailable)
  <2>1. posted' = <<>> /\ motion' = motion
    BY <1>5 DEF PostButton, PostButtonDarwin, Unavailable, Refused
  <2>2. ~known
    BY <2>1
  <2> QED
    BY <1>1, <1>2, <2>1, <2>2 DEF DragHeld
<1>6. CASE platform # "darwin"
  <2>1. motion' = motion
    BY <1>6 DEF PostButton, PostButtonX11, PostButtonWindows, Unavailable
  <2> QED
    BY <1>1, <1>6, <2>1 DEF DragHeld
<1> QED
  BY <1>4, <1>5, <1>6

\* current_motion_event is a drag only while its button is down.
LEMMA DragInvariant == TapSpec => []DragHeld
<1>1. TapInit => DragHeld
  BY DEF TapInit, PostInit, DragHeld
<1>2. DragHeld /\ [TapNext]_vars => DragHeld'
  <2> SUFFICES ASSUME DragHeld, [TapNext]_vars PROVE DragHeld'
    OBVIOUS
  <2>1. ASSUME UNCHANGED <<platform, motion, downButtons, stale>>
        PROVE  DragHeld'
    BY <2>1 DEF DragHeld
  <2>2. CASE Quiet
    BY <2>1, <2>2 DEF Quiet
  <2>3. CASE PostNext
    BY <2>3, KeyKeepsDrag DEF PostNext
  <2>4. CASE PostMotionOrWheel
    BY <2>1, <2>4 DEF PostMotionOrWheel
  <2>5. ASSUME NEW b \in Buttons, NEW type \in {"MOUSE_PRESSED", "MOUSE_RELEASED"},
               PostButton(type, b)
        PROVE  DragHeld'
    <3>1. b \in Nat
      BY PostAssumption
    <3> QED
      BY <2>5, <3>1, ButtonKeepsDrag
  <2>6. CASE UNCHANGED vars
    BY <2>1, <2>6 DEF vars, postVars
  <2> QED
    BY <2>2, <2>3, <2>4, <2>5, <2>6
    DEF TapNext, keyTap, keyToggle, ArgumentsRead, ArgumentThrows, PostMouse
<1> QED
  BY <1>1, <1>2, PTL DEF TapSpec

-----------------------------------------------------------------------------
\* The event of a key carries the mask of before it (X11) or of after it (macOS).
LEMMA KeyEventFlags ==
    ASSUME MaskTracks, NEW type, NEW k, PostKey(type, k), NEW i \in DOMAIN posted'
    PROVE  /\ platform = "x11" =>
                Differ(posted'[i].flags, Believed(downKeys, downButtons)) \subseteq stale
           /\ platform = "darwin" =>
                Differ(posted'[i].flags, Believed(downKeys', {})) \subseteq stale'
<1>1. posted' # <<>>
  BY DEF PostKey
<1>2. MaskTracks'
  BY KeyKeepsMask
<1>3. CASE platform = "x11"
  <2>1. posted'[i].flags = currentModifierMask
    BY <1>1, <1>3 DEF PostKey, PostKeyX11, Unavailable, Refused, Post
  <2> QED
    BY <1>3, <2>1 DEF MaskTracks, Tracked
<1>4. CASE platform = "darwin"
  <2>1. posted'[i].flags = currentModifierMask'
    BY <1>1, <1>4 DEF PostKey, PostKeyDarwin, Unavailable, Refused, Post
  <2>2. platform' = "darwin"
    BY <1>4 DEF PostKey, KeyFollows
  <2>3. Believed(downKeys', {}) = Flags(downKeys')
    BY DEF Believed, Shown
  <2> QED
    BY <1>2, <1>4, <2>1, <2>2, <2>3 DEF MaskTracks, Tracked
<1> QED
  BY <1>3, <1>4

\* What hook_post_event() posts for a key has the type it was given.
LEMMA KeyEventsAreKeys ==
    ASSUME NEW type \in KeyTypes, NEW k, PostKey(type, k)
    PROVE  \A j \in DOMAIN posted' : posted'[j].type = type
<1>1. CASE Unavailable
  BY <1>1 DEF Unavailable, Refused
<1>2. CASE PostKeyX11(type, k)
  BY <1>2 DEF PostKeyX11, Refused, Post
<1>3. CASE PostKeyDarwin(type, k)
  BY <1>3 DEF PostKeyDarwin, Refused, Post
<1>4. CASE PostKeyWindows(type, k)
  BY <1>4 DEF PostKeyWindows, Refused, Post
<1> QED
  BY <1>1, <1>2, <1>3, <1>4 DEF PostKey

\* What it posts for a button is that, and on Windows the move before it.
LEMMA ButtonEventsAreButtons ==
    ASSUME NEW type \in {"MOUSE_PRESSED", "MOUSE_RELEASED"}, NEW b, PostButton(type, b)
    PROVE  \A j \in DOMAIN posted' : posted'[j].type \in {type, "MOVED"}
<1>1. CASE Unavailable
  BY <1>1 DEF Unavailable, Refused
<1>2. CASE PostButtonX11(type, b)
  BY <1>2 DEF PostButtonX11, Refused, Post, MouseEvent
<1>3. CASE PostButtonDarwin(type, b)
  BY <1>3 DEF PostButtonDarwin, Refused, Post, MouseEvent
<1>4. CASE PostButtonWindows(type, b)
  BY <1>4 DEF PostButtonWindows, Refused, MouseEvent
<1> QED
  BY <1>1, <1>2, <1>3, <1>4 DEF PostButton

\* A motion has the remembered kind, and a notch of the wheel is neither.
LEMMA MotionEvents ==
    ASSUME DragHeld, PostMotionOrWheel
    PROVE  \A j \in DOMAIN posted' : /\ posted'[j].type \notin KeyTypes
                                     /\ posted'[j].type \in DragKinds => posted'[j].type = motion
<1>1. /\ Motion.type \in DragKinds \cup {"MOVED"}
      /\ Motion.type \in DragKinds => Motion.type = motion
  BY DEF Motion, MouseEvent, DragHeld, DragKinds
<1>2. \A j \in DOMAIN Notch : Notch[j].type \in {"WHEEL", "WHEEL_PRESSED", "WHEEL_RELEASED"}
  BY DEF Notch, MouseEvent
<1> QED
  BY <1>1, <1>2 DEF PostMotionOrWheel, Post, KeyTypes, DragKinds, Notch, MouseEvent

\* Every key event posted by the library shows the keys it has pressed and not
\* released, as the tap and toggle of addon.c and C callers post them: only the
\* flags left stale by a lost post or by a pair's other key may be wrong.
THEOREM PostedFlags == TapSpec => FlagsShowPosted
<1> DEFINE Right(i) ==
             posted'[i].type \in KeyTypes =>
               /\ platform = "x11" =>
                    Differ(posted'[i].flags, Believed(downKeys, downButtons)) \subseteq stale
               /\ platform = "darwin" =>
                    Differ(posted'[i].flags, Believed(downKeys', {})) \subseteq stale'
<1>1. MaskTracks /\ DragHeld /\ [TapNext]_vars => [\A i \in DOMAIN posted' : Right(i)]_postVars
  <2> SUFFICES ASSUME MaskTracks, DragHeld, [TapNext]_vars, NEW i \in DOMAIN posted',
                      postVars' # postVars, posted'[i].type \in KeyTypes
               PROVE  Right(i)
    BY DEF KeyTypes
  <2>1. CASE PostNext
    BY <2>1, KeyEventFlags DEF PostNext
  <2>2. CASE Quiet
    BY <2>2 DEF Quiet
  <2>3. CASE PostMouse
    <3>1. \A j \in DOMAIN posted' : posted'[j].type \notin KeyTypes
      <4>1. CASE PostMotionOrWheel
        BY <4>1, MotionEvents
      <4>2. ASSUME NEW b \in Buttons, NEW type \in {"MOUSE_PRESSED", "MOUSE_RELEASED"},
                   PostButton(type, b)
            PROVE  \A j \in DOMAIN posted' : posted'[j].type \notin KeyTypes
        BY <4>2, ButtonEventsAreButtons DEF KeyTypes
      <4> QED
        BY <2>3, <4>1, <4>2 DEF PostMouse
    <3> QED
      BY <3>1
  <2>4. CASE UNCHANGED vars
    BY <2>4 DEF vars
  <2> QED
    BY <2>1, <2>2, <2>3, <2>4
    DEF TapNext, keyTap, keyToggle, ArgumentsRead, ArgumentThrows
<1> QED
  BY <1>1, MaskInvariant, DragInvariant, PTL DEF TapSpec, FlagsShowPosted

-----------------------------------------------------------------------------
EventsTyped == events \in Seq([type : KeyTypes, key : Keys])

\* key_tap() makes key events of keys.
LEMMA EventsInvariant == TapSpec => []EventsTyped
<1>1. TapInit => EventsTyped
  BY DEF TapInit, EventsTyped
<1>2. EventsTyped /\ [TapNext]_vars => EventsTyped'
  <2> SUFFICES ASSUME EventsTyped, [TapNext]_vars PROVE EventsTyped'
    OBVIOUS
  <2>1. CASE UNCHANGED events
    BY <2>1 DEF EventsTyped
  <2>2. CASE ArgumentsRead
    <3>1. PICK k \in Keys : \E toggle : events' = EventsOf(k, toggle)
      BY <2>2 DEF ArgumentsRead
    <3>2. PICK toggle : events' = EventsOf(k, toggle)
      BY <3>1
    <3>3. /\ Key("KEY_PRESSED", k) \in [type : KeyTypes, key : Keys]
          /\ Key("KEY_RELEASED", k) \in [type : KeyTypes, key : Keys]
      BY DEF Key, KeyTypes
    <3>4. ASSUME NEW S, NEW x \in S, NEW y \in S
          PROVE  /\ <<>> \o <<>> \in Seq(S) /\ <<x>> \o <<>> \in Seq(S)
                 /\ <<>> \o <<y>> \in Seq(S) /\ <<x>> \o <<y>> \in Seq(S)
      OBVIOUS
    <3> QED
      BY <3>2, <3>3, <3>4 DEF EventsOf, EventsTyped
  <2>3. CASE PostNext
    <3>1. ASSUME NEW S, NEW q \in Seq(S), q # <<>> PROVE Tail(q) \in Seq(S)
      BY <3>1
    <3> QED
      BY <2>3, <3>1 DEF PostNext, EventsTyped
  <2> QED
    BY <2>1, <2>2, <2>3 DEF TapNext, keyTap, keyToggle, ArgumentThrows, tapVars, vars
<1> QED
  BY <1>1, <1>2, PTL DEF TapSpec

\* On macOS a motion is posted as a drag only while a button of that kind is down,
\* unless the last press was lost: current_motion_event of post_event.c follows
\* the buttons, and neither keys nor taps disturb it.
THEOREM HeldDrags == TapSpec => DragsHaveAButton
<1> DEFINE Held(i) ==
             /\ posted'[i].type \in {"LEFT_DRAGGED", "RIGHT_DRAGGED", "OTHER_DRAGGED"}
             /\ "MOTION" \notin stale
             => \E b \in downButtons : Drag(b) = posted'[i].type
<1>1. /\ DragHeld /\ EventsTyped /\ [TapNext]_vars
      => [\A i \in DOMAIN posted' : Held(i)]_postVars
  <2> SUFFICES ASSUME DragHeld, EventsTyped, [TapNext]_vars, postVars' # postVars,
                      NEW i \in DOMAIN posted',
                      posted'[i].type \in DragKinds, "MOTION" \notin stale
               PROVE  \E b \in downButtons : Drag(b) = posted'[i].type
    BY DEF DragKinds
  <2>1. CASE PostNext
    <3>1. Head(events).type \in KeyTypes
      <4>1. ASSUME NEW S, NEW q \in Seq(S), q # <<>> PROVE Head(q) \in S
        BY <4>1
      <4>2. Head(events) \in [type : KeyTypes, key : Keys]
        BY <2>1, <4>1 DEF PostNext, EventsTyped
      <4> QED
        BY <4>2
    <3>2. posted'[i].type = Head(events).type
      BY <2>1, <3>1, KeyEventsAreKeys DEF PostNext
    <3> QED
      BY <3>1, <3>2 DEF KeyTypes, DragKinds
  <2>2. CASE Quiet
    BY <2>2 DEF Quiet
  <2>3. CASE PostMotionOrWheel
    <3>1. posted'[i].type = motion
      BY <2>3, MotionEvents
    <3> QED
      BY <3>1 DEF DragHeld, DragKinds
  <2>4. ASSUME NEW b \in Buttons, NEW type \in {"MOUSE_PRESSED", "MOUSE_RELEASED"},
               PostButton(type, b)
        PROVE  FALSE
    <3>1. posted'[i].type \in {type, "MOVED"}
      BY <2>4, ButtonEventsAreButtons
    <3> QED
      BY <3>1 DEF DragKinds
  <2>5. CASE UNCHANGED vars
    BY <2>5 DEF vars
  <2> QED
    BY <2>1, <2>2, <2>3, <2>4, <2>5
    DEF TapNext, keyTap, keyToggle, ArgumentsRead, ArgumentThrows, PostMouse
<1> QED
  BY <1>1, DragInvariant, EventsInvariant, PTL DEF TapSpec, DragsHaveAButton

-----------------------------------------------------------------------------
(* The calls of a tap.                                                     *)

CallRecords == [key : Arguments, toggle : {"DOWN", "TAP", "UP"}]

\* What a concatenation of two sequences is made of.
LEMMA ConcatOf ==
    ASSUME NEW S, NEW p \in Seq(S), NEW q \in Seq(S)
    PROVE  /\ p \o q \in Seq(S)
           /\ Len(p \o q) = Len(p) + Len(q)
           /\ \A i \in 1..Len(p) : (p \o q)[i] = p[i]
           /\ \A i \in 1..Len(q) : (p \o q)[Len(p) + i] = q[i]
OBVIOUS

\* One loop of keyTap(): a call for each modifier, in their order.
LEMMA EachCall ==
    ASSUME NEW n \in Nat, NEW keys \in [1..n -> Arguments], NEW toggle \in {"DOWN", "TAP", "UP"}
    PROVE  /\ Each(keys, toggle) \in Seq(CallRecords)
           /\ Len(Each(keys, toggle)) = n
           /\ \A i \in 1..n : Each(keys, toggle)[i] = Call(keys[i], toggle)
<1>1. Each(keys, toggle) = [i \in 1..n |-> Call(keys[i], toggle)]
  BY DEF Each
<1>2. \A i \in 1..n : Call(keys[i], toggle) \in CallRecords
  BY DEF Call, CallRecords
<1> QED
  BY <1>1, <1>2

\* The last loop of keyTap() takes the modifiers from the last to the first.
LEMMA ReverseOf ==
    ASSUME NEW n \in Nat, NEW keys \in [1..n -> Arguments]
    PROVE  /\ Reverse(keys) \in [1..n -> Arguments]
           /\ \A i \in 1..n : Reverse(keys)[n - i + 1] = keys[i]
<1>1. Len(keys) = n
  OBVIOUS
<1> QED
  BY <1>1 DEF Reverse

\* keyTap() releases each modifier after it has pressed it.
LEMMA TapCallsMatch ==
    ASSUME NEW n \in Nat, NEW key \in Arguments, NEW modifiers \in [1..n -> Arguments]
    PROVE  /\ TapCalls(key, modifiers) \in Seq(CallRecords)
           /\ Len(TapCalls(key, modifiers)) = 2 * n + 1
           /\ \A i \in DOMAIN TapCalls(key, modifiers) :
                TapCalls(key, modifiers)[i].toggle = "DOWN" =>
                  \E j \in DOMAIN TapCalls(key, modifiers) :
                     j > i /\ TapCalls(key, modifiers)[j] = Call(TapCalls(key, modifiers)[i].key, "UP")
<1> DEFINE downs == Each(modifiers, "DOWN")
           tap   == Call(key, "TAP")
           ups   == Each(Reverse(modifiers), "UP")
           tc    == TapCalls(key, modifiers)
<1>1. /\ downs \in Seq(CallRecords) /\ Len(downs) = n
      /\ \A i \in 1..n : downs[i] = Call(modifiers[i], "DOWN")
  BY EachCall
<1>2. Reverse(modifiers) \in [1..n -> Arguments]
  BY ReverseOf
<1>3. /\ ups \in Seq(CallRecords) /\ Len(ups) = n
      /\ \A i \in 1..n : ups[i] = Call(Reverse(modifiers)[i], "UP")
  BY <1>2, EachCall
<1>4. tap \in CallRecords /\ tap.toggle = "TAP"
  BY DEF Call, CallRecords
<1>5. tc = downs \o <<tap>> \o ups
  BY DEF TapCalls
<1> HIDE DEF downs, tap, ups, tc
<1>6. /\ tc \in Seq(CallRecords)
      /\ Len(tc) = 2 * n + 1
      /\ \A i \in 1..n : tc[i] = downs[i]
      /\ tc[n + 1] = tap
      /\ \A i \in 1..n : tc[n + 1 + i] = ups[i]
  <2> DEFINE front == downs \o <<tap>>
  <2>1. /\ front \in Seq(CallRecords)
        /\ Len(front) = n + 1
        /\ \A i \in 1..n : front[i] = downs[i]
        /\ front[n + 1] = tap
    BY <1>1, <1>4
  <2>2. tc = front \o ups
    BY <1>5
  <2> HIDE DEF front
  <2>3. /\ front \o ups \in Seq(CallRecords)
        /\ Len(front \o ups) = (n + 1) + n
        /\ \A i \in 1..(n + 1) : (front \o ups)[i] = front[i]
        /\ \A i \in 1..n : (front \o ups)[n + 1 + i] = ups[i]
    <3>1. front \in Seq(CallRecords) /\ ups \in Seq(CallRecords)
      BY <1>3, <2>1
    <3>2. /\ front \o ups \in Seq(CallRecords)
          /\ Len(front \o ups) = Len(front) + Len(ups)
          /\ \A i \in 1..Len(front) : (front \o ups)[i] = front[i]
          /\ \A i \in 1..Len(ups) : (front \o ups)[Len(front) + i] = ups[i]
      BY <3>1, ConcatOf
    <3> QED
      BY <1>3, <2>1, <3>2
  <2> QED
    BY <2>1, <2>2, <2>3
<1>7. ASSUME NEW i \in DOMAIN tc, tc[i].toggle = "DOWN"
      PROVE  \E j \in DOMAIN tc : j > i /\ tc[j] = Call(tc[i].key, "UP")
  <2>1. i \in 1..n
    <3>1. i \in 1..(2 * n + 1)
      BY <1>6
    <3>2. i # n + 1
      BY <1>4, <1>6, <1>7
    <3>3. ASSUME i > n + 1 PROVE FALSE
      <4>1. i - (n + 1) \in 1..n /\ i = n + 1 + (i - (n + 1))
        BY <3>1, <3>3
      <4>2. tc[i] = Call(Reverse(modifiers)[i - (n + 1)], "UP")
        BY <1>3, <1>6, <4>1
      <4> QED
        BY <1>7, <4>2 DEF Call
    <3> QED
      BY <3>1, <3>2, <3>3
  <2>2. tc[i].key = modifiers[i]
    BY <1>1, <1>6, <2>1 DEF Call
  <2>3. n - i + 1 \in 1..n
    BY <2>1
  <2>4. ups[n - i + 1] = Call(modifiers[i], "UP")
    BY <1>3, <2>1, <2>3, ReverseOf
  <2>5. /\ n + 1 + (n - i + 1) \in DOMAIN tc /\ n + 1 + (n - i + 1) > i
        /\ tc[n + 1 + (n - i + 1)] = Call(modifiers[i], "UP")
    BY <1>6, <2>1, <2>3, <2>4
  <2> QED
    BY <2>2, <2>5
<1> QED
  BY <1>6, <1>7 DEF tc

-----------------------------------------------------------------------------
(* Every press has its release to come.                                    *)

\* A call that will release key k.
CallReleases(k) == \E j \in DOMAIN calls : calls[j].toggle \in {"UP", "TAP"} /\ calls[j].key = k

Releases(k) == (\E j \in DOMAIN events : events[j] = Key("KEY_RELEASED", k)) \/ CallReleases(k)

TapTyped ==
    /\ calls \in Seq(CallRecords)
    /\ events \in Seq([type : KeyTypes, key : Keys])
    /\ downKeys \subseteq Postable

\* A press is the first of two events at most, and a release the last.
PressFirst ==
    /\ \A i \in DOMAIN events : events[i].type = "KEY_RELEASED" => i = Len(events)
    /\ Len(events) <= 2

DownIsReleased == \A k \in downKeys : k \in mayStay \/ Releases(k)

\* A press to come is released later, by the same call or by another, or may stay.
PressIsReleased ==
    \A i \in DOMAIN events :
       LET k == events[i].key IN
       events[i].type = "KEY_PRESSED" =>
          \/ k \notin Postable \/ k \in mayStay \/ CallReleases(k)
          \/ \E j \in DOMAIN events : j > i /\ events[j] = Key("KEY_RELEASED", k)

\* A call that presses has a call that releases behind it, or is keyToggle()'s.
CallIsReleased ==
    \A i \in DOMAIN calls :
       calls[i].toggle = "DOWN" =>
          \/ \E j \in DOMAIN calls : j > i /\ calls[j] = Call(calls[i].key, "UP")
          \/ calls[i].key \notin Postable
          \/ calls[i].key \in mayStay /\ events = <<>> /\ Len(calls) = 1

TapBalance ==
    /\ TapTyped
    /\ PressFirst
    /\ DownIsReleased
    /\ PressIsReleased
    /\ CallIsReleased

\* What is left of a sequence without its head.
LEMMA TailOf ==
    ASSUME NEW S, NEW q \in Seq(S), q # <<>>
    PROVE  /\ Head(q) = q[1] /\ 1 \in DOMAIN q /\ Head(q) \in S
           /\ Tail(q) \in Seq(S) /\ Len(Tail(q)) = Len(q) - 1
           /\ \A i \in DOMAIN Tail(q) : i + 1 \in DOMAIN q /\ Tail(q)[i] = q[i + 1]
           /\ \A i \in DOMAIN q : i # 1 => i - 1 \in DOMAIN Tail(q) /\ q[i] = Tail(q)[i - 1]
OBVIOUS

\* keyTap() plans a release behind each press.
LEMMA KeyTapBalance == ASSUME TapBalance, keyTap PROVE TapBalance'
<1>1. PICK key \in Arguments, n \in 0..MaxModifiers : \E modifiers \in [1..n -> Arguments] :
            calls' = TapCalls(key, modifiers)
  BY DEF keyTap
<1>2. PICK modifiers \in [1..n -> Arguments] : calls' = TapCalls(key, modifiers)
  BY <1>1
<1>3. n \in Nat
  BY TapAssumption
<1>4. /\ calls' \in Seq(CallRecords)
      /\ \A i \in DOMAIN calls' :
           calls'[i].toggle = "DOWN" =>
             \E j \in DOMAIN calls' : j > i /\ calls'[j] = Call(calls'[i].key, "UP")
  BY <1>2, <1>3, TapCallsMatch
<1>5. /\ calls = <<>> /\ events = <<>> /\ events' = <<>> /\ mayStay' = mayStay
      /\ downKeys' = downKeys
  BY DEF keyTap, Returned, Quiet
<1>6. downKeys \subseteq mayStay
  BY <1>5 DEF TapBalance, DownIsReleased, Releases, CallReleases
<1> QED
  BY <1>4, <1>5, <1>6
  DEF TapBalance, TapTyped, PressFirst, DownIsReleased, PressIsReleased, CallIsReleased

\* keyToggle() presses a key that may stay.
LEMMA KeyToggleBalance == ASSUME TapBalance, keyToggle PROVE TapBalance'
<1>1. /\ calls = <<>> /\ events = <<>> /\ events' = <<>>
      /\ downKeys' = downKeys
  BY DEF keyToggle, Returned, Quiet
<1>2. PICK key \in Arguments :
          \/ calls' = <<Call(key, "DOWN")>> /\ mayStay' = mayStay \cup ({key} \cap Postable)
          \/ calls' = <<Call(key, "UP")>> /\ mayStay' = mayStay
  BY DEF keyToggle
<1>3. downKeys \subseteq mayStay'
  BY <1>1, <1>2 DEF TapBalance, DownIsReleased, Releases, CallReleases
<1>4. calls' \in Seq(CallRecords)
  <2>1. Call(key, "DOWN") \in CallRecords /\ Call(key, "UP") \in CallRecords
    BY DEF Call, CallRecords
  <2>2. ASSUME NEW S, NEW x \in S PROVE <<x>> \in Seq(S)
    OBVIOUS
  <2> QED
    BY <1>2, <2>1, <2>2
<1>6. TapTyped' /\ PressFirst' /\ PressIsReleased'
  BY <1>1, <1>4 DEF TapBalance, TapTyped, PressFirst, PressIsReleased
<1>5. CallIsReleased'
  BY <1>1, <1>2 DEF CallIsReleased, Call
<1> QED
  BY <1>1, <1>3, <1>5, <1>6 DEF TapBalance, DownIsReleased

\* key_tap() makes of a call events that press and release as it did.
LEMMA ReadBalance == ASSUME TapBalance, ArgumentsRead PROVE TapBalance'
<1> DEFINE c == Head(calls)
<1>1. /\ events = <<>> /\ calls # <<>> /\ calls' = Tail(calls) /\ downKeys' = downKeys
  BY DEF ArgumentsRead, Quiet
<1>2. /\ c = calls[1] /\ 1 \in DOMAIN calls /\ c \in CallRecords
      /\ calls' \in Seq(CallRecords) /\ Len(calls') = Len(calls) - 1
      /\ \A i \in DOMAIN calls' : i + 1 \in DOMAIN calls /\ calls'[i] = calls[i + 1]
      /\ \A i \in DOMAIN calls : i # 1 => i - 1 \in DOMAIN calls' /\ calls[i] = calls'[i - 1]
  BY <1>1, TailOf DEF TapBalance, TapTyped
<1>3. PICK k \in Keys :
         /\ events' = EventsOf(k, c.toggle)
         /\ \/ c.key = k /\ mayStay' = mayStay
            \/ c.key = NotANumber /\ mayStay' = mayStay \cup ({k} \cap Postable)
  BY DEF ArgumentsRead
<1>4. /\ Key("KEY_PRESSED", k) \in [type : KeyTypes, key : Keys]
      /\ Key("KEY_RELEASED", k) \in [type : KeyTypes, key : Keys]
      /\ Key("KEY_PRESSED", k).type = "KEY_PRESSED" /\ Key("KEY_PRESSED", k).key = k
      /\ Key("KEY_RELEASED", k).type = "KEY_RELEASED"
  BY DEF Key, KeyTypes
<1>5. \/ c.toggle = "DOWN" /\ events' = <<Key("KEY_PRESSED", k)>>
      \/ c.toggle = "UP" /\ events' = <<Key("KEY_RELEASED", k)>>
      \/ c.toggle = "TAP" /\ events' \in Seq([type : KeyTypes, key : Keys]) /\ Len(events') = 2
         /\ events'[1] = Key("KEY_PRESSED", k) /\ events'[2] = Key("KEY_RELEASED", k)
  <2>1. c.toggle \in {"DOWN", "TAP", "UP"}
    BY <1>2 DEF CallRecords
  <2>2. ASSUME NEW x PROVE <<x>> \o <<>> = <<x>> /\ <<>> \o <<x>> = <<x>>
    <3>1. <<x>> \in Seq({x}) /\ <<>> \in Seq({x})
      OBVIOUS
    <3> QED
      BY <3>1
  <2>3. ASSUME NEW S, NEW x \in S, NEW y \in S
        PROVE  /\ <<x>> \o <<y>> \in Seq(S) /\ Len(<<x>> \o <<y>>) = 2
               /\ (<<x>> \o <<y>>)[1] = x /\ (<<x>> \o <<y>>)[2] = y
    OBVIOUS
  <2>4. CASE c.toggle = "TAP"
    <3>1. events' = <<Key("KEY_PRESSED", k)>> \o <<Key("KEY_RELEASED", k)>>
      BY <1>3, <2>4 DEF EventsOf
    <3> QED
      BY <1>4, <2>3, <2>4, <3>1
  <2>5. CASE c.toggle # "TAP"
    BY <1>3, <2>1, <2>2, <2>5 DEF EventsOf
  <2> QED
    BY <2>4, <2>5
<1>6. ASSUME NEW q, CallReleases(q) PROVE CallReleases(q)' \/ (c.toggle \in {"UP", "TAP"} /\ c.key = q)
  BY <1>2, <1>6 DEF CallReleases
<1>7. TapTyped'
  <2>1. ASSUME NEW S, NEW x \in S PROVE <<x>> \in Seq(S)
    OBVIOUS
  <2>2. events' \in Seq([type : KeyTypes, key : Keys])
    BY <1>4, <1>5, <2>1
  <2> QED
    BY <1>1, <1>2, <2>2 DEF TapBalance, TapTyped
<1>8. PressFirst'
  <2>1. CASE c.toggle # "TAP"
    <3>1. Len(events') = 1
      BY <1>5, <2>1
    <3> QED
      BY <1>5, <2>1, <3>1 DEF PressFirst
  <2>2. CASE c.toggle = "TAP"
    <3>1. Len(events') = 2 /\ events'[1].type # "KEY_RELEASED"
      BY <1>4, <1>5, <2>2
    <3> QED
      BY <1>5, <2>2, <3>1 DEF PressFirst
  <2> QED
    BY <2>1, <2>2
<1>9. DownIsReleased'
  <2> SUFFICES ASSUME NEW q \in downKeys, q \notin mayStay PROVE q \in mayStay' \/ Releases(q)'
    BY <1>1, <1>3 DEF DownIsReleased
  <2>1. CallReleases(q)
    BY <1>1 DEF TapBalance, DownIsReleased, Releases
  <2>2. CASE CallReleases(q)'
    BY <2>2 DEF Releases
  <2>3. CASE c.toggle \in {"UP", "TAP"} /\ c.key = q
    <3>1. q \in Keys
      BY DEF TapBalance, TapTyped, Postable
    <3>2. q = k
      BY <1>3, <2>3, <3>1, TapAssumption
    <3> QED
      BY <1>5, <2>3, <3>2 DEF Releases
  <2> QED
    BY <1>6, <2>1, <2>2, <2>3
<1>10. PressIsReleased'
  <2>1. CASE c.toggle = "DOWN"
    <3>1. /\ k \notin Postable \/ k \in mayStay' \/ CallReleases(k)'
      <4>1. CASE c.key = NotANumber
        BY <1>3, <4>1, TapAssumption
      <4>2. CASE c.key = k
        <5>1. CASE \E j \in DOMAIN calls : j > 1 /\ calls[j] = Call(k, "UP")
          BY <1>2, <5>1 DEF CallReleases, Call
        <5>2. CASE k \notin Postable \/ k \in mayStay
          BY <1>3, <5>2
        <5> QED
          BY <1>2, <2>1, <4>2, <5>1, <5>2 DEF TapBalance, CallIsReleased
      <4> QED
        BY <1>3, <4>1, <4>2
    <3> QED
      BY <1>4, <1>5, <2>1, <3>1 DEF PressIsReleased
  <2>2. CASE c.toggle = "UP"
    BY <1>4, <1>5, <2>2 DEF PressIsReleased
  <2>3. CASE c.toggle = "TAP"
    <3>1. /\ 2 \in DOMAIN events' /\ 2 > 1 /\ events'[2] = Key("KEY_RELEASED", k)
          /\ DOMAIN events' = 1..2
          /\ events'[1].key = k /\ events'[2].type # "KEY_PRESSED"
      BY <1>4, <1>5, <2>3
    <3>2. \A i \in DOMAIN events' : events'[i].type = "KEY_PRESSED" => i = 1
      BY <3>1
    <3> QED
      BY <3>1, <3>2 DEF PressIsReleased
  <2> QED
    BY <1>5, <2>1, <2>2, <2>3
<1>11. CallIsReleased'
  <2> SUFFICES ASSUME NEW i \in DOMAIN calls', calls'[i].toggle = "DOWN"
               PROVE  \/ \E j \in DOMAIN calls' : j > i /\ calls'[j] = Call(calls'[i].key, "UP")
                      \/ calls'[i].key \notin Postable
    BY DEF CallIsReleased
  <2>1. i + 1 \in DOMAIN calls /\ calls[i + 1] = calls'[i] /\ i \in Nat \ {0} /\ Len(calls) # 1
    BY <1>2 DEF TapBalance, TapTyped
  <2>2. CASE \E j \in DOMAIN calls : j > i + 1 /\ calls[j] = Call(calls'[i].key, "UP")
    <3>1. PICK j \in DOMAIN calls : j > i + 1 /\ calls[j] = Call(calls'[i].key, "UP")
      BY <2>2
    <3>2. j - 1 \in DOMAIN calls' /\ calls[j] = calls'[j - 1] /\ j - 1 > i
      BY <1>2, <2>1, <3>1 DEF TapBalance, TapTyped
    <3> QED
      BY <3>1, <3>2
  <2> QED
    BY <2>1, <2>2 DEF TapBalance, CallIsReleased
<1> QED
  BY <1>7, <1>8, <1>9, <1>10, <1>11 DEF TapBalance

\* A call that throws leaves what is down, which may stay.
LEMMA ThrowBalance == ASSUME TapBalance, ArgumentThrows PROVE TapBalance'
<1>1. /\ events = <<>> /\ events' = <<>> /\ calls' = <<>>
      /\ downKeys' = downKeys /\ downKeys \subseteq mayStay'
  BY DEF ArgumentThrows, Quiet
<1> QED
  BY <1>1
  DEF TapBalance, TapTyped, PressFirst, DownIsReleased, PressIsReleased, CallIsReleased

\* A press leaves its release to come; a release that is lost, a key that may stay.
LEMMA PostBalance == ASSUME TapBalance, PostNext PROVE TapBalance'
<1> DEFINE e == Head(events)
<1> PICK k : k = e.key
  OBVIOUS
<1>1. /\ events # <<>> /\ events' = Tail(events) /\ calls' = calls
      /\ PostKey(e.type, k)
      /\ mayStay' = IF IsPress(e.type) THEN mayStay
                    ELSE IF posted' = <<>> THEN mayStay \cup ({k} \cap Postable)
                    ELSE mayStay \ {k}
  BY DEF PostNext
<1>2. /\ e = events[1] /\ 1 \in DOMAIN events /\ e \in [type : KeyTypes, key : Keys]
      /\ events' \in Seq([type : KeyTypes, key : Keys]) /\ Len(events') = Len(events) - 1
      /\ \A i \in DOMAIN events' : i + 1 \in DOMAIN events /\ events'[i] = events[i + 1]
      /\ \A i \in DOMAIN events : i # 1 => i - 1 \in DOMAIN events' /\ events[i] = events'[i - 1]
  BY <1>1, TailOf DEF TapBalance, TapTyped
<1>3. posted' # <<>> => k \in Postable
  <2>1. ASSUME posted' # <<>> PROVE k # Unknown
    BY <1>1, <2>1 DEF PostKey, Unavailable, PostKeyX11, PostKeyDarwin, PostKeyWindows, Refused
  <2> QED
    BY <1>2, <2>1 DEF Postable
<1>4. downKeys' = IF posted' # <<>> THEN After(downKeys, e.type, {k}) ELSE downKeys
  BY <1>1 DEF PostKey, KeyFollows
<1>5. e.type \in KeyTypes /\ (IsPress(e.type) <=> e.type = "KEY_PRESSED")
  BY <1>2 DEF KeyTypes, IsPress
<1>6. TapTyped'
  BY <1>1, <1>2, <1>3, <1>4 DEF TapBalance, TapTyped, After
<1>7. PressFirst'
  <2>1. /\ Len(events') <= 2 /\ Len(events) \in Nat
        /\ \A i \in DOMAIN events' : events'[i].type = "KEY_RELEASED" => i + 1 = Len(events)
    BY <1>2 DEF TapBalance, PressFirst, TapTyped
  <2>2. \A i \in DOMAIN events' : i \in Nat
    BY <1>2
  <2> QED
    BY <1>2, <2>1, <2>2 DEF PressFirst
<1>8. ASSUME NEW q, Releases(q) PROVE Releases(q)' \/ (e.type = "KEY_RELEASED" /\ q = k)
  <2>1. CASE CallReleases(q)
    BY <1>1, <2>1 DEF Releases, CallReleases
  <2>2. ASSUME NEW j \in DOMAIN events, events[j] = Key("KEY_RELEASED", q)
        PROVE  Releases(q)' \/ (e.type = "KEY_RELEASED" /\ q = k)
    BY <1>2, <2>2 DEF Releases, Key
  <2> QED
    BY <1>8, <2>1, <2>2 DEF Releases
<1>9. CASE e.type = "KEY_PRESSED"
  <2>1. mayStay' = mayStay
    BY <1>1, <1>5, <1>9
  <2>2. k \notin Postable \/ k \in mayStay' \/ Releases(k)'
    <3>1. CASE \E j \in DOMAIN events : j > 1 /\ events[j] = Key("KEY_RELEASED", k)
      <4>1. PICK j \in DOMAIN events : j > 1 /\ events[j] = Key("KEY_RELEASED", k)
        BY <3>1
      <4>2. j - 1 \in DOMAIN events' /\ events[j] = events'[j - 1]
        BY <1>2, <4>1
      <4> QED
        BY <4>1, <4>2 DEF Releases
    <3>2. CASE CallReleases(k)
      BY <1>1, <3>2 DEF Releases, CallReleases
    <3> QED
      BY <1>2, <1>9, <2>1, <3>1, <3>2 DEF TapBalance, PressIsReleased
  <2>3. DownIsReleased'
    <3> SUFFICES ASSUME NEW q \in downKeys' PROVE q \in mayStay' \/ Releases(q)'
      BY DEF DownIsReleased
    <3>1. CASE q \in downKeys
      BY <1>8, <1>9, <2>1, <3>1 DEF TapBalance, DownIsReleased
    <3>2. CASE q \notin downKeys
      <4>1. posted' # <<>> /\ q = k
        BY <1>4, <3>2 DEF After
      <4> QED
        BY <1>3, <2>2, <4>1
    <3> QED
      BY <3>1, <3>2
  <2>4. PressIsReleased'
    <3> SUFFICES ASSUME NEW i \in DOMAIN events', events'[i].type = "KEY_PRESSED",
                        NEW q, q = events'[i].key
                 PROVE  \/ q \notin Postable \/ q \in mayStay' \/ CallReleases(q)'
                        \/ \E j \in DOMAIN events' : j > i /\ events'[j] = Key("KEY_RELEASED", q)
      BY DEF PressIsReleased, CallReleases
    <3>1. /\ i + 1 \in DOMAIN events /\ events'[i] = events[i + 1] /\ i \in Nat
          /\ CallReleases(q)' <=> CallReleases(q)
      BY <1>1, <1>2 DEF CallReleases
    <3>2. ASSUME NEW j \in DOMAIN events, j > i + 1 PROVE j - 1 \in DOMAIN events' /\ j - 1 > i /\ events[j] = events'[j - 1]
      BY <1>2, <3>1, <3>2
    <3> QED
      BY <2>1, <3>1, <3>2 DEF TapBalance, PressIsReleased
  <2>5. CallIsReleased'
    BY <1>1, <2>1 DEF TapBalance, CallIsReleased
  <2> QED
    BY <1>6, <1>7, <2>3, <2>4, <2>5 DEF TapBalance
<1>10. CASE e.type = "KEY_RELEASED"
  <2>1. events' = <<>>
    <3>1. Len(events) = 1
      BY <1>2, <1>10 DEF TapBalance, PressFirst
    <3> QED
      BY <1>2, <3>1
  <2>2. DownIsReleased'
    <3> SUFFICES ASSUME NEW q \in downKeys' PROVE q \in mayStay' \/ Releases(q)'
      BY DEF DownIsReleased
    <3>1. /\ ~IsPress(e.type) /\ q \in downKeys /\ (posted' = <<>> \/ q # k)
          /\ q \in Postable
      BY <1>4, <1>5, <1>10 DEF After, TapBalance, TapTyped
    <3>2. q \in mayStay \/ q = k \/ Releases(q)'
      BY <1>8, <3>1 DEF TapBalance, DownIsReleased
    <3> QED
      BY <1>1, <3>1, <3>2
  <2>3. PressIsReleased'
    BY <2>1 DEF PressIsReleased
  <2>4. CallIsReleased'
    BY <1>1 DEF TapBalance, CallIsReleased
  <2> QED
    BY <1>6, <1>7, <2>2, <2>3, <2>4 DEF TapBalance
<1> QED
  BY <1>5, <1>9, <1>10 DEF KeyTypes

\* At every moment of a tap, each press has its release to come or may stay.
LEMMA BalanceInvariant == TapSpec => []TapBalance
<1>1. TapInit => TapBalance
  BY DEF TapInit, PostInit, TapBalance, TapTyped, PressFirst, DownIsReleased,
         PressIsReleased, CallIsReleased
<1>2. TapBalance /\ [TapNext]_vars => TapBalance'
  <2> SUFFICES ASSUME TapBalance, [TapNext]_vars PROVE TapBalance'
    OBVIOUS
  <2>1. ASSUME UNCHANGED <<downKeys, tapVars>> PROVE TapBalance'
    BY <2>1 DEF tapVars, TapBalance, TapTyped, PressFirst, DownIsReleased, Releases,
                PressIsReleased, CallIsReleased, CallReleases
  <2>2. CASE PostMouse /\ UNCHANGED tapVars
    <3>1. downKeys' = downKeys
      BY <2>2 DEF PostMouse, PostMotionOrWheel, PostButton, ButtonFollows
    <3> QED
      BY <2>1, <2>2, <3>1
  <2>3. CASE UNCHANGED vars
    BY <2>1, <2>3 DEF vars, postVars
  <2> QED
    BY <2>2, <2>3, KeyTapBalance, KeyToggleBalance, ReadBalance, ThrowBalance, PostBalance
    DEF TapNext
<1> QED
  BY <1>1, <1>2, PTL DEF TapSpec

\* However many modifiers keyTap() is given and whichever post is lost, no key is
\* down when it is through but those keyToggle() pressed, those whose release was
\* lost, and those down when an argument made the call throw.
THEOREM TapsRelease == TapSpec => []TapsAreReleased
<1>1. TapBalance => TapsAreReleased
  BY DEF TapBalance, DownIsReleased, Releases, CallReleases, TapsAreReleased, Returned
<1> QED
  BY <1>1, BalanceInvariant, PTL

-----------------------------------------------------------------------------
(* Types.                                                                  *)

CallsBounded == Len(calls) <= 2 * MaxModifiers + 1

\* Posting a key keeps the types, whatever becomes of the post.
LEMMA KeyKeepsTypes ==
    ASSUME PostTypeOK, NEW type, NEW k \in Keys, PostKey(type, k)
    PROVE  /\ platform' \in Platforms
           /\ currentModifierMask' \subseteq DOMAIN Pairs \cup ButtonBits
           /\ motion' = motion /\ motionButton' = motionButton
           /\ downKeys' \subseteq Keys \ {Unknown} /\ downButtons' \subseteq Buttons \ {0}
           /\ stale' \subseteq DOMAIN Pairs \cup ButtonBits \cup {"MOTION"}
<1>1. Flags({k}) \subseteq DOMAIN Pairs
  BY DEF Flags
<1>2. /\ platform' = platform /\ downButtons' = downButtons
      /\ motion' = motion /\ motionButton' = motionButton
      /\ stale' \in {stale, stale \ Flags({k}), stale \cup Flags({k})}
  BY DEF PostKey, KeyFollows, Unavailable
<1>3. currentModifierMask' \in {currentModifierMask, After(currentModifierMask, type, Flags({k}))}
  BY DEF PostKey, Unavailable, PostKeyX11, PostKeyDarwin, PostKeyWindows, NewMask
<1>4. posted' # <<>> => k # Unknown
  BY DEF PostKey, Unavailable, PostKeyX11, PostKeyDarwin, PostKeyWindows, Refused
<1>5. downKeys' = IF posted' # <<>> THEN After(downKeys, type, {k}) ELSE downKeys
  BY DEF PostKey, KeyFollows
<1> QED
  BY <1>1, <1>2, <1>3, <1>4, <1>5 DEF PostTypeOK, After

\* Posting a button keeps the types, whatever becomes of the post.
LEMMA ButtonKeepsTypes ==
    ASSUME PostTypeOK, NEW type, NEW b \in Buttons, PostButton(type, b)
    PROVE  /\ platform' \in Platforms
           /\ currentModifierMask' \subseteq DOMAIN Pairs \cup ButtonBits
           /\ motion' \in DragKinds \cup {"MOVED"} /\ motionButton' \in Buttons \cup {1}
           /\ downKeys' \subseteq Keys \ {Unknown} /\ downButtons' \subseteq Buttons \ {0}
           /\ stale' \subseteq DOMAIN Pairs \cup ButtonBits \cup {"MOTION"}
<1> DEFINE known == \E i \in DOMAIN posted' : posted'[i].type = type
<1>1. Shown({}, {b}) \subseteq ButtonBits
  BY BitsApart
<1>2. Drag(b) \in DragKinds
  BY DEF Drag, DragKinds
<1>3. /\ platform' = platform /\ downKeys' = downKeys
      /\ downButtons' = IF known THEN After(downButtons, type, {b}) ELSE downButtons
  BY DEF PostButton, ButtonFollows
<1>4. stale' \subseteq stale \cup Shown({}, {b}) \cup {"MOTION"}
  BY DEF PostButton, ButtonFollows
<1>5. currentModifierMask' \subseteq currentModifierMask \cup ButtonBits
  BY DEF PostButton, PostButtonX11, PostButtonDarwin, PostButtonWindows, Unavailable,
         After, ButtonBits
<1>6. motion' \in {motion, Drag(b), "MOVED"} /\ motionButton' \in {motionButton, b}
  BY DEF PostButton, PostButtonX11, PostButtonDarwin, PostButtonWindows, Unavailable, NextMotion
<1>7. known => b # 0
  <2> SUFFICES ASSUME b = 0 PROVE posted' = <<>>
    OBVIOUS
  <2>1. 0 \notin 1..5
    OBVIOUS
  <2> QED
    BY <2>1 DEF PostButton, PostButtonX11, PostButtonDarwin, PostButtonWindows, Unavailable, Refused
<1>8. downButtons' \subseteq Buttons \ {0}
  BY <1>3, <1>7 DEF PostTypeOK, After
<1> QED
  BY <1>1, <1>2, <1>3, <1>4, <1>5, <1>6, <1>8 DEF PostTypeOK, DragKinds

\* The flags, the drag, the buttons and keys down and the lengths of what is still
\* to be done keep their types and bounds on every platform: in particular the key
\* that has no code and MOUSE_NOBUTTON are never down.
THEOREM PostTypeCorrect == TapSpec => []PostTypeOK
<1>1. TapInit => PostTypeOK
  <2>1. 0 <= 2 * MaxModifiers + 1
    BY TapAssumption
  <2> QED
    BY <2>1 DEF TapInit, PostInit, PostTypeOK
<1>2. PostTypeOK /\ TapBalance /\ TapBalance' /\ [TapNext]_vars => PostTypeOK'
  <2> SUFFICES ASSUME PostTypeOK, TapBalance, TapBalance', [TapNext]_vars PROVE PostTypeOK'
    OBVIOUS
  <2>1. Len(events') <= 2
    BY DEF TapBalance, PressFirst
  <2>2. calls \in Seq(CallRecords) /\ calls' \in Seq(CallRecords) /\ MaxModifiers \in Nat
    BY TapAssumption DEF TapBalance, TapTyped
  <2>3. CASE keyTap
    <3>1. PICK key \in Arguments, n \in 0..MaxModifiers : \E modifiers \in [1..n -> Arguments] :
                calls' = TapCalls(key, modifiers)
      BY <2>3 DEF keyTap
    <3>2. n \in Nat /\ n <= MaxModifiers
      BY <2>2
    <3>3. Len(calls') = 2 * n + 1
      BY <3>1, <3>2, TapCallsMatch
    <3>4. CallsBounded'
      BY <2>2, <3>2, <3>3 DEF CallsBounded
    <3> QED
      BY <2>1, <2>3, <3>4 DEF keyTap, Quiet, PostTypeOK, CallsBounded
  <2>4. CASE keyToggle
    <3>1. Len(calls') = 1
      BY <2>4 DEF keyToggle
    <3>2. CallsBounded'
      BY <2>2, <3>1 DEF CallsBounded
    <3>3. mayStay' \subseteq Postable
      BY <2>4 DEF keyToggle, PostTypeOK
    <3> QED
      BY <2>1, <2>4, <3>2, <3>3 DEF keyToggle, Quiet, PostTypeOK, CallsBounded
  <2>5. CASE ArgumentsRead
    <3>1. calls # <<>> /\ calls' = Tail(calls)
      BY <2>5 DEF ArgumentsRead
    <3>2. Len(calls') = Len(calls) - 1
      BY <2>2, <3>1, TailOf
    <3>3. CallsBounded'
      BY <2>2, <3>2 DEF CallsBounded, PostTypeOK
    <3>4. mayStay' \subseteq Postable
      BY <2>5 DEF ArgumentsRead, PostTypeOK
    <3> QED
      BY <2>1, <2>5, <3>3, <3>4 DEF ArgumentsRead, Quiet, PostTypeOK, CallsBounded
  <2>6. CASE ArgumentThrows
    <3>1. Len(calls') = 0
      BY <2>6 DEF ArgumentThrows
    <3>2. CallsBounded'
      BY <2>2, <3>1 DEF CallsBounded
    <3>3. mayStay' \subseteq Postable
      BY <2>6 DEF ArgumentThrows, PostTypeOK, Postable
    <3> QED
      BY <2>1, <2>6, <3>2, <3>3 DEF ArgumentThrows, Quiet, PostTypeOK, CallsBounded
  <2>7. CASE PostNext
    <3> PICK k : k = Head(events).key
      OBVIOUS
    <3>1. k \in Keys
      <4>1. events # <<>>
        BY <2>7 DEF PostNext
      <4>2. Head(events) \in [type : KeyTypes, key : Keys]
        BY <4>1, TailOf DEF TapBalance, TapTyped
      <4> QED
        BY <4>2
    <3>2. PostKey(Head(events).type, k)
      BY <2>7 DEF PostNext
    <3>3. mayStay' \subseteq Postable
      BY <2>7 DEF PostNext, PostTypeOK
    <3>4. calls' = calls
      BY <2>7 DEF PostNext
    <3> HIDE <2>7
    <3> QED
      BY <2>1, <3>1, <3>2, <3>3, <3>4, KeyKeepsTypes DEF PostTypeOK
  <2>8. CASE PostMouse /\ UNCHANGED tapVars
    <3>1. CASE PostMotionOrWheel
      BY <2>8, <3>1 DEF PostMotionOrWheel, tapVars, PostTypeOK
    <3>2. ASSUME NEW b \in Buttons, NEW type \in {"MOUSE_PRESSED", "MOUSE_RELEASED"},
                 PostButton(type, b)
          PROVE  PostTypeOK'
      BY <2>8, <3>2, ButtonKeepsTypes DEF tapVars, PostTypeOK, DragKinds
    <3> QED
      BY <2>8, <3>1, <3>2 DEF PostMouse
  <2>9. CASE UNCHANGED vars
    BY <2>9 DEF vars, postVars, tapVars, PostTypeOK
  <2> QED
    BY <2>3, <2>4, <2>5, <2>6, <2>7, <2>8, <2>9 DEF TapNext
<1> QED
  BY <1>1, <1>2, BalanceInvariant, PTL DEF TapSpec
=============================================================================
