--------------------------- MODULE X11InputProofs ---------------------------
(***************************************************************************)
(* What the X11 hook makes of the stream of recorded events, for any keys  *)
(* and buttons, any mapping and failing queries, however far the server is *)
(* ahead: the proofs about X11Input.                                       *)
(***************************************************************************)
EXTENDS X11Input, InputEventsProofs

-----------------------------------------------------------------------------
(* Types.                                                                  *)

Click == [count : 0..ClickLimit, time : Clock, button : 0..5]
Press == [button : 0..5, time : Clock]
ThreeBits == {"BUTTON1", "BUTTON2", "BUTTON3"}

\* A key event is of no button, a button event of no key, a motion of neither.
WellFormed(e) ==
  /\ e.type \in {"KeyPress", "KeyRelease"} => e.button = 0
  /\ e.type \in {"ButtonPress", "ButtonRelease"} => e.key = "" /\ e.button # 0
  /\ e.type = "MotionNotify" => e.key = "" /\ e.button = 0

\* InputTypeOK, with the kinds of event that are recorded.
Types == InputTypeOK /\ \A i \in DOMAIN pending : WellFormed(pending[i])

\* Which bits there are, and that the three groups of them share none.
LEMMA BitGroups ==
  /\ ModifierKeys \subseteq MaskBits /\ LockKeys \subseteq MaskBits /\ ButtonBits \subseteq MaskBits
  /\ ModifierKeys \cap LockKeys = {} /\ ModifierKeys \cap ButtonBits = {} /\ LockKeys \cap ButtonBits = {}
  /\ ThreeBits \subseteq ButtonBits /\ "MAPPING" \notin MaskBits /\ "LOCKS" \notin MaskBits
  /\ \A i \in 1..5 : ButtonBit[i] \in ButtonBits
  /\ \A i \in 1..3, j \in 1..5 : ButtonBit[i] \in ThreeBits /\ (ButtonBit[i] = ButtonBit[j] => i = j)
<1>1. \A i \in 1..5 : ButtonBit[i] \in ButtonBits
  BY DEF ButtonBits
<1>2. /\ ButtonBit[1] = "BUTTON1" /\ ButtonBit[2] = "BUTTON2" /\ ButtonBit[3] = "BUTTON3"
      /\ ButtonBit[4] = "BUTTON4" /\ ButtonBit[5] = "BUTTON5"
  BY DEF ButtonBit
<1>3. ThreeBits \subseteq ButtonBits
  BY <1>1, <1>2 DEF ThreeBits
<1>4. ButtonBits \subseteq {"BUTTON1", "BUTTON2", "BUTTON3", "BUTTON4", "BUTTON5"}
  BY <1>2 DEF ButtonBits
<1>5. /\ ModifierKeys \cap LockKeys = {} /\ ModifierKeys \cap ButtonBits = {}
      /\ LockKeys \cap ButtonBits = {}
  BY <1>4 DEF ModifierKeys, LockKeys
<1>6. /\ ModifierKeys \subseteq MaskBits /\ LockKeys \subseteq MaskBits /\ ButtonBits \subseteq MaskBits
      /\ "MAPPING" \notin MaskBits /\ "LOCKS" \notin MaskBits
  BY <1>4 DEF MaskBits, ModifierKeys, LockKeys
<1>7. \A i \in 1..3, j \in 1..5 : ButtonBit[i] \in ThreeBits /\ (ButtonBit[i] = ButtonBit[j] => i = j)
  BY <1>2 DEF ThreeBits
<1> QED
  BY <1>1, <1>3, <1>5, <1>6, <1>7

\* Looking a button up exchanges numbers, and the bits it leads to are of buttons.
LEMMA LookedUp ==
  /\ \A b \in Nat : button_map_lookup(b) \in Nat
  /\ \A b \in Nat, c \in Nat : button_map_lookup(b) = button_map_lookup(c) => b = c
  /\ \A m \in Nat : MouseButton(m) \in 0..5 /\ PressBits(m) \subseteq ButtonBits
  /\ \A keys, buttons : ShownNow(keys, buttons) \subseteq MaskBits
<1>1. \A b \in Nat : Logical(b) \in Nat
  BY DEF Logical
<1>2. \A b \in Nat, c \in Nat : Logical(b) = Logical(c) => b = c
  BY DEF Logical
<1>3. \A b \in Nat : Swap23(b) \in Nat
  BY DEF Swap23
<1>4. \A b \in Nat, c \in Nat : Swap23(b) = Swap23(c) => b = c
  BY DEF Swap23
<1>5. \A m \in Nat : MouseButton(m) \in 0..5
  BY DEF MouseButton
<1>6. \A m \in Nat : PressBits(m) \subseteq ButtonBits
  <2>1. "BUTTON5" \in ButtonBits
    BY DEF ButtonBits, ButtonBit
  <2> QED
    BY <2>1, BitGroups DEF PressBits
<1>7. \A keys, buttons : ShownNow(keys, buttons) \subseteq MaskBits
  BY BitGroups DEF ShownNow, Shown
<1> QED
  BY <1>1, <1>2, <1>3, <1>4, <1>5, <1>6, <1>7 DEF button_map_lookup

\* The number 0 stands for no button, whatever the mapping.
LEMMA NoButton ==
  ASSUME NEW b, b = 0
  PROVE  button_map_lookup(b) = 0 /\ PressBits(button_map_lookup(b)) = {}
BY DEF PressBits, button_map_lookup, Swap23, Logical

LEMMA Appended ==
  ASSUME NEW S, NEW s \in Seq(S), NEW x \in S
  PROVE  /\ Append(s, x) \in Seq(S) /\ Len(Append(s, x)) = Len(s) + 1
         /\ Append(s, x)[Len(s) + 1] = x /\ \A i \in DOMAIN s : Append(s, x)[i] = s[i]
         /\ DOMAIN s = 1..Len(s) /\ DOMAIN Append(s, x) = 1 .. Len(s)+1 /\ Len(s) \in Nat
OBVIOUS

LEMMA EmptyStream ==
  ASSUME NEW S, NEW s \in Seq(S)
  PROVE  s = <<>> <=> Len(s) = 0
OBVIOUS

LEMMA StreamGrows ==
  ASSUME InputTypeOK, Len(pending) < MaxPending, NEW e \in Recorded
  PROVE  /\ pending \in Seq(Recorded) /\ Len(pending) <= MaxPending
         /\ Append(pending, e) \in Seq(Recorded) /\ Len(Append(pending, e)) <= MaxPending
         /\ \A i \in DOMAIN Append(pending, e) :
              \/ i \in DOMAIN pending /\ Append(pending, e)[i] = pending[i]
              \/ i = Len(pending) + 1 /\ Append(pending, e)[i] = e
         /\ Len(pending) \in Nat /\ DOMAIN pending = 1..Len(pending)
         /\ Append(pending, e) # <<>> /\ Len(Append(pending, e)) = Len(pending) + 1
         /\ DOMAIN Append(pending, e) = 1 .. Len(pending)+1
         /\ Append(pending, e)[Len(pending) + 1] = e
         /\ \A i \in DOMAIN pending : i \in DOMAIN Append(pending, e) /\ Append(pending, e)[i] = pending[i]
<1>1. pending \in Seq(Recorded)
  BY DEF InputTypeOK
<1>2. Len(pending) \in Nat
  BY <1>1
<1>3. MaxPending \in Nat
  BY InputAssumption
<1>4. /\ Append(pending, e) \in Seq(Recorded) /\ Len(Append(pending, e)) = Len(pending) + 1
      /\ Append(pending, e)[Len(pending) + 1] = e
      /\ \A i \in DOMAIN pending : Append(pending, e)[i] = pending[i]
      /\ DOMAIN pending = 1..Len(pending) /\ DOMAIN Append(pending, e) = 1 .. Len(pending)+1
  BY <1>1, Appended
<1>5. \A i \in DOMAIN Append(pending, e) : i \in DOMAIN pending \/ i = Len(pending) + 1
  BY <1>2, <1>4
<1>6. \A i \in DOMAIN pending : i \in DOMAIN Append(pending, e)
  BY <1>2, <1>4
<1>7. Append(pending, e) # <<>>
  BY <1>1
<1> QED
  BY <1>1, <1>2, <1>3, <1>4, <1>5, <1>6, <1>7

\* The stream is longer by one event.
Grown(type, key, button, keys, buttons) ==
  /\ Len(pending) \in Nat /\ DOMAIN pending = 1..Len(pending)
  /\ pending = <<>> <=> Len(pending) = 0
  /\ pending' # <<>> /\ Len(pending') = Len(pending) + 1
  /\ DOMAIN pending' = 1 .. Len(pending)+1
  /\ LET e == pending'[Len(pending) + 1]
     IN  /\ e.type = type /\ e.key = key /\ e.button = button /\ e.time = now
         /\ e.shown = ShownNow(keys, buttons)
  /\ \A i \in DOMAIN pending : i \in DOMAIN pending' /\ pending'[i] = pending[i]

\* What changes while the context is enabled is recorded.
LEMMA RecordGrows ==
  ASSUME Types, NEW type \in EventTypes, NEW key \in Keys \cup {""},
         NEW button \in Buttons \cup {0}, NEW keys, NEW buttons,
         Record(type, key, button, keys, buttons), recording = "on"
  PROVE  Grown(type, key, button, keys, buttons)
<1> DEFINE e == [type |-> type, key |-> key, button |-> button,
                 time |-> now, shown |-> ShownNow(keys, buttons)]
<1>1. e \in Recorded
  BY LookedUp DEF Recorded, InputTypeOK, Types
<1>2. pending' = Append(pending, e) /\ Len(pending) < MaxPending
  BY DEF Record
<1>3. /\ e.type = type /\ e.key = key /\ e.button = button /\ e.time = now
      /\ e.shown = ShownNow(keys, buttons)
  OBVIOUS
<1>4. pending = <<>> <=> Len(pending) = 0
  <2>1. pending \in Seq(Recorded)
    BY DEF Types, InputTypeOK
  <2> QED
    BY <2>1, EmptyStream
<1> HIDE DEF e
<1>5. /\ Len(pending) \in Nat /\ DOMAIN pending = 1..Len(pending)
      /\ Append(pending, e) # <<>> /\ Len(Append(pending, e)) = Len(pending) + 1
      /\ DOMAIN Append(pending, e) = 1 .. Len(pending)+1
      /\ Append(pending, e)[Len(pending) + 1] = e
      /\ \A i \in DOMAIN pending : i \in DOMAIN Append(pending, e) /\ Append(pending, e)[i] = pending[i]
  <2>1. InputTypeOK
    BY DEF Types
  <2> QED
    BY <1>1, <1>2, <2>1, StreamGrows, Zenon
<1>6. /\ pending' # <<>> /\ Len(pending') = Len(pending) + 1
      /\ DOMAIN pending' = 1 .. Len(pending)+1 /\ pending'[Len(pending) + 1] = e
      /\ \A i \in DOMAIN pending : i \in DOMAIN pending' /\ pending'[i] = pending[i]
  BY <1>2, <1>5, Zenon
<1> QED
  BY <1>3, <1>4, <1>5, <1>6, Zenon DEF Grown

\* The server records something, or changes unheard.
LEMMA RecordTypes ==
  ASSUME Types, NEW type \in EventTypes, NEW key \in Keys \cup {""},
         NEW button \in Buttons \cup {0}, NEW keys \in SUBSET Keys, NEW buttons \in SUBSET Buttons,
         WellFormed([type |-> type, key |-> key, button |-> button,
                     time |-> now, shown |-> ShownNow(keys, buttons)]),
         Record(type, key, button, keys, buttons),
         leds' \subseteq LockKeys, stale' \subseteq MaskBits \cup Keys \cup {"LOCKS", "MAPPING"}
  PROVE  Types'
<1> DEFINE e == [type |-> type, key |-> key, button |-> button,
                 time |-> now, shown |-> ShownNow(keys, buttons)]
<1>1. e \in Recorded
  BY LookedUp DEF Recorded, InputTypeOK, Types
<1>2. pending' = (IF recording = "on" THEN Append(pending, e) ELSE pending) /\ Len(pending) < MaxPending
  BY DEF Record
<1>3. pending' \in Seq(Recorded) /\ Len(pending') <= MaxPending
  BY <1>1, <1>2, StreamGrows DEF Types
<1>4. \A i \in DOMAIN pending' : WellFormed(pending'[i])
  <2>1. CASE recording = "on"
    <3>1. /\ pending' = Append(pending, e)
          /\ \A i \in DOMAIN Append(pending, e) :
               \/ i \in DOMAIN pending /\ Append(pending, e)[i] = pending[i]
               \/ i = Len(pending) + 1 /\ Append(pending, e)[i] = e
      BY <1>1, <1>2, <2>1, StreamGrows DEF Types
    <3> QED
      BY <3>1 DEF Types
  <2>2. CASE recording # "on"
    BY <1>2, <2>2 DEF Types
  <2> QED
    BY <2>1, <2>2
<1>5. InputTypeOK'
  BY <1>3 DEF Record, Types, InputTypeOK, clickVars, historyVars
<1> QED
  BY <1>4, <1>5 DEF Types, WellFormed

LEMMA ServerTypes == ASSUME Types, ServerStep PROVE Types'
<1>t. /\ heldKeys \subseteq Keys /\ heldButtons \subseteq Buttons /\ leds \subseteq LockKeys
      /\ stale \subseteq MaskBits \cup Keys \cup {"LOCKS", "MAPPING"}
  BY DEF Types, InputTypeOK
<1>1. ASSUME NEW k \in Keys, KeyDown(k) \/ KeyUp(k) PROVE Types'
  <2>1. leds' \subseteq LockKeys
    BY <1>t, <1>1 DEF KeyDown, KeyUp, LedsAfter
  <2>2. stale' \subseteq MaskBits \cup Keys \cup {"LOCKS", "MAPPING"}
    BY <1>t, <1>1 DEF KeyDown, KeyUp, Unheard
  <2>3. CASE KeyDown(k)
    <3>1. Record("KeyPress", k, 0, heldKeys \cup {k}, heldButtons)
      BY <2>3 DEF KeyDown
    <3> QED
      BY <1>t, <2>1, <2>2, <3>1, RecordTypes DEF EventTypes, WellFormed
  <2>4. CASE KeyUp(k)
    <3>1. Record("KeyRelease", k, 0, heldKeys \ {k}, heldButtons)
      BY <2>4 DEF KeyUp
    <3> QED
      BY <1>t, <2>1, <2>2, <3>1, RecordTypes DEF EventTypes, WellFormed
  <2> QED
    BY <1>1, <2>3, <2>4
<1>2. ASSUME NEW b \in Buttons, ButtonDown(b) \/ ButtonUp(b) PROVE Types'
  <2>1. leds' \subseteq LockKeys
    BY <1>t, <1>2 DEF ButtonDown, ButtonUp
  <2>2. stale' \subseteq MaskBits \cup Keys \cup {"LOCKS", "MAPPING"}
    BY <1>t, <1>2, LookedUp DEF ButtonDown, ButtonUp, Unheard
  <2>0. /\ "" \in Keys \cup {""} /\ b \in Buttons \cup {0}
        /\ heldButtons \cup {b} \in SUBSET Buttons /\ heldButtons \ {b} \in SUBSET Buttons
        /\ heldKeys \in SUBSET Keys
    BY <1>t
  <2>9. b # 0
    BY InputAssumption
  <2>3. CASE ButtonDown(b)
    <3>1. Record("ButtonPress", "", b, heldKeys, heldButtons \cup {b})
      BY <2>3 DEF ButtonDown
    <3>2. WellFormed([type |-> "ButtonPress", key |-> "", button |-> b, time |-> now,
                      shown |-> ShownNow(heldKeys, heldButtons \cup {b})])
      BY <2>9 DEF WellFormed
    <3>3. "ButtonPress" \in EventTypes
      BY DEF EventTypes
    <3> QED
      BY <2>0, <2>1, <2>2, <3>1, <3>2, <3>3, RecordTypes
  <2>4. CASE ButtonUp(b)
    <3>1. Record("ButtonRelease", "", b, heldKeys, heldButtons \ {b})
      BY <2>4 DEF ButtonUp
    <3>2. WellFormed([type |-> "ButtonRelease", key |-> "", button |-> b, time |-> now,
                      shown |-> ShownNow(heldKeys, heldButtons \ {b})])
      BY <2>9 DEF WellFormed
    <3>3. "ButtonRelease" \in EventTypes
      BY DEF EventTypes
    <3> QED
      BY <2>0, <2>1, <2>2, <3>1, <3>2, <3>3, RecordTypes
  <2> QED
    BY <1>2, <2>3, <2>4
<1>3. CASE PointerMoves
  <2>1. Record("MotionNotify", "", 0, heldKeys, heldButtons) /\ UNCHANGED <<leds, stale>>
    BY <1>3 DEF PointerMoves
  <2> QED
    BY <1>t, <2>1, RecordTypes DEF EventTypes, WellFormed
<1>4. CASE LedsChange
  BY <1>4 DEF LedsChange, Types, InputTypeOK, clickVars, historyVars
<1>5. CASE Remap
  BY <1>5 DEF Remap, Types, InputTypeOK, clickVars, historyVars
<1>6. CASE Tick
  BY <1>6, InputAssumption, SMTT(30) DEF Tick, Types, InputTypeOK, Clock, clickVars, historyVars
<1> QED
  BY <1>1, <1>2, <1>3, <1>4, <1>5, <1>6 DEF ServerStep

\* The hook reads the first event; what is left keeps its types.
LEMMA ReadTypes ==
  ASSUME Types, NEW type, Read(type)
  PROVE  /\ pending # <<>> /\ pending[1] \in Recorded /\ pending[1].type = type
         /\ pending' \in Seq(Recorded) /\ Len(pending') = Len(pending) - 1
         /\ \A i \in DOMAIN pending' : i+1 \in DOMAIN pending /\ pending'[i] = pending[i+1]
         /\ \A i \in DOMAIN pending : i = 1 \/ (i-1 \in DOMAIN pending' /\ pending'[i-1] = pending[i])
         /\ Len(pending) \in Nat \ {0} /\ DOMAIN pending = 1..Len(pending)
         /\ DOMAIN pending' = 1..Len(pending) - 1
         /\ WellFormed(pending[1]) /\ \A i \in DOMAIN pending' : WellFormed(pending'[i])
         /\ UNCHANGED <<now, heldKeys, heldButtons, leds, leftHanded, recording>>
<1>1. pending \in Seq(Recorded) /\ pending # <<>> /\ pending' = Tail(pending)
  BY DEF Read, Types, InputTypeOK
<1>2. /\ pending[1] \in Recorded
      /\ Tail(pending) \in Seq(Recorded) /\ Len(Tail(pending)) = Len(pending) - 1
      /\ \A i \in DOMAIN Tail(pending) : i+1 \in DOMAIN pending /\ Tail(pending)[i] = pending[i+1]
      /\ 1 \in DOMAIN pending
      /\ \A i \in DOMAIN pending :
           i = 1 \/ (i-1 \in DOMAIN Tail(pending) /\ Tail(pending)[i-1] = pending[i])
      /\ Len(pending) \in Nat \ {0} /\ DOMAIN pending = 1..Len(pending)
      /\ DOMAIN Tail(pending) = 1..Len(pending) - 1
  BY <1>1
<1>3. WellFormed(pending[1]) /\ \A i \in DOMAIN pending' : WellFormed(pending'[i])
  BY <1>1, <1>2 DEF Types
<1> QED
  BY <1>1, <1>2, <1>3 DEF Read, serverVars

\* The rest of the hook's variables then decides.
LEMMA ReadKeepsTypes ==
  ASSUME Types, NEW type, Read(type),
         mask' \subseteq MaskBits, isDragged' \in BOOLEAN, click' \in Click,
         stale' \subseteq MaskBits \cup Keys \cup {"LOCKS", "MAPPING"},
         presses' \in Seq(Press), Len(presses') <= ClickLimit,
         moved' \subseteq down', down' \subseteq Buttons
  PROVE  Types'
<1>1. /\ pending' \in Seq(Recorded) /\ Len(pending') = Len(pending) - 1
      /\ \A i \in DOMAIN pending' : WellFormed(pending'[i])
      /\ UNCHANGED <<now, heldKeys, heldButtons, leds, leftHanded, recording>>
  BY ReadTypes
<1>2. Len(pending') <= MaxPending
  <2>1. pending \in Seq(Recorded) /\ Len(pending) <= MaxPending
    BY DEF Types, InputTypeOK
  <2>2. Len(pending) \in Nat /\ MaxPending \in Nat
    BY <2>1, InputAssumption
  <2> QED
    BY <1>1, <2>1, <2>2
<1>3. InputTypeOK'
  BY <1>1, <1>2 DEF Types, InputTypeOK, Click, Press
<1> QED
  BY <1>1, <1>3 DEF Types

\* The fields of a recorded event.
LEMMA RecordedFields ==
  ASSUME NEW e \in Recorded
  PROVE  /\ e.type \in EventTypes /\ e.key \in Keys \cup {""} /\ e.button \in Nat
         /\ (e.button # 0 => e.button \in Buttons)
         /\ e.time \in Clock /\ e.time \in Nat /\ e.shown \subseteq MaskBits
<1>1. e.button \in Buttons \cup {0} /\ e.time \in Clock
  BY DEF Recorded
<1>2. e.button \in Nat
  <2>1. ASSUME NEW b \in Buttons \cup {0} PROVE b \in Nat
    BY InputAssumption
  <2> QED
    BY <1>1, <2>1, Zenon
<1>3. e.time \in Nat
  BY <1>1, InputAssumption DEF Clock
<1> QED
  BY <1>1, <1>2, <1>3 DEF Recorded

LEMMA ClickTypes ==
  ASSUME Types, NEW b \in 0..5, NEW t \in Clock
  PROVE  NextClick(b, t) \in Click
<1>1. click \in Click /\ ClickLimit \in Nat \ {0}
  BY InputAssumption DEF Types, InputTypeOK, Click
<1>2. CASE b = click.button /\ ~TooLate(t)
  <2>1. click.count \in 0..ClickLimit
    BY <1>1 DEF Click
  <2>2. NextClick(b, t) = [count |-> IF click.count < ClickLimit THEN click.count + 1 ELSE click.count,
                           time |-> t, button |-> b]
    BY <1>2 DEF NextClick
  <2> QED
    BY <1>1, <2>1, <2>2 DEF Click
<1>3. CASE ~(b = click.button /\ ~TooLate(t))
  <2>1. NextClick(b, t) = [count |-> 1, time |-> t, button |-> b]
    BY <1>3 DEF NextClick
  <2> QED
    BY <1>1, <2>1 DEF Click
<1> QED
  BY <1>2, <1>3

\* The record of presses is never longer than the click count can grow.
LEMMA PressesBounded ==
  ASSUME Types, NEW p \in Press
  PROVE  LET P == LastFew(Append(presses, p), ClickLimit) IN P \in Seq(Press) /\ Len(P) <= ClickLimit
<1> DEFINE s == Append(presses, p)
<1>1. presses \in Seq(Press) /\ Len(presses) <= ClickLimit /\ ClickLimit \in Nat
  BY InputAssumption DEF Types, InputTypeOK, Press
<1>2. s \in Seq(Press) /\ Len(s) = Len(presses) + 1 /\ Len(presses) \in Nat
  BY <1>1, Appended
<1> HIDE DEF s
<1>3. Tail(s) \in Seq(Press) /\ Len(Tail(s)) = Len(s) - 1
  BY <1>2
<1>4. LastFew(s, ClickLimit) \in Seq(Press) /\ Len(LastFew(s, ClickLimit)) <= ClickLimit
  BY <1>1, <1>2, <1>3 DEF LastFew
<1> QED
  BY <1>4 DEF s

\* Starting and ending.
LEMMA StartTypes ==
  ASSUME Types, Initialize \/ StartOfData \/ hook_stop \/ EndOfData
  PROVE  Types'
<1>1. CASE Initialize
  <2>1. PICK pointer \in Answers, led \in Answers :
          /\ mask' = initialize_locks((heldKeys \cap ModifierKeys)
                                      \cup (IF pointer THEN InitialButtons ELSE {}), led)
          /\ stale' = (IF pointer THEN Misread ELSE ButtonBits)
                      \cup (IF led THEN {} ELSE {"LOCKS"})
    BY <1>1 DEF Initialize
  <2>2. InitialButtons \subseteq MaskBits /\ Misread \subseteq MaskBits
    BY BitGroups DEF InitialButtons, Misread, ThreeBits
  <2>3. leds \subseteq MaskBits
    BY BitGroups DEF Types, InputTypeOK
  <2>4. mask' \subseteq MaskBits
    BY <2>1, <2>2, <2>3, BitGroups DEF initialize_locks
  <2>5. stale' \subseteq MaskBits \cup Keys \cup {"LOCKS", "MAPPING"}
    BY <2>1, <2>2, BitGroups
  <2>6. click' \in Click
    BY <1>1, InputAssumption DEF Initialize, NoClick, Click, Clock
  <2>7. presses' \in Seq([button : 0..5, time : Clock]) /\ Len(presses') <= ClickLimit
    BY <1>1, InputAssumption DEF Initialize
  <2> QED
    BY <1>1, <2>4, <2>5, <2>6, <2>7 DEF Initialize, Types, InputTypeOK, Click, serverVars
<1>2. CASE StartOfData \/ hook_stop \/ EndOfData
  BY <1>2 DEF StartOfData, hook_stop, EndOfData, Types, InputTypeOK, serverVars, clickVars, historyVars
<1> QED
  BY <1>1, <1>2

\* A key event.
LEMMA KeyTypes ==
  ASSUME Types, KeyPress \/ KeyRelease
  PROVE  Types'
<1>t. /\ mask \subseteq MaskBits /\ leds \subseteq LockKeys
      /\ stale \subseteq MaskBits \cup Keys \cup {"LOCKS", "MAPPING"}
      /\ isDragged \in BOOLEAN /\ click \in Click /\ presses \in Seq(Press) /\ Len(presses) <= ClickLimit
      /\ moved \subseteq down /\ down \subseteq Buttons
  BY DEF Types, InputTypeOK, Click, Press
<1>1. ASSUME NEW type, NEW bits \in SUBSET MaskBits, NEW n, HandleKey(type, bits, n)
      PROVE  mask' \subseteq MaskBits /\ stale' \subseteq MaskBits \cup Keys \cup {"LOCKS", "MAPPING"}
  BY <1>t, <1>1, BitGroups DEF HandleKey, initialize_locks
<1>2. \A k : SetKeyBit(k) \in SUBSET MaskBits /\ UnsetKeyBit(k) \in SUBSET MaskBits
  BY <1>t, BitGroups DEF SetKeyBit, UnsetKeyBit
<1>3. mask' \subseteq MaskBits /\ stale' \subseteq MaskBits \cup Keys \cup {"LOCKS", "MAPPING"}
  BY <1>1, <1>2 DEF KeyPress, KeyRelease
<1>4. UNCHANGED <<isDragged, click, presses, down, moved>>
  BY DEF KeyPress, KeyRelease, clickVars, historyVars
<1>5. PICK type : Read(type)
  BY DEF KeyPress, KeyRelease
<1> QED
  BY <1>t, <1>3, <1>4, <1>5, ReadKeepsTypes

\* A mouse event.
LEMMA MouseTypes ==
  ASSUME Types, WheelPress \/ ButtonPress \/ WheelRelease \/ ButtonRelease \/ MotionNotify
  PROVE  Types'
<1>t. /\ mask \subseteq MaskBits
      /\ stale \subseteq MaskBits \cup Keys \cup {"LOCKS", "MAPPING"}
      /\ isDragged \in BOOLEAN /\ click \in Click /\ presses \in Seq(Press) /\ Len(presses) <= ClickLimit
      /\ moved \subseteq down /\ down \subseteq Buttons
  BY DEF Types, InputTypeOK, Click, Press
<1>1. PICK type \in {"ButtonPress", "ButtonRelease", "MotionNotify"} : Read(type)
  BY DEF WheelPress, ButtonPress, WheelRelease, ButtonRelease, MotionNotify
<1>2. pending[1] \in Recorded /\ pending[1].type = type /\ WellFormed(pending[1])
  BY <1>1, ReadTypes
<1>4. pending[1].button \in Nat /\ pending[1].time \in Clock
  BY <1>2, RecordedFields
<1> DEFINE m == button_map_lookup(pending[1].button)
<1>5. m \in Nat /\ MouseButton(m) \in 0..5 /\ PressBits(m) \subseteq MaskBits
  BY <1>4, LookedUp, BitGroups
<1> HIDE DEF m
<1>6. ClickLimit \in Nat \ {0}
  BY InputAssumption
<1>7. ASSUME NEW n \in 0..ClickLimit PROVE [click EXCEPT !.count = n] \in Click
  BY <1>t, <1>7 DEF Click
<1>8. 0 \in 0..ClickLimit /\ 1 \in 0..ClickLimit
  BY <1>6
<1>9. CASE WheelPress
  <2>1. click' = [count |-> 1, time |-> click.time, button |-> 0]
    BY <1>t, <1>9 DEF WheelPress, Click
  <2>2. click.time \in Clock /\ 0 \in 0..5
    BY <1>t DEF Click
  <2>3. click' \in Click
    BY <1>8, <2>1, <2>2 DEF Click
  <2>4. /\ UNCHANGED <<mask, isDragged, stale, down, moved>> /\ presses' = <<>>
    BY <1>9 DEF WheelPress
  <2>5. presses' \in Seq(Press) /\ Len(presses') <= ClickLimit
    BY <1>6, <2>4
  <2> QED
    BY <1>t, <1>1, <2>3, <2>4, <2>5, ReadKeepsTypes
<1>10. CASE ButtonPress
  <2>1. /\ mask' = mask \cup PressBits(m)
        /\ click' = NextClick(MouseButton(m), pending[1].time)
        /\ stale' = stale \ PressBits(m)
        /\ presses' = LastFew(Append(presses, [button |-> MouseButton(m), time |-> pending[1].time]),
                              ClickLimit)
        /\ UNCHANGED isDragged
        /\ down' = down \cup {pending[1].button} /\ moved' = moved \ {pending[1].button}
    BY <1>10 DEF ButtonPress, m
  <2>2. click' \in Click
    BY <1>4, <1>5, <2>1, ClickTypes
  <2>3. [button |-> MouseButton(m), time |-> pending[1].time] \in Press
    BY <1>4, <1>5 DEF Press
  <2>4. presses' \in Seq(Press) /\ Len(presses') <= ClickLimit
    BY <2>1, <2>3, PressesBounded
  <2>5. pending[1].button \in Buttons
    <3>1. pending[1].type = "ButtonPress"
      BY <1>10 DEF ButtonPress, Read
    <3> QED
      BY <1>2, <3>1, RecordedFields DEF WellFormed
  <2>6. mask' \subseteq MaskBits /\ stale' \subseteq MaskBits \cup Keys \cup {"LOCKS", "MAPPING"}
    BY <1>t, <1>5, <2>1
  <2> QED
    BY <1>t, <1>1, <2>1, <2>2, <2>4, <2>5, <2>6, ReadKeepsTypes
<1>11. CASE WheelRelease
  <2>1. UNCHANGED <<mask, isDragged, click, stale, presses, down, moved>>
    BY <1>11 DEF WheelRelease, clickVars, historyVars
  <2> QED
    BY <1>t, <1>1, <2>1, ReadKeepsTypes
<1>12. CASE ButtonRelease
  <2>1. /\ mask' = mask \ ReleaseBits(m)
        /\ click' = IF MouseButton(m) = click.button /\ TooLate(pending[1].time)
                    THEN [click EXCEPT !.count = 0] ELSE click
        /\ stale' = stale \ PressBits(m)
        /\ down' = down \ {pending[1].button} /\ moved' = moved \ {pending[1].button}
        /\ UNCHANGED <<isDragged, presses>>
    BY <1>12 DEF ButtonRelease, m
  <2>2. click' \in Click
    BY <1>t, <1>7, <1>8, <2>1
  <2>3. mask' \subseteq MaskBits /\ stale' \subseteq MaskBits \cup Keys \cup {"LOCKS", "MAPPING"}
    BY <1>t, <2>1
  <2> QED
    BY <1>t, <1>1, <2>1, <2>2, <2>3, ReadKeepsTypes
<1>13. CASE MotionNotify
  <2>1. click' \in Click
    BY <1>t, <1>7, <1>8, <1>13 DEF MotionNotify
  <2>2. isDragged' \in BOOLEAN /\ moved' = down /\ UNCHANGED <<mask, stale, presses, down>>
    BY <1>13 DEF MotionNotify
  <2> QED
    BY <1>t, <1>1, <2>1, <2>2, ReadKeepsTypes
<1> QED
  BY <1>9, <1>10, <1>11, <1>12, <1>13

\* Every variable keeps its type, for any keys and buttons; in particular the click
\* count never passes its limit.
LEMMA TypesInvariant == InputSpec => []Types
<1>1. InputInit => Types
  <2> SUFFICES ASSUME InputInit PROVE Types
    OBVIOUS
  <2>1. 0 \in Clock /\ ClickLimit \in Nat /\ MaxPending \in Nat /\ ButtonsAtStart \subseteq Buttons
    BY InputAssumption DEF Clock
  <2>2. click \in Click
    BY <2>1 DEF InputInit, NoClick, Click
  <2>3. presses \in Seq(Press) /\ Len(presses) <= ClickLimit
    BY <2>1 DEF InputInit
  <2>4. pending \in Seq(Recorded) /\ Len(pending) <= MaxPending /\ \A i \in DOMAIN pending : WellFormed(pending[i])
    BY <2>1 DEF InputInit
  <2> QED
    BY <2>1, <2>2, <2>3, <2>4 DEF InputInit, Types, InputTypeOK, Click, Press
<1>2. Types /\ [InputNext]_vars => Types'
  <2> SUFFICES ASSUME Types, [InputNext]_vars PROVE Types'
    OBVIOUS
  <2>1. CASE UNCHANGED vars
    BY <2>1 DEF Types, InputTypeOK, vars, serverVars, clickVars, historyVars
  <2> QED
    BY <2>1, ServerTypes, StartTypes, KeyTypes, MouseTypes DEF InputNext, HookStep
<1> QED
  BY <1>1, <1>2, PTL DEF InputSpec

\* The type invariant that the run checks: the state of the X11 hook stays within its types.
THEOREM X11TypeCorrect == InputSpec => []InputTypeOK
BY TypesInvariant, PTL DEF Types

-----------------------------------------------------------------------------
(* The locks.                                                              *)

IsKey(e) == e.type \in {"KeyPress", "KeyRelease"}

\* The lock bits are the LEDs, unless a key event is still to be read, which will see to
\* it, or an LED has changed without one.
LocksBehind ==
  recording \in {"ready", "on"} /\ "LOCKS" \notin stale =>
    mask \cap LockKeys = leds \/ \E i \in DOMAIN pending : IsKey(pending[i])

\* initialize_locks() makes the lock bits the LEDs, and leaves the other bits alone.
LEMMA LocksInitialized ==
  ASSUME Types, NEW bits
  PROVE  /\ initialize_locks(bits, TRUE) \cap LockKeys = leds
         /\ \A answered \in BOOLEAN : initialize_locks(bits, answered) \ LockKeys = bits \ LockKeys
BY DEF initialize_locks, Types, InputTypeOK

\* A mouse event leaves the lock bits and the LEDs, and is no key event.
LEMMA MouseLeavesLocks ==
  ASSUME Types, LocksBehind,
         NEW type \in {"ButtonPress", "ButtonRelease", "MotionNotify"}, Read(type),
         mask' \cap LockKeys = mask \cap LockKeys, "LOCKS" \in stale => "LOCKS" \in stale'
  PROVE  LocksBehind'
<1>1. /\ pending[1].type = type /\ UNCHANGED <<leds, recording>>
      /\ \A i \in DOMAIN pending : i = 1 \/ (i-1 \in DOMAIN pending' /\ pending'[i-1] = pending[i])
  BY ReadTypes
<1>2. ASSUME NEW i \in DOMAIN pending, IsKey(pending[i])
      PROVE  \E j \in DOMAIN pending' : IsKey(pending'[j])
  BY <1>1, <1>2 DEF IsKey
<1> QED
  BY <1>1, <1>2 DEF LocksBehind, IsKey

LEMMA ServerLocks == ASSUME Types, LocksBehind, ServerStep PROVE LocksBehind'
<1> SUFFICES ASSUME recording' \in {"ready", "on"}, "LOCKS" \notin stale'
             PROVE  mask' \cap LockKeys = leds' \/ \E i \in DOMAIN pending' : IsKey(pending'[i])
  BY DEF LocksBehind, IsKey
<1>1. ASSUME NEW type \in EventTypes, NEW key \in Keys \cup {""}, NEW button \in Buttons \cup {0},
             NEW keys, NEW buttons, Record(type, key, button, keys, buttons), leds' = leds,
             stale \subseteq stale'
      PROVE  mask' \cap LockKeys = leds' \/ \E i \in DOMAIN pending' : IsKey(pending'[i])
  <2>1. recording' = recording /\ mask' = mask
    BY <1>1 DEF Record
  <2>2. mask \cap LockKeys = leds \/ \E i \in DOMAIN pending : IsKey(pending[i])
    BY <1>1, <2>1 DEF LocksBehind
  <2>3. CASE recording = "on"
    <3>1. \A i \in DOMAIN pending : i \in DOMAIN pending' /\ pending'[i] = pending[i]
      BY <1>1, <2>3, RecordGrows DEF Grown
    <3> QED
      BY <1>1, <2>1, <2>2, <3>1
  <2>4. CASE recording # "on"
    BY <1>1, <2>1, <2>2, <2>4 DEF Record
  <2> QED
    BY <2>3, <2>4
<1>2. ASSUME NEW k \in Keys, NEW type \in {"KeyPress", "KeyRelease"}, NEW keys,
             Record(type, k, 0, keys, heldButtons), recording = "on"
      PROVE  \E i \in DOMAIN pending' : IsKey(pending'[i])
  <2>1. type \in EventTypes /\ k \in Keys \cup {""} /\ 0 \in Buttons \cup {0}
    BY DEF EventTypes
  <2>2. /\ Len(pending) \in Nat /\ DOMAIN pending' = 1 .. Len(pending)+1
        /\ pending'[Len(pending) + 1].type = type
    BY <1>2, <2>1, RecordGrows DEF Grown
  <2>3. Len(pending) + 1 \in DOMAIN pending'
    BY <2>2
  <2> QED
    BY <1>2, <2>2, <2>3 DEF IsKey
<1>3. ASSUME NEW k \in Keys, KeyDown(k) \/ KeyUp(k)
      PROVE  \E i \in DOMAIN pending' : IsKey(pending'[i])
  <2>1. recording = "on"
    BY <1>3 DEF KeyDown, KeyUp, Unheard
  <2>2. CASE KeyDown(k)
    <3>1. Record("KeyPress", k, 0, heldKeys \cup {k}, heldButtons)
      BY <2>2 DEF KeyDown
    <3> QED
      BY <1>2, <2>1, <3>1
  <2>3. CASE KeyUp(k)
    <3>1. Record("KeyRelease", k, 0, heldKeys \ {k}, heldButtons)
      BY <2>3 DEF KeyUp
    <3> QED
      BY <1>2, <2>1, <3>1
  <2> QED
    BY <1>3, <2>2, <2>3
<1>8. ASSUME NEW b \in Buttons, ButtonDown(b) \/ ButtonUp(b)
      PROVE  mask' \cap LockKeys = leds' \/ \E i \in DOMAIN pending' : IsKey(pending'[i])
  <2>1. leds' = leds /\ stale \subseteq stale'
    BY <1>8 DEF ButtonDown, ButtonUp, Unheard
  <2>2. /\ "ButtonPress" \in EventTypes /\ "ButtonRelease" \in EventTypes
        /\ "" \in Keys \cup {""} /\ b \in Buttons \cup {0}
    BY DEF EventTypes
  <2>3. CASE ButtonDown(b)
    <3>1. Record("ButtonPress", "", b, heldKeys, heldButtons \cup {b})
      BY <2>3 DEF ButtonDown
    <3> QED
      BY <1>1, <2>1, <2>2, <3>1
  <2>4. CASE ButtonUp(b)
    <3>1. Record("ButtonRelease", "", b, heldKeys, heldButtons \ {b})
      BY <2>4 DEF ButtonUp
    <3> QED
      BY <1>1, <2>1, <2>2, <3>1
  <2> QED
    BY <1>8, <2>3, <2>4
<1>4. CASE PointerMoves
  <2>1. Record("MotionNotify", "", 0, heldKeys, heldButtons) /\ leds' = leds /\ stale' = stale
    BY <1>4 DEF PointerMoves
  <2>2. "MotionNotify" \in EventTypes /\ "" \in Keys \cup {""} /\ 0 \in Buttons \cup {0}
    BY DEF EventTypes
  <2> QED
    BY <1>1, <2>1, <2>2
<1>5. CASE LedsChange
  BY <1>5 DEF LedsChange
<1>6. CASE Remap
  BY <1>6 DEF Remap, LocksBehind, IsKey
<1>7. CASE Tick
  BY <1>7 DEF Tick, LocksBehind, IsKey
<1> QED
  BY <1>3, <1>4, <1>5, <1>6, <1>7, <1>8 DEF ServerStep

LEMMA HookLocks == ASSUME Types, LocksBehind, HookStep PROVE LocksBehind'
<1>1. CASE Initialize
  <2>1. PICK led, bits :
          led \in Answers /\ mask' = initialize_locks(bits, led) /\ (~led => "LOCKS" \in stale')
    BY <1>1 DEF Initialize
  <2>2. led \in BOOLEAN /\ leds' = leds
    BY <1>1, <2>1 DEF Answers, Initialize, serverVars
  <2>3. CASE led = TRUE
    BY <2>1, <2>2, <2>3, LocksInitialized DEF LocksBehind, IsKey
  <2>4. CASE led = FALSE
    BY <2>1, <2>4 DEF LocksBehind, IsKey
  <2> QED
    BY <2>2, <2>3, <2>4
<1>2. CASE StartOfData \/ hook_stop \/ EndOfData
  BY <1>2 DEF StartOfData, hook_stop, EndOfData, serverVars, LocksBehind, IsKey
<1>3. CASE KeyPress \/ KeyRelease
  <2>1. PICK led, bits :
          led \in Answers /\ mask' = initialize_locks(bits, led) /\ (~led => "LOCKS" \in stale')
    BY <1>3 DEF KeyPress, KeyRelease, HandleKey
  <2>2. led \in BOOLEAN /\ leds' = leds
    BY <1>3, <2>1 DEF Answers, KeyPress, KeyRelease, Read, serverVars
  <2>3. CASE led = TRUE
    BY <2>1, <2>2, <2>3, LocksInitialized DEF LocksBehind, IsKey
  <2>4. CASE led = FALSE
    BY <2>1, <2>4 DEF LocksBehind, IsKey
  <2> QED
    BY <2>2, <2>3, <2>4
<1> DEFINE m == button_map_lookup(pending[1].button)
<1>m. ASSUME NEW type, Read(type)
      PROVE  PressBits(m) \cap LockKeys = {} /\ "LOCKS" \notin PressBits(m)
  BY <1>m, ReadTypes, RecordedFields, LookedUp, BitGroups
<1>4. CASE WheelPress
  BY <1>4, MouseLeavesLocks DEF WheelPress
<1>5. CASE ButtonPress
  BY <1>5, <1>m, MouseLeavesLocks DEF ButtonPress
<1>6. CASE WheelRelease
  BY <1>6, MouseLeavesLocks DEF WheelRelease
<1>7. CASE ButtonRelease
  BY <1>7, <1>m, MouseLeavesLocks DEF ButtonRelease, ReleaseBits
<1>8. CASE MotionNotify
  BY <1>8, MouseLeavesLocks DEF MotionNotify
<1> QED
  BY <1>1, <1>2, <1>3, <1>4, <1>5, <1>6, <1>7, <1>8 DEF HookStep

\* However far the server is ahead, and whatever queries fail, the lock bits are the LEDs
\* once everything recorded is read, unless the last change of one came without a key.
THEOREM LocksAreTheLeds == InputSpec => []LocksFollowLeds
<1>1. InputInit => LocksBehind
  BY DEF InputInit, LocksBehind
<1>2. Types /\ LocksBehind /\ [InputNext]_vars => LocksBehind'
  <2>1. UNCHANGED vars /\ LocksBehind => LocksBehind'
    BY DEF vars, serverVars, clickVars, historyVars, LocksBehind, IsKey
  <2> QED
    BY <2>1, ServerLocks, HookLocks DEF InputNext
<1>3. LocksBehind => LocksFollowLeds
  BY DEF LocksBehind, LocksFollowLeds
<1> QED
  BY <1>1, <1>2, <1>3, TypesInvariant, PTL DEF InputSpec

-----------------------------------------------------------------------------
(* The mask.                                                               *)

\* The bits that a key or a button changes, and an event.
OwnBits(key, button) == ({key} \cap ModifierKeys) \cup PressBits(button_map_lookup(button))
Bits(e) == OwnBits(e.key, e.button)

\* An event shows its own bits as it leaves them.
ShowsItself(e) ==
  /\ e.type \in {"KeyPress", "ButtonPress"} => Bits(e) \cap Judged(stale) \subseteq e.shown
  /\ e.type \in {"KeyRelease", "ButtonRelease"} => Bits(e) \cap Judged(stale) \cap e.shown = {}
  /\ e.type = "MotionNotify" => Bits(e) = {}

Now == ShownNow(heldKeys, heldButtons)

\* What an event shows is what the one before it shows, but for its own bits; the last
\* one shows what is down now.
ShowsWhatChanged ==
  /\ \A i \in DOMAIN pending : ShowsItself(pending[i])
  /\ \A i \in DOMAIN pending : i > 1 =>
       Differ(pending[i-1].shown, pending[i].shown) \cap Judged(stale) \subseteq Bits(pending[i])
  /\ recording = "on" /\ pending # <<>> =>
       pending[Len(pending)].shown \cap Judged(stale) = Now \cap Judged(stale)

\* The mask is behind by the first event only.
MaskIsBehind ==
  /\ recording \in {"ready", "on"} /\ pending = <<>> =>
       Differ(mask, Now) \cap Judged(stale) \subseteq stale
  /\ pending # <<>> =>
       Differ(mask, pending[1].shown) \cap Judged(stale) \subseteq stale \cup Bits(pending[1])

\* Nothing is left in the stream when the hook has ended, or has not begun.
StreamStops == recording \in {"off", "ready"} => pending = <<>>

MaskInv == ShowsWhatChanged /\ MaskIsBehind /\ StreamStops

\* A judged bit is a modifier key's, or that of exactly one button.
LEMMA JudgedBits ==
  /\ \A st : Judged(st) \subseteq ModifierKeys \cup ThreeBits
  /\ \A st : ModifierKeys \subseteq Judged(st) /\ Judged(st) \cap LockKeys = {}
  /\ ModifierKeys \cap ThreeBits = {}
  /\ \A m \in Nat : PressBits(m) \cap ModifierKeys = {} /\ "MAPPING" \notin PressBits(m)
  /\ \A m \in 4..7 : PressBits(m) = {}
  /\ \A b \in Nat, c \in Nat : \A x \in ThreeBits :
       x \in PressBits(button_map_lookup(b)) /\ x \in PressBits(button_map_lookup(c)) => b = c
<1>1. \A st : Judged(st) \subseteq ModifierKeys \cup ThreeBits
  BY DEF Judged, ThreeBits
<1>2. \A st : ModifierKeys \subseteq Judged(st)
  BY DEF Judged
<1>3. \A st : Judged(st) \cap LockKeys = {} /\ ModifierKeys \cap ThreeBits = {}
  BY <1>1, BitGroups
<1>4. \A m \in Nat : PressBits(m) \cap ModifierKeys = {} /\ "MAPPING" \notin PressBits(m)
  BY LookedUp, BitGroups
<1>5. \A m \in 4..7 : PressBits(m) = {}
  BY DEF PressBits
<1>6. ASSUME NEW m \in Nat, NEW x \in ThreeBits, x \in PressBits(m)
      PROVE  m \in 1..3 /\ x = ButtonBit[m]
  <2>1. "BUTTON5" \notin ThreeBits
    BY DEF ThreeBits
  <2> QED
    BY <1>6, <2>1 DEF PressBits
<1>7. ASSUME NEW b \in Nat, NEW c \in Nat, NEW x \in ThreeBits,
             x \in PressBits(button_map_lookup(b)), x \in PressBits(button_map_lookup(c))
      PROVE  b = c
  <2>1. /\ button_map_lookup(b) \in 1..3 /\ x = ButtonBit[button_map_lookup(b)]
        /\ button_map_lookup(c) \in 1..3 /\ x = ButtonBit[button_map_lookup(c)]
    BY <1>6, <1>7, LookedUp
  <2>2. \A i \in 1..3, j \in 1..3 : ButtonBit[i] = ButtonBit[j] => i = j
    BY BitGroups
  <2>3. button_map_lookup(b) = button_map_lookup(c)
    BY <2>1, <2>2, Zenon
  <2> QED
    BY <2>3, LookedUp
<1> QED
  BY <1>1, <1>2, <1>3, <1>4, <1>5, <1>7

\* What is down shows in the judged bits: the bit of a key that is down, and of a button.
LEMMA WhatIsShown ==
  ASSUME NEW keys, NEW buttons \in SUBSET Nat
  PROVE  /\ \A x \in ModifierKeys : x \in ShownNow(keys, buttons) <=> x \in keys
         /\ \A x \in ThreeBits : x \in ShownNow(keys, buttons) <=>
              \E c \in buttons : x \in PressBits(button_map_lookup(c))
<1> DEFINE numbers == {MouseButton(button_map_lookup(b)) : b \in buttons} \cap 1..5
<1>1. ShownNow(keys, buttons) = (keys \cap ModifierKeys) \cup {ButtonBit[n] : n \in numbers}
  BY DEF ShownNow, Shown
<1>2. \A n \in numbers : ButtonBit[n] \in ButtonBits
  BY BitGroups
<1>3. \A x \in ModifierKeys : x \in ShownNow(keys, buttons) <=> x \in keys
  BY <1>1, <1>2, BitGroups
<1>4. ASSUME NEW x \in ThreeBits
      PROVE  x \in ShownNow(keys, buttons) <=> \E n \in numbers : x = ButtonBit[n]
  BY <1>1, BitGroups
<1>5. ASSUME NEW x \in ThreeBits, NEW m \in Nat
      PROVE  x \in PressBits(m) <=> MouseButton(m) \in 1..5 /\ x = ButtonBit[MouseButton(m)]
  <2>1. /\ x # "BUTTON5" /\ ButtonBit[4] \notin ThreeBits /\ ButtonBit[5] \notin ThreeBits
    BY DEF ThreeBits, ButtonBit
  <2>2. CASE m \in 1..3
    BY <2>2 DEF PressBits, MouseButton
  <2>3. CASE m \in {8, 9}
    BY <2>1, <2>3 DEF PressBits, MouseButton
  <2>4. CASE m \notin 1..3 /\ m \notin {8, 9}
    BY <2>4 DEF PressBits, MouseButton
  <2> QED
    BY <2>2, <2>3, <2>4
<1>6. \A c \in buttons : button_map_lookup(c) \in Nat
  BY LookedUp
<1>7. ASSUME NEW x \in ThreeBits
      PROVE  (\E n \in numbers : x = ButtonBit[n])
               <=> \E c \in buttons : x \in PressBits(button_map_lookup(c))
  BY <1>5, <1>6
<1> HIDE DEF numbers
<1> QED
  BY <1>3, <1>4, <1>7

\* The server records, or changes unheard, and what is down changes in one event's bits.
LEMMA RecordMask ==
  ASSUME MaskInv, NEW type, NEW key, NEW button, NEW keys, NEW buttons,
         Record(type, key, button, keys, buttons),
         recording = "on" => Grown(type, key, button, keys, buttons),
         Differ(Now, ShownNow(keys, buttons)) \cap Judged(stale) \subseteq OwnBits(key, button),
         type \in {"KeyPress", "ButtonPress"} =>
           OwnBits(key, button) \cap Judged(stale) \subseteq ShownNow(keys, buttons),
         type \in {"KeyRelease", "ButtonRelease"} =>
           OwnBits(key, button) \cap Judged(stale) \cap ShownNow(keys, buttons) = {},
         type = "MotionNotify" => OwnBits(key, button) = {},
         recording = "on" => stale' = stale, stale \subseteq stale',
         recording # "on" => OwnBits(key, button) \cap Judged(stale) \subseteq stale',
         "MAPPING" \in stale' => "MAPPING" \in stale
  PROVE  MaskInv'
<1> DEFINE J == Judged(stale)
<1> DEFINE own == OwnBits(key, button)
<1> DEFINE shown == ShownNow(keys, buttons)
<1>1. /\ heldKeys' = keys /\ heldButtons' = buttons
      /\ UNCHANGED <<leftHanded, recording, mask>>
  BY DEF Record
<1>2. Judged(stale') = J
  BY DEF Judged
<1>3. \A e : Bits(e)' = Bits(e)
  BY <1>1 DEF Bits, OwnBits, button_map_lookup, Logical
<1>4. Now' = shown
  BY <1>1 DEF Now, ShownNow, button_map_lookup, Logical
<1>5. \A e : ShowsItself(e) <=> ShowsItself(e)'
  BY <1>2, <1>3 DEF ShowsItself
<1>6. CASE recording = "on"
  <2> DEFINE n == Len(pending) + 1
  <2>1. /\ Len(pending) \in Nat /\ DOMAIN pending = 1..Len(pending)
        /\ pending = <<>> <=> Len(pending) = 0
        /\ pending' # <<>> /\ Len(pending') = n /\ DOMAIN pending' = 1..n
        /\ pending'[n].type = type /\ pending'[n].key = key /\ pending'[n].button = button
        /\ pending'[n].shown = shown
        /\ \A i \in DOMAIN pending : i \in DOMAIN pending' /\ pending'[i] = pending[i]
    BY <1>6 DEF Grown
  <2>2. stale' = stale
    BY <1>6
  <2>3. Bits(pending'[n]) = own
    BY <2>1 DEF Bits
  <2>4. ShowsItself(pending'[n])
    BY <2>1, <2>3 DEF ShowsItself
  <2>5. pending # <<>> => pending[Len(pending)].shown \cap J = Now \cap J
    BY <1>6 DEF MaskInv, ShowsWhatChanged
  <2>6. \A i \in DOMAIN pending' : ShowsItself(pending'[i])
    BY <2>1, <2>4 DEF MaskInv, ShowsWhatChanged
  <2>7. ASSUME NEW i \in DOMAIN pending', i > 1
        PROVE  Differ(pending'[i-1].shown, pending'[i].shown) \cap J \subseteq Bits(pending'[i])
    <3>1. CASE i \in DOMAIN pending
      <4>1. i - 1 \in DOMAIN pending
        BY <2>1, <2>7, <3>1
      <4> QED
        BY <2>1, <2>7, <3>1, <4>1 DEF MaskInv, ShowsWhatChanged
    <3>2. CASE i = n
      <4>1. Len(pending) \in DOMAIN pending /\ pending # <<>> /\ i - 1 = Len(pending)
        BY <2>1, <2>7, <3>2
      <4>2. pending'[i-1].shown \cap J = Now \cap J
        BY <2>1, <2>5, <4>1
      <4> QED
        BY <2>1, <2>3, <3>2, <4>2 DEF Differ
    <3> QED
      BY <2>1, <3>1, <3>2
  <2>8. pending'[n].shown \cap J = Now' \cap J
    BY <1>4, <2>1
  <2>9. ShowsWhatChanged'
    BY <1>2, <1>3, <1>5, <2>1, <2>6, <2>7, <2>8 DEF ShowsWhatChanged
  <2>10. Differ(mask, pending'[1].shown) \cap J \subseteq stale \cup Bits(pending'[1])
    <3>1. CASE pending = <<>>
      <4>1. n = 1
        BY <3>1
      <4>2. Differ(mask, Now) \cap J \subseteq stale
        BY <1>6, <3>1 DEF MaskInv, MaskIsBehind
      <4>3. pending'[1].shown = shown /\ Bits(pending'[1]) = own
        BY <2>1, <2>3, <4>1
      <4> QED
        BY <4>2, <4>3 DEF Differ
    <3>2. CASE pending # <<>>
      <4>1. 1 \in DOMAIN pending
        BY <2>1, <3>2
      <4> QED
        BY <2>1, <3>2, <4>1 DEF MaskInv, MaskIsBehind
    <3> QED
      BY <3>1, <3>2
  <2>11. MaskIsBehind'
    BY <1>1, <1>2, <1>3, <2>1, <2>2, <2>10 DEF MaskIsBehind
  <2> QED
    BY <1>1, <1>6, <2>9, <2>11 DEF MaskInv, StreamStops
<1>7. CASE recording # "on"
  <2>1. pending' = pending /\ stale \subseteq stale' /\ own \cap J \subseteq stale' /\ recording' # "on"
    BY <1>1, <1>7 DEF Record
  <2>2. StreamStops'
    BY <1>1, <2>1 DEF MaskInv, StreamStops
  <2>3. ShowsWhatChanged'
    BY <1>2, <1>3, <1>5, <2>1 DEF MaskInv, ShowsWhatChanged
  <2>4. ASSUME recording' \in {"ready", "on"}, pending' = <<>>
        PROVE  Differ(mask', Now') \cap Judged(stale') \subseteq stale'
    <3>1. Differ(mask, Now) \cap J \subseteq stale
      BY <1>1, <2>1, <2>4 DEF MaskInv, MaskIsBehind
    <3> QED
      BY <1>1, <1>2, <1>4, <2>1, <3>1 DEF Differ
  <2>5. ASSUME pending' # <<>>
        PROVE  Differ(mask', pending'[1].shown) \cap Judged(stale') \subseteq stale' \cup Bits(pending'[1])
    BY <1>1, <1>2, <2>1, <2>5 DEF MaskInv, MaskIsBehind
  <2>6. MaskIsBehind'
    BY <1>3, <2>4, <2>5 DEF MaskIsBehind
  <2> QED
    BY <2>2, <2>3, <2>6 DEF MaskInv
<1> QED
  BY <1>6, <1>7

LEMMA ServerMask == ASSUME Types, MaskInv, ServerStep PROVE MaskInv'
<1> DEFINE J == Judged(stale)
<1>t. /\ heldButtons \subseteq Nat \ {0} /\ Buttons \subseteq Nat \ {0} /\ heldButtons \subseteq Buttons
      /\ \A k \in Keys : k \notin {"LOCKS", "MAPPING"}
  BY InputAssumption DEF Types, InputTypeOK
<1>0. PressBits(button_map_lookup(0)) = {}
  BY NoButton
<1>j. J \subseteq ModifierKeys \cup ThreeBits /\ ModifierKeys \cap ThreeBits = {}
  BY JudgedBits
<1>k. \A x \in ModifierKeys : \A keys : x \in ShownNow(keys, heldButtons) <=> x \in keys
  BY <1>t, WhatIsShown
<1>b. \A x \in ThreeBits : \A keys : x \in ShownNow(keys, heldButtons) <=>
         \E c \in heldButtons : x \in PressBits(button_map_lookup(c))
  BY <1>t, WhatIsShown
<1>1. ASSUME NEW k \in Keys, KeyDown(k) PROVE MaskInv'
  <2> DEFINE own == OwnBits(k, 0)
  <2>1. Record("KeyPress", k, 0, heldKeys \cup {k}, heldButtons)
    BY <1>1 DEF KeyDown
  <2>2. stale' = (IF recording = "on" THEN stale ELSE stale \cup {k, "LOCKS"})
    BY <1>1 DEF KeyDown, Unheard
  <2>3. "KeyPress" \in EventTypes /\ k \in Keys \cup {""} /\ 0 \in Buttons \cup {0}
    BY DEF EventTypes
  <2>4. recording = "on" => Grown("KeyPress", k, 0, heldKeys \cup {k}, heldButtons)
    BY <2>1, <2>3, RecordGrows
  <2>5. own = {k} \cap ModifierKeys
    BY <1>0 DEF OwnBits
  <2>6. Differ(Now, ShownNow(heldKeys \cup {k}, heldButtons)) \cap J \subseteq own
    BY <1>j, <1>k, <1>b, <2>5 DEF Differ, Now
  <2>7. own \cap J \subseteq ShownNow(heldKeys \cup {k}, heldButtons)
    BY <1>k, <2>5
  <2>8. /\ recording = "on" => stale' = stale
        /\ recording # "on" => own \cap J \subseteq stale'
        /\ stale \subseteq stale' /\ ("MAPPING" \in stale' => "MAPPING" \in stale)
    BY <1>t, <2>2, <2>5
  <2> HIDE DEF own, J
  <2> QED
    BY <2>1, <2>4, <2>6, <2>7, <2>8, RecordMask DEF own, J
<1>2. ASSUME NEW k \in Keys, KeyUp(k) PROVE MaskInv'
  <2> DEFINE own == OwnBits(k, 0)
  <2>1. Record("KeyRelease", k, 0, heldKeys \ {k}, heldButtons)
    BY <1>2 DEF KeyUp
  <2>2. stale' = (IF recording = "on" THEN stale ELSE stale \cup {k, "LOCKS"})
    BY <1>2 DEF KeyUp, Unheard
  <2>3. "KeyRelease" \in EventTypes /\ k \in Keys \cup {""} /\ 0 \in Buttons \cup {0}
    BY DEF EventTypes
  <2>4. recording = "on" => Grown("KeyRelease", k, 0, heldKeys \ {k}, heldButtons)
    BY <2>1, <2>3, RecordGrows
  <2>5. own = {k} \cap ModifierKeys
    BY <1>0 DEF OwnBits
  <2>6. Differ(Now, ShownNow(heldKeys \ {k}, heldButtons)) \cap J \subseteq own
    BY <1>j, <1>k, <1>b, <2>5 DEF Differ, Now
  <2>7. own \cap J \cap ShownNow(heldKeys \ {k}, heldButtons) = {}
    BY <1>k, <2>5
  <2>8. /\ recording = "on" => stale' = stale
        /\ recording # "on" => own \cap J \subseteq stale'
        /\ stale \subseteq stale' /\ ("MAPPING" \in stale' => "MAPPING" \in stale)
    BY <1>t, <2>2, <2>5
  <2> HIDE DEF own, J
  <2> QED
    BY <2>1, <2>4, <2>6, <2>7, <2>8, RecordMask DEF own, J
<1>3. ASSUME NEW b \in Buttons, ButtonDown(b) \/ ButtonUp(b) PROVE MaskInv'
  <2> DEFINE own == OwnBits("", b)
             bits == ShownNow({}, {b})
  <2>1. b \in Nat /\ button_map_lookup(b) \in Nat
    BY <1>t, LookedUp
  <2>2. own = PressBits(button_map_lookup(b))
    BY DEF ModifierKeys, OwnBits
  <2> HIDE DEF own
  <2>3. own \cap ModifierKeys = {} /\ "MAPPING" \notin bits
    BY <2>1, <2>2, JudgedBits, LookedUp, BitGroups
  <2>4. \A x \in ThreeBits : x \in bits <=> x \in own
    <3>1. {b} \in SUBSET Nat
      BY <2>1
    <3>2. \A x \in ThreeBits : x \in bits <=> \E c \in {b} : x \in PressBits(button_map_lookup(c))
      BY <3>1, WhatIsShown
    <3> QED
      BY <2>2, <3>2, Zenon
  <2>5. own \cap J \subseteq bits
    BY <1>j, <2>3, <2>4
  <2>6. \A x \in ModifierKeys, buttons \in SUBSET Nat : x \in ShownNow(heldKeys, buttons) <=> x \in heldKeys
    BY WhatIsShown
  <2>7. \A x \in ThreeBits, buttons \in SUBSET Nat : x \in ShownNow(heldKeys, buttons) <=>
          \E c \in buttons : x \in PressBits(button_map_lookup(c))
    BY WhatIsShown
  <2>8. \A x \in ThreeBits, c \in heldButtons : x \in own /\ x \in PressBits(button_map_lookup(c)) => c = b
    BY <1>t, <2>1, <2>2, JudgedBits
  <2>9. heldButtons \cup {b} \in SUBSET Nat /\ heldButtons \ {b} \in SUBSET Nat /\ heldButtons \in SUBSET Nat
    BY <1>t, <2>1
  <2>10. /\ "ButtonPress" \in EventTypes /\ "ButtonRelease" \in EventTypes
         /\ "" \in Keys \cup {""} /\ b \in Buttons \cup {0}
    BY DEF EventTypes
  <2>11. stale' = (IF recording = "on" THEN stale ELSE stale \cup bits)
    BY <1>3 DEF ButtonDown, ButtonUp, Unheard
  <2> HIDE DEF bits
  <2>14. /\ recording = "on" => stale' = stale
         /\ recording # "on" => own \cap J \subseteq stale'
         /\ stale \subseteq stale' /\ ("MAPPING" \in stale' => "MAPPING" \in stale)
    BY <2>3, <2>5, <2>11
  <2>12. CASE ButtonDown(b)
    <3> DEFINE after == ShownNow(heldKeys, heldButtons \cup {b})
    <3>1. Record("ButtonPress", "", b, heldKeys, heldButtons \cup {b})
      BY <2>12 DEF ButtonDown
    <3>2. recording = "on" => Grown("ButtonPress", "", b, heldKeys, heldButtons \cup {b})
      BY <2>10, <3>1, RecordGrows
    <3>3. \A x \in ThreeBits : x \in after <=> x \in own \/ x \in Now
      BY <2>2, <2>7, <2>9 DEF Now
    <3>4. \A x \in ModifierKeys : x \in after <=> x \in Now
      BY <2>6, <2>9 DEF Now
    <3> HIDE DEF after
    <3>5. Differ(Now, after) \cap J \subseteq own
      BY <1>j, <3>3, <3>4 DEF Differ
    <3>6. own \cap J \subseteq after
      BY <1>j, <2>3, <3>3
    <3> HIDE DEF J
    <3> QED
      BY <2>14, <3>1, <3>2, <3>5, <3>6, RecordMask DEF own, J, after
  <2>13. CASE ButtonUp(b)
    <3> DEFINE after == ShownNow(heldKeys, heldButtons \ {b})
    <3>1. Record("ButtonRelease", "", b, heldKeys, heldButtons \ {b})
      BY <2>13 DEF ButtonUp
    <3>2. recording = "on" => Grown("ButtonRelease", "", b, heldKeys, heldButtons \ {b})
      BY <2>10, <3>1, RecordGrows
    <3>3. \A x \in ThreeBits : x \in after <=> x \in Now /\ x \notin own
      BY <2>2, <2>7, <2>8, <2>9 DEF Now
    <3>4. \A x \in ModifierKeys : x \in after <=> x \in Now
      BY <2>6, <2>9 DEF Now
    <3> HIDE DEF after
    <3>5. Differ(Now, after) \cap J \subseteq own
      BY <1>j, <3>3, <3>4 DEF Differ
    <3>6. own \cap J \cap after = {}
      BY <1>j, <2>3, <3>3
    <3> HIDE DEF J
    <3> QED
      BY <2>14, <3>1, <3>2, <3>5, <3>6, RecordMask DEF own, J, after
  <2> QED
    BY <1>3, <2>12, <2>13
<1>4. CASE PointerMoves
  <2> DEFINE own == OwnBits("", 0)
  <2>1. Record("MotionNotify", "", 0, heldKeys, heldButtons)
    BY <1>4 DEF PointerMoves
  <2>2. recording = "on" /\ stale' = stale
    BY <1>4 DEF PointerMoves
  <2>3. "MotionNotify" \in EventTypes /\ "" \in Keys \cup {""} /\ 0 \in Buttons \cup {0}
    BY DEF EventTypes
  <2>4. Grown("MotionNotify", "", 0, heldKeys, heldButtons)
    BY <2>1, <2>2, <2>3, RecordGrows
  <2>5. own = {}
    BY <1>0 DEF ModifierKeys, OwnBits
  <2>6. Differ(Now, ShownNow(heldKeys, heldButtons)) \cap J \subseteq own
    BY DEF Now, Differ
  <2> HIDE DEF own, J
  <2> QED
    BY <2>1, <2>2, <2>4, <2>5, <2>6, RecordMask DEF own, J
<1>5. CASE LedsChange
  <2>1. /\ UNCHANGED <<heldKeys, heldButtons, leftHanded, pending, recording, mask>>
        /\ stale' = stale \cup {"LOCKS"}
    BY <1>5 DEF LedsChange
  <2>2. Judged(stale') = J
    BY <2>1 DEF Judged
  <2>3. (\A e : Bits(e)' = Bits(e)) /\ Now' = Now
    BY <2>1 DEF Bits, OwnBits, Now, ShownNow, button_map_lookup, Logical
  <2>4. \A e : ShowsItself(e) <=> ShowsItself(e)'
    BY <2>2, <2>3 DEF ShowsItself
  <2>5. ShowsWhatChanged'
    BY <2>1, <2>2, <2>3, <2>4 DEF MaskInv, ShowsWhatChanged
  <2>6. MaskIsBehind'
    BY <2>1, <2>2, <2>3 DEF MaskInv, MaskIsBehind
  <2> QED
    BY <2>1, <2>5, <2>6 DEF MaskInv, StreamStops
<1>6. CASE Remap
  <2>1. /\ UNCHANGED <<heldKeys, heldButtons, pending, recording, mask>>
        /\ stale' = IF recording = "off" THEN stale ELSE stale \cup {"MAPPING"}
    BY <1>6 DEF Remap
  <2>2. CASE recording = "off"
    BY <2>1, <2>2 DEF MaskInv, ShowsWhatChanged, MaskIsBehind, StreamStops
  <2>3. CASE recording # "off"
    <3>1. Judged(stale') = ModifierKeys
      BY <2>1, <2>3 DEF Judged
    <3>2. leftHanded' \in BOOLEAN
      BY <1>6 DEF Remap
    <3>3. \A n \in Nat : button_map_lookup(n)' \in Nat
      BY <3>2 DEF button_map_lookup, Swap23, Logical
    <3>4. ASSUME NEW i \in DOMAIN pending PROVE pending[i].button \in Nat /\ WellFormed(pending[i])
      <4>1. pending[i] \in Recorded /\ WellFormed(pending[i])
        BY DEF Types, InputTypeOK
      <4> QED
        BY <4>1, RecordedFields
    <3>5. \A e : e.button \in Nat => Bits(e)' \cap ModifierKeys = Bits(e) \cap ModifierKeys
      <4>1. \A n \in Nat : PressBits(button_map_lookup(n)) \cap ModifierKeys = {}
        BY LookedUp, JudgedBits
      <4>2. \A n \in Nat : PressBits(button_map_lookup(n)') \cap ModifierKeys = {}
        BY <3>3, JudgedBits
      <4> QED
        BY <4>1, <4>2 DEF Bits, OwnBits
    <3>6. Now' \cap ModifierKeys = Now \cap ModifierKeys
      BY <2>1, BitGroups DEF Now, ShownNow, Shown
    <3>7. PressBits(button_map_lookup(0)') = {}
      BY DEF PressBits, button_map_lookup, Swap23, Logical
    <3>8. ModifierKeys \subseteq J
      BY JudgedBits
    <3>9. \A e : e.type = "MotionNotify" /\ WellFormed(e) => Bits(e)' = {}
      BY <3>7 DEF Bits, OwnBits, WellFormed, ModifierKeys
    <3> HIDE DEF J
    <3>10. \A e : e.button \in Nat /\ WellFormed(e) /\ ShowsItself(e) => ShowsItself(e)'
      BY <3>1, <3>5, <3>8, <3>9 DEF ShowsItself, J
    <3>11. ShowsWhatChanged'
      <4>1. \A i \in DOMAIN pending : /\ ShowsItself(pending[i]) /\ pending[i].button \in Nat
                                     /\ WellFormed(pending[i])
        BY <3>4 DEF MaskInv, ShowsWhatChanged
      <4>2. \A i \in DOMAIN pending : i > 1 =>
               Differ(pending[i-1].shown, pending[i].shown) \cap J \subseteq Bits(pending[i])
        BY DEF MaskInv, ShowsWhatChanged, J
      <4>3. recording = "on" /\ pending # <<>> => pending[Len(pending)].shown \cap J = Now \cap J
        BY DEF MaskInv, ShowsWhatChanged, J
      <4>4. \A i \in DOMAIN pending : i > 1 =>
               Differ(pending[i-1].shown, pending[i].shown) \cap ModifierKeys \subseteq Bits(pending[i]) \cap ModifierKeys
        BY <3>8, <4>2
      <4>5. recording = "on" /\ pending # <<>> =>
               pending[Len(pending)].shown \cap ModifierKeys = Now \cap ModifierKeys
        BY <3>8, <4>3
      <4>6. (\A i \in DOMAIN pending : ShowsItself(pending[i]))'
        BY <2>1, <3>10, <4>1
      <4>7. (\A i \in DOMAIN pending : i > 1 =>
               Differ(pending[i-1].shown, pending[i].shown) \cap Judged(stale) \subseteq Bits(pending[i]))'
        BY <2>1, <3>1, <3>5, <4>1, <4>4
      <4>8. (recording = "on" /\ pending # <<>> =>
               pending[Len(pending)].shown \cap Judged(stale) = Now \cap Judged(stale))'
        BY <2>1, <3>1, <3>6, <4>5
      <4> QED
        BY <4>6, <4>7, <4>8 DEF ShowsWhatChanged
    <3>12. MaskIsBehind'
      <4>1. pending # <<>> => pending[1].button \in Nat
        <5>1. pending # <<>> => 1 \in DOMAIN pending
          BY DEF Types, InputTypeOK
        <5> QED
          BY <3>4, <5>1
      <4>2. pending # <<>> =>
              Differ(mask, pending[1].shown) \cap J \subseteq stale \cup Bits(pending[1])
        BY DEF MaskInv, MaskIsBehind, J
      <4>3. recording \in {"ready", "on"} /\ pending = <<>> => Differ(mask, Now) \cap J \subseteq stale
        BY DEF MaskInv, MaskIsBehind, J
      <4>4. pending # <<>> => Differ(mask, pending[1].shown) \cap ModifierKeys
                              \subseteq stale \cup (Bits(pending[1]) \cap ModifierKeys)
        BY <3>8, <4>2
      <4>5. recording \in {"ready", "on"} /\ pending = <<>> =>
              Differ(mask, Now' \cap ModifierKeys) \cap ModifierKeys \subseteq stale
        BY <3>6, <3>8, <4>3 DEF Differ
      <4>6. recording \in {"ready", "on"} /\ pending = <<>> =>
              Differ(mask, Now') \cap ModifierKeys \subseteq stale
        BY <4>5 DEF Differ
      <4> QED
        BY <2>1, <3>1, <3>5, <4>1, <4>4, <4>6 DEF MaskIsBehind
    <3> QED
      BY <2>1, <3>11, <3>12 DEF MaskInv, StreamStops
  <2> QED
    BY <2>2, <2>3
<1>7. CASE Tick
  <2>1. UNCHANGED <<heldKeys, heldButtons, leftHanded, pending, recording, mask, stale>>
    BY <1>7 DEF Tick
  <2>3. (\A e : Bits(e)' = Bits(e)) /\ Now' = Now
    BY <2>1 DEF Bits, OwnBits, Now, ShownNow, button_map_lookup, Logical
  <2>4. \A e : ShowsItself(e) <=> ShowsItself(e)'
    BY <2>1, <2>3 DEF ShowsItself
  <2>5. ShowsWhatChanged'
    BY <2>1, <2>3, <2>4 DEF MaskInv, ShowsWhatChanged
  <2>6. MaskIsBehind'
    BY <2>1, <2>3 DEF MaskInv, MaskIsBehind
  <2> QED
    BY <2>1, <2>5, <2>6 DEF MaskInv, StreamStops
<1> QED
  BY <1>1, <1>2, <1>3, <1>4, <1>5, <1>6, <1>7 DEF ServerStep

\* The hook handles the first event: its own bits are then as it shows them, and the
\* mask is behind by the next event only.
LEMMA HandledMask ==
  ASSUME Types, MaskInv, NEW type \in EventTypes, Read(type),
         type \in {"KeyPress", "ButtonPress"} => \A x \in Judged(stale) :
           x \in mask' <=> x \in mask \/ x \in Bits(pending[1]),
         type \notin {"KeyPress", "ButtonPress"} => \A x \in Judged(stale) :
           x \in mask' <=> x \in mask /\ x \notin Bits(pending[1]),
         stale \cap Judged(stale) \subseteq stale' \cup Bits(pending[1]),
         "MAPPING" \in stale' <=> "MAPPING" \in stale
  PROVE  /\ Differ(mask', pending[1].shown) \cap Judged(stale') \subseteq stale'
         /\ MaskInv'
<1> DEFINE J == Judged(stale)
           own == Bits(pending[1])
<1>1. /\ pending # <<>> /\ pending[1].type = type
      /\ Len(pending') = Len(pending) - 1 /\ Len(pending) \in Nat \ {0}
      /\ DOMAIN pending = 1..Len(pending) /\ DOMAIN pending' = 1..Len(pending) - 1
      /\ \A i \in DOMAIN pending' : i+1 \in DOMAIN pending /\ pending'[i] = pending[i+1]
      /\ UNCHANGED <<heldKeys, heldButtons, leftHanded, recording>>
      /\ pending' \in Seq(Recorded) /\ 1 \in DOMAIN pending
  BY ReadTypes
<1>2. Judged(stale') = J
  BY DEF Judged
<1>3. \A e : Bits(e)' = Bits(e)
  BY <1>1 DEF Bits, OwnBits, button_map_lookup, Logical
<1>4. Now' = Now
  BY <1>1 DEF Now, ShownNow, button_map_lookup, Logical
<1>5. \A e : ShowsItself(e) <=> ShowsItself(e)'
  BY <1>2, <1>3 DEF ShowsItself
<1>6. ShowsItself(pending[1])
  BY <1>1 DEF MaskInv, ShowsWhatChanged
<1>7. Differ(mask, pending[1].shown) \cap J \subseteq stale \cup own
  BY <1>1 DEF MaskInv, MaskIsBehind
<1>8. Differ(mask', pending[1].shown) \cap J \subseteq stale'
  <2>1. ASSUME NEW x \in J, x \in own PROVE x \notin Differ(mask', pending[1].shown)
    <3>1. CASE type \in {"KeyPress", "ButtonPress"}
      <4>1. x \in mask' /\ x \in pending[1].shown
        BY <1>1, <1>6, <2>1, <3>1 DEF ShowsItself
      <4> QED
        BY <4>1 DEF Differ
    <3>2. CASE type \in {"KeyRelease", "ButtonRelease"}
      <4>1. x \notin mask' /\ x \notin pending[1].shown
        BY <1>1, <1>6, <2>1, <3>2 DEF ShowsItself
      <4> QED
        BY <4>1 DEF Differ
    <3>3. CASE type = "MotionNotify"
      BY <1>1, <1>6, <2>1, <3>3 DEF ShowsItself
    <3> QED
      BY <3>1, <3>2, <3>3 DEF EventTypes
  <2>2. ASSUME NEW x \in J, x \notin own, x \in Differ(mask', pending[1].shown) PROVE x \in stale'
    <3>1. x \in mask' <=> x \in mask
      BY <2>2
    <3>2. x \in Differ(mask, pending[1].shown)
      BY <2>2, <3>1 DEF Differ
    <3> QED
      BY <1>7, <2>2, <3>2
  <2> HIDE DEF own, J
  <2> QED
    BY <2>1, <2>2
<1> HIDE DEF own, J
<1>9. \A i \in DOMAIN pending : i > 1 =>
         Differ(pending[i-1].shown, pending[i].shown) \cap J \subseteq Bits(pending[i])
  BY DEF MaskInv, ShowsWhatChanged, J
<1>10. (\A i \in DOMAIN pending : ShowsItself(pending[i]))'
  BY <1>1, <1>5 DEF MaskInv, ShowsWhatChanged
<1>11. ASSUME NEW i \in DOMAIN pending', i > 1
       PROVE  Differ(pending'[i-1].shown, pending'[i].shown) \cap J \subseteq Bits(pending'[i])
  <2>1. i \in Nat /\ i - 1 \in DOMAIN pending' /\ i + 1 \in DOMAIN pending /\ i + 1 > 1
    BY <1>1, <1>11
  <2>2. pending'[i] = pending[i+1] /\ pending'[i-1] = pending[i] /\ (i+1) - 1 = i
    BY <1>1, <2>1
  <2> QED
    BY <1>9, <2>1, <2>2
<1>12. (recording = "on" /\ pending # <<>> =>
          pending[Len(pending)].shown \cap Judged(stale) = Now \cap Judged(stale))'
  <2> SUFFICES ASSUME recording' = "on", pending' # <<>>
               PROVE  pending'[Len(pending')].shown \cap J = Now \cap J
    BY <1>2, <1>4
  <2>1. Len(pending') # 0
    BY <1>1, EmptyStream
  <2>2. Len(pending') \in DOMAIN pending' /\ Len(pending') + 1 = Len(pending)
    BY <1>1, <2>1
  <2>3. pending'[Len(pending')] = pending[Len(pending)]
    BY <1>1, <2>2
  <2> QED
    BY <1>1, <2>3 DEF MaskInv, ShowsWhatChanged, J
<1>13. ShowsWhatChanged'
  BY <1>2, <1>3, <1>10, <1>11, <1>12 DEF ShowsWhatChanged
<1>14. ASSUME pending' = <<>>, recording' \in {"ready", "on"}
       PROVE  Differ(mask', Now) \cap J \subseteq stale'
  <2>1. recording = "on" /\ Len(pending) = 1
    BY <1>1, <1>14, EmptyStream DEF MaskInv, StreamStops
  <2>2. pending[1].shown \cap J = Now \cap J
    BY <1>1, <2>1 DEF MaskInv, ShowsWhatChanged, J
  <2> QED
    BY <1>8, <2>2 DEF Differ
<1>15. ASSUME pending' # <<>>
       PROVE  Differ(mask', pending'[1].shown) \cap J \subseteq stale' \cup Bits(pending'[1])
  <2>1. Len(pending') # 0
    BY <1>1, <1>15, EmptyStream
  <2>2. 1 \in DOMAIN pending' /\ 2 \in DOMAIN pending /\ 2 - 1 = 1 /\ 1 + 1 = 2
    BY <1>1, <2>1
  <2>3. pending'[1] = pending[2]
    BY <1>1, <2>2
  <2>4. Differ(pending[1].shown, pending[2].shown) \cap J \subseteq Bits(pending[2])
    BY <1>9, <2>2
  <2> QED
    BY <1>8, <2>3, <2>4 DEF Differ
<1>16. MaskIsBehind'
  BY <1>2, <1>3, <1>4, <1>14, <1>15 DEF MaskIsBehind
<1>17. StreamStops'
  BY <1>1 DEF MaskInv, StreamStops
<1> QED
  BY <1>2, <1>8, <1>13, <1>16, <1>17 DEF MaskInv

\* initialize_modifiers() finds the keys and the buttons that are down, but for those
\* that it takes for another.
LEMMA StartMask ==
  ASSUME Types, MaskInv, Initialize \/ StartOfData \/ hook_stop \/ EndOfData
  PROVE  MaskInv'
<1>1. CASE Initialize
  <2>1. PICK pointer \in Answers, led \in Answers :
          /\ mask' = initialize_locks((heldKeys \cap ModifierKeys)
                                      \cup (IF pointer THEN InitialButtons ELSE {}), led)
          /\ stale' = (IF pointer THEN Misread ELSE ButtonBits)
                      \cup (IF led THEN {} ELSE {"LOCKS"})
    BY <1>1 DEF Initialize
  <2>2. /\ UNCHANGED <<heldKeys, heldButtons, leftHanded, pending>>
        /\ recording = "off" /\ recording' = "ready" /\ pending = <<>>
    BY <1>1 DEF Initialize, serverVars, MaskInv, StreamStops
  <2>3. heldButtons \in SUBSET Nat /\ leds \subseteq LockKeys
    BY InputAssumption DEF Types, InputTypeOK
  <2>4. Now' = Now
    BY <2>2 DEF Now, ShownNow, button_map_lookup, Logical
  <2>5. InitialButtons \subseteq ButtonBits
    BY BitGroups DEF InitialButtons
  <2>6. ASSUME NEW x \in ModifierKeys PROVE x \in mask' <=> x \in Now
    <3>1. x \in Now <=> x \in heldKeys
      BY <2>3, WhatIsShown DEF Now
    <3>2. x \notin LockKeys /\ x \notin InitialButtons
      BY <2>5, BitGroups
    <3> QED
      BY <2>1, <2>3, <3>1, <3>2 DEF initialize_locks
  <2>7. ASSUME NEW x \in ThreeBits PROVE x \in Differ(mask', Now) => x \in stale'
    <3>1. CASE ~pointer
      BY <2>1, <3>1, BitGroups
    <3>2. CASE pointer
      <4>1. x \notin LockKeys /\ x \notin ModifierKeys
        BY BitGroups
      <4>2. x \in mask' <=> x \in InitialButtons
        BY <2>1, <2>3, <3>2, <4>1 DEF initialize_locks
      <4>3. x \in Now <=> \E c \in heldButtons : x \in PressBits(Swap23(Logical(c)))
        BY <2>3, WhatIsShown DEF Now, button_map_lookup
      <4>4. x \in InitialButtons <=>
              \E c \in heldButtons : Logical(c) \in 1..5 /\ x = ButtonBit[Logical(c)]
        BY DEF InitialButtons
      <4>5. \A n \in 1..5 : x = ButtonBit[n] => n \in 1..3
        BY DEF ThreeBits, ButtonBit
      <4>6. \A n \in Nat : x \in PressBits(n) <=> n \in 1..3 /\ x = ButtonBit[n]
        <5>1. x # "BUTTON5"
          BY DEF ThreeBits
        <5> QED
          BY <5>1 DEF PressBits
      <4>7. \A c \in heldButtons : Logical(c) \in Nat /\ Swap23(Logical(c)) \in Nat
        BY <2>3 DEF Logical, Swap23
      <4>8. \A c \in heldButtons : Logical(c) \notin {2, 3} =>
               (x \in PressBits(Swap23(Logical(c))) <=> Logical(c) \in 1..5 /\ x = ButtonBit[Logical(c)])
        BY <4>5, <4>6, <4>7 DEF Swap23
      <4>9. CASE \A c \in heldButtons : Logical(c) \notin {2, 3}
        BY <4>2, <4>3, <4>4, <4>8, <4>9 DEF Differ
      <4>10. CASE \E c \in heldButtons : Logical(c) \in {2, 3}
        <5>1. CASE x \in {"BUTTON2", "BUTTON3"}
          BY <2>1, <3>2, <4>10, <5>1 DEF Misread
        <5>2. CASE x = "BUTTON1"
          <6>1. \A n \in 1..5 : x = ButtonBit[n] <=> n = 1
            BY <5>2 DEF ButtonBit
          <6>2. \A c \in heldButtons : Logical(c) \in {2, 3} =>
                  x \notin PressBits(Swap23(Logical(c))) /\ x # ButtonBit[Logical(c)]
            BY <4>6, <4>7, <6>1 DEF Swap23
          <6> QED
            BY <4>2, <4>3, <4>4, <4>8, <6>2 DEF Differ
        <5> QED
          BY <5>1, <5>2 DEF ThreeBits
      <4> QED
        BY <4>9, <4>10
    <3> QED
      BY <3>1, <3>2
  <2>8. Differ(mask', Now') \cap Judged(stale') \subseteq stale'
    BY <2>4, <2>6, <2>7, JudgedBits DEF Differ
  <2> QED
    BY <2>2, <2>8 DEF MaskInv, ShowsWhatChanged, MaskIsBehind, StreamStops
<1>2. CASE StartOfData \/ hook_stop \/ EndOfData
  <2>1. UNCHANGED <<heldKeys, heldButtons, leftHanded, pending, mask, stale>>
    BY <1>2 DEF StartOfData, hook_stop, EndOfData, serverVars
  <2>2. (\A e : Bits(e)' = Bits(e)) /\ Now' = Now
    BY <2>1 DEF Bits, OwnBits, Now, ShownNow, button_map_lookup, Logical
  <2>3. \A e : ShowsItself(e) <=> ShowsItself(e)'
    BY <2>1, <2>2 DEF ShowsItself
  <2>4. /\ recording' \in {"ready", "on"} => recording \in {"ready", "on"}
        /\ recording' = "on" /\ pending # <<>> => recording = "on"
        /\ recording' \in {"off", "ready"} => pending = <<>>
    BY <1>2 DEF StartOfData, hook_stop, EndOfData, MaskInv, StreamStops
  <2>5. ShowsWhatChanged'
    BY <2>1, <2>2, <2>3, <2>4 DEF MaskInv, ShowsWhatChanged
  <2>6. MaskIsBehind'
    BY <2>1, <2>2, <2>4 DEF MaskInv, MaskIsBehind
  <2> QED
    BY <2>1, <2>4, <2>5, <2>6 DEF MaskInv, StreamStops
<1> QED
  BY <1>1, <1>2

LEMMA KeyMask ==
  ASSUME Types, MaskInv, KeyPress \/ KeyRelease
  PROVE  /\ Differ(mask', pending[1].shown) \cap Judged(stale') \subseteq stale'
         /\ MaskInv'
<1> DEFINE k == pending[1].key
<1>1. PICK led, bits :
        /\ led \in Answers /\ mask' = initialize_locks(bits, led)
        /\ stale' = IF led THEN stale \ {k, "LOCKS"} ELSE (stale \ {k}) \cup {"LOCKS"}
        /\ \/ KeyPress /\ bits = SetKeyBit(k)
           \/ KeyRelease /\ bits = UnsetKeyBit(k)
  BY DEF KeyPress, KeyRelease, HandleKey
<1>2. PICK type : type \in {"KeyPress", "KeyRelease"} /\ Read(type)
  BY DEF KeyPress, KeyRelease
<1>3. pending[1] \in Recorded /\ pending[1].type = type /\ WellFormed(pending[1])
  BY <1>2, ReadTypes
<1>4. k \notin {"LOCKS", "MAPPING"}
  BY <1>3, RecordedFields, InputAssumption
<1>5. Bits(pending[1]) = {k} \cap ModifierKeys
  BY <1>2, <1>3, NoButton DEF Bits, OwnBits, WellFormed
<1>6. \A x \in Judged(stale) : x \in mask' <=> x \in bits
  BY <1>1, JudgedBits DEF initialize_locks, Types, InputTypeOK
<1>7. /\ stale \cap Judged(stale) \subseteq stale' \cup Bits(pending[1])
      /\ "MAPPING" \in stale' <=> "MAPPING" \in stale
  <2>1. "LOCKS" \notin Judged(stale)
    BY JudgedBits, BitGroups
  <2>2. k \in Judged(stale) /\ k \in stale => k \in Bits(pending[1])
    <3>1. k \notin ThreeBits
      BY <1>3, RecordedFields, InputAssumption, BitGroups DEF ThreeBits
    <3> QED
      BY <1>5, <3>1, JudgedBits
  <2> QED
    BY <1>1, <1>4, <2>1, <2>2
<1>8. CASE KeyPress
  <2>1. type = "KeyPress" /\ bits = mask \cup ({k} \cap ModifierKeys)
    BY <1>1, <1>2, <1>3, <1>8 DEF KeyPress, KeyRelease, Read, SetKeyBit
  <2> QED
    BY <1>2, <1>5, <1>6, <1>7, <2>1, HandledMask DEF EventTypes
<1>9. CASE KeyRelease
  <2>1. type = "KeyRelease" /\ bits = mask \ ({k} \cap ModifierKeys)
    BY <1>1, <1>2, <1>3, <1>9 DEF KeyPress, KeyRelease, Read, UnsetKeyBit
  <2> QED
    BY <1>2, <1>5, <1>6, <1>7, <2>1, HandledMask DEF EventTypes
<1> QED
  BY <1>8, <1>9

LEMMA MouseMask ==
  ASSUME Types, MaskInv, WheelPress \/ ButtonPress \/ WheelRelease \/ ButtonRelease \/ MotionNotify
  PROVE  /\ Differ(mask', pending[1].shown) \cap Judged(stale') \subseteq stale'
         /\ MaskInv'
<1> DEFINE m == button_map_lookup(pending[1].button)
<1>1. PICK type : type \in {"ButtonPress", "ButtonRelease", "MotionNotify"} /\ Read(type)
  BY DEF WheelPress, ButtonPress, WheelRelease, ButtonRelease, MotionNotify
<1>2. pending[1] \in Recorded /\ pending[1].type = type /\ WellFormed(pending[1])
  BY <1>1, ReadTypes
<1>3. m \in Nat
  BY <1>2, RecordedFields, LookedUp
<1>4. Bits(pending[1]) = PressBits(m)
  BY <1>1, <1>2 DEF Bits, OwnBits, WellFormed, ModifierKeys
<1>5. m \in Wheel => PressBits(m) = {}
  BY JudgedBits DEF Wheel
<1>6. "MAPPING" \notin PressBits(m)
  BY <1>3, JudgedBits
<1>7. type \in EventTypes
  BY <1>1 DEF EventTypes
<1> HIDE DEF m
<1>8. CASE WheelPress \/ WheelRelease
  <2>1. m \in Wheel /\ mask' = mask /\ stale' = stale
    BY <1>8 DEF WheelPress, WheelRelease, m
  <2> QED
    BY <1>1, <1>4, <1>5, <1>7, <2>1, HandledMask
<1>9. CASE ButtonPress
  <2>1. mask' = mask \cup PressBits(m) /\ stale' = stale \ PressBits(m) /\ type = "ButtonPress"
    BY <1>2, <1>9 DEF ButtonPress, Read, m
  <2> QED
    BY <1>1, <1>4, <1>6, <1>7, <2>1, HandledMask
<1>10. CASE ButtonRelease
  <2>1. mask' = mask \ PressBits(m) /\ stale' = stale \ PressBits(m) /\ type = "ButtonRelease"
    BY <1>2, <1>10 DEF ButtonRelease, ReleaseBits, Read, m
  <2> QED
    BY <1>1, <1>4, <1>6, <1>7, <2>1, HandledMask
<1>11. CASE MotionNotify
  <2>1. mask' = mask /\ stale' = stale /\ type = "MotionNotify"
    BY <1>2, <1>11 DEF MotionNotify, Read
  <2>2. PressBits(m) = {}
    BY <1>2, <2>1, NoButton DEF WellFormed, m
  <2> QED
    BY <1>1, <1>4, <1>7, <2>1, <2>2, HandledMask
<1> QED
  BY <1>8, <1>9, <1>10, <1>11

LEMMA Joined ==
  ASSUME NEW S, NEW s \in Seq(S), NEW t \in Seq(S)
  PROVE  \A i \in DOMAIN (s \o t) : (s \o t)[i] \in S
OBVIOUS

\* What a key event dispatches, and a release of a button.
LEMMA KeyEvents ==
  ASSUME KeyPress \/ KeyRelease, NEW i \in DOMAIN dispatched'
  PROVE  /\ dispatched'[i].type \in {"KEY_PRESSED", "KEY_TYPED", "KEY_RELEASED"}
         /\ dispatched'[i].mask = mask'
<1>1. ASSUME NEW type \in {"KEY_PRESSED", "KEY_RELEASED"}, NEW bits, NEW n \in Nat,
             HandleKey(type, bits, n)
      PROVE  /\ dispatched'[i].type \in {"KEY_PRESSED", "KEY_TYPED", "KEY_RELEASED"}
             /\ dispatched'[i].mask = mask'
  <2> DEFINE S == {Event(type, mask', 0, 0), Event("KEY_TYPED", mask', 0, 0)}
             t == [j \in 1..n |-> Event("KEY_TYPED", mask', 0, 0)]
  <2>1. dispatched' = <<Event(type, mask', 0, 0)>> \o t
    BY <1>1 DEF HandleKey
  <2>2. t \in Seq(S) /\ <<Event(type, mask', 0, 0)>> \in Seq(S)
    OBVIOUS
  <2>3. dispatched'[i] \in S
    BY <2>1, <2>2, Joined
  <2> QED
    BY <2>3 DEF Event
<1>2. \A n \in 0..2 : n \in Nat
  OBVIOUS
<1> QED
  BY <1>1, <1>2 DEF KeyPress, KeyRelease

LEMMA ReleaseEvents ==
  ASSUME ButtonRelease, NEW i \in DOMAIN dispatched'
  PROVE  /\ dispatched'[i].type \in {"MOUSE_RELEASED", "MOUSE_CLICKED"}
         /\ dispatched'[i].type = "MOUSE_CLICKED" => IsClick
         /\ dispatched'[i].mask = mask'
         /\ dispatched'[i].button = MouseButton(button_map_lookup(pending[1].button))
<1> DEFINE b == MouseButton(button_map_lookup(pending[1].button))
<1>1. PICK n : dispatched' = <<Event("MOUSE_RELEASED", mask', b, n)>>
                             \o IF IsClick THEN <<Event("MOUSE_CLICKED", mask', b, n)>> ELSE <<>>
  BY DEF ButtonRelease
<1> DEFINE released == Event("MOUSE_RELEASED", mask', b, n)
           clicked == Event("MOUSE_CLICKED", mask', b, n)
<1>2. /\ released.type = "MOUSE_RELEASED" /\ released.mask = mask' /\ released.button = b
      /\ clicked.type = "MOUSE_CLICKED" /\ clicked.mask = mask' /\ clicked.button = b
  BY DEF Event
<1> HIDE DEF b
<1>3. CASE IsClick
  <2> DEFINE S == {released, clicked}
  <2> HIDE DEF released, clicked
  <2>1. <<released>> \in Seq(S) /\ <<clicked>> \in Seq(S)
    OBVIOUS
  <2>2. dispatched'[i] \in S
    BY <1>1, <1>3, <2>1, Joined DEF released, clicked
  <2> QED
    BY <1>2, <1>3, <2>2 DEF b
<1>4. CASE ~IsClick
  <2> HIDE DEF released
  <2>1. dispatched' = <<released>> \o <<>>
    BY <1>1, <1>4 DEF released
  <2>2. dispatched'[i] = released
    BY <2>1
  <2> QED
    BY <1>2, <2>2 DEF b
<1> QED
  BY <1>3, <1>4

\* Every event is dispatched with the mask as its handler leaves it.
LEMMA SentMask ==
  ASSUME HookStep, NEW i \in DOMAIN dispatched', dispatched'[i].type \in InputKinds
  PROVE  /\ dispatched'[i].mask = mask'
         /\ \/ KeyPress \/ KeyRelease
            \/ WheelPress \/ ButtonPress \/ WheelRelease \/ ButtonRelease \/ MotionNotify
<1>1. CASE Initialize \/ StartOfData \/ hook_stop \/ EndOfData
  BY <1>1 DEF Initialize, StartOfData, hook_stop, EndOfData, Plain, InputKinds
<1>2. CASE KeyPress \/ KeyRelease
  BY <1>2, KeyEvents
<1>3. CASE WheelPress \/ WheelRelease \/ ButtonPress \/ MotionNotify
  BY <1>3 DEF WheelPress, WheelRelease, ButtonPress, MotionNotify, Event
<1>4. CASE ButtonRelease
  BY <1>4, ReleaseEvents
<1> QED
  BY <1>1, <1>2, <1>3, <1>4 DEF HookStep

\* However far the server is ahead, every event is dispatched with the bits of the keys and
\* buttons that were down when it was recorded, but for those that the hook could not know.
THEOREM MaskShows == InputSpec => MaskShowsInput
<1>1. InputInit => MaskInv
  BY DEF InputInit, MaskInv, ShowsWhatChanged, MaskIsBehind, StreamStops
<1>2. Types /\ MaskInv /\ [InputNext]_vars => MaskInv'
  <2>1. ASSUME UNCHANGED vars, MaskInv PROVE MaskInv'
    <3>1. UNCHANGED <<heldKeys, heldButtons, leftHanded, pending, mask, stale, recording>>
      BY <2>1 DEF vars, serverVars
    <3>2. (\A e : Bits(e)' = Bits(e)) /\ Now' = Now
      BY <3>1 DEF Bits, OwnBits, Now, ShownNow, button_map_lookup, Logical
    <3>3. \A e : ShowsItself(e) <=> ShowsItself(e)'
      BY <3>1, <3>2 DEF ShowsItself
    <3>4. ShowsWhatChanged'
      BY <2>1, <3>1, <3>2, <3>3 DEF MaskInv, ShowsWhatChanged
    <3>5. MaskIsBehind'
      BY <2>1, <3>1, <3>2 DEF MaskInv, MaskIsBehind
    <3> QED
      BY <2>1, <3>1, <3>4, <3>5 DEF MaskInv, StreamStops
  <2> QED
    BY <2>1, ServerMask, StartMask, KeyMask, MouseMask DEF InputNext, HookStep
<1> DEFINE Shows == \A i \in DOMAIN dispatched' :
                      dispatched'[i].type \in InputKinds =>
                        Differ(dispatched'[i].mask, pending[1].shown) \cap Judged(stale') \subseteq stale'
<1>3. Types /\ MaskInv /\ [InputNext]_vars => [Shows]_vars
  <2> SUFFICES ASSUME Types, MaskInv, InputNext, NEW i \in DOMAIN dispatched',
                      dispatched'[i].type \in InputKinds
               PROVE  Differ(dispatched'[i].mask, pending[1].shown) \cap Judged(stale') \subseteq stale'
    OBVIOUS
  <2>1. CASE ServerStep
    <3>1. dispatched' = <<>>
      BY <2>1 DEF ServerStep, KeyDown, KeyUp, ButtonDown, ButtonUp, PointerMoves, LedsChange,
                  Remap, Tick, Record
    <3> QED
      BY <3>1
  <2>2. CASE HookStep
    BY <2>2, SentMask, KeyMask, MouseMask
  <2> QED
    BY <2>1, <2>2 DEF InputNext
<1> QED
  BY <1>1, <1>2, <1>3, TypesInvariant, PTL DEF InputSpec, MaskShowsInput

-----------------------------------------------------------------------------
(* The clicks.                                                             *)

\* Events stand in the stream in the order of their times, none later than now.
StreamInOrder ==
  \A i \in DOMAIN pending :
    /\ pending[i].time <= now
    /\ \A j \in DOMAIN pending : i <= j => pending[i].time <= pending[j].time

\* The click goes with the presses that were read; and if its count has been reset, no
\* event still to be read can go on with it.
ClickInv ==
  /\ StreamInOrder
  /\ FollowsRun(click, presses, MultiClickTime)
  /\ click.button # 0 /\ click.count = 0 =>
       TooLate(now) /\ \A i \in DOMAIN pending : TooLate(pending[i].time)

LEMMA Times ==
  ASSUME Types
  PROVE  /\ now \in Nat /\ MultiClickTime \in Nat /\ ClickLimit \in Nat \ {0}
         /\ click \in [count : Nat, time : Nat, button : Nat]
         /\ \A i \in DOMAIN pending : pending[i].time \in Nat
         /\ presses \in Seq(TimedPress) /\ Len(presses) <= ClickLimit
<1>1. MultiClickTime \in Nat /\ ClickLimit \in Nat \ {0} /\ MaxTime \in Nat
  BY InputAssumption
<1>2. now \in Nat
  BY <1>1 DEF Types, InputTypeOK, Clock
<1>3. click \in [count : Nat, time : Nat, button : Nat]
  <2>1. click \in [count : 0..ClickLimit, time : 0..MaxTime, button : 0..5]
    BY DEF Types, InputTypeOK, Clock
  <2>2. /\ click = [count |-> click.count, time |-> click.time, button |-> click.button]
        /\ click.count \in Nat /\ click.time \in Nat /\ click.button \in Nat
    BY <1>1, <2>1
  <2> QED
    BY <2>2
<1>4. ASSUME NEW i \in DOMAIN pending PROVE pending[i].time \in Nat
  <2>1. pending[i] \in Recorded
    BY DEF Types, InputTypeOK
  <2> QED
    BY <2>1, RecordedFields
<1>5. ASSUME NEW p \in Press PROVE p \in TimedPress
  <2>1. p = [button |-> p.button, time |-> p.time] /\ p.button \in 0..5 /\ p.time \in 0..MaxTime
    BY DEF Press, Clock
  <2> QED
    BY <1>1, <2>1 DEF TimedPress
<1>6. presses \in Seq(Press) /\ Len(presses) <= ClickLimit
  BY DEF Types, InputTypeOK, Press
<1>7. presses \in Seq(TimedPress)
  BY <1>5, <1>6, PressesAreTimed
<1> QED
  BY <1>1, <1>2, <1>3, <1>4, <1>6, <1>7

\* Every step of the server but three records an event, or changes something unheard.
LEMMA ServerRecords ==
  ASSUME Types, ServerStep
  PROVE  \/ \E type, key, button, keys, buttons :
              /\ Record(type, key, button, keys, buttons)
              /\ recording = "on" => Grown(type, key, button, keys, buttons)
         \/ LedsChange \/ Remap \/ Tick
<1>0. /\ EventTypes = {"KeyPress", "KeyRelease", "ButtonPress", "ButtonRelease", "MotionNotify"}
      /\ "" \in Keys \cup {""} /\ 0 \in Buttons \cup {0}
  BY DEF EventTypes
<1>1. ASSUME NEW k \in Keys, KeyDown(k)
      PROVE  \E type, key, button, keys, buttons :
               /\ Record(type, key, button, keys, buttons)
               /\ recording = "on" => Grown(type, key, button, keys, buttons)
  <2>1. Record("KeyPress", k, 0, heldKeys \cup {k}, heldButtons)
    BY <1>1 DEF KeyDown
  <2>2. recording = "on" => Grown("KeyPress", k, 0, heldKeys \cup {k}, heldButtons)
    BY <1>0, <2>1, RecordGrows
  <2> QED
    BY <2>1, <2>2, Zenon
<1>2. ASSUME NEW k \in Keys, KeyUp(k)
      PROVE  \E type, key, button, keys, buttons :
               /\ Record(type, key, button, keys, buttons)
               /\ recording = "on" => Grown(type, key, button, keys, buttons)
  <2>1. Record("KeyRelease", k, 0, heldKeys \ {k}, heldButtons)
    BY <1>2 DEF KeyUp
  <2>2. recording = "on" => Grown("KeyRelease", k, 0, heldKeys \ {k}, heldButtons)
    BY <1>0, <2>1, RecordGrows
  <2> QED
    BY <2>1, <2>2, Zenon
<1>3. ASSUME NEW b \in Buttons, ButtonDown(b)
      PROVE  \E type, key, button, keys, buttons :
               /\ Record(type, key, button, keys, buttons)
               /\ recording = "on" => Grown(type, key, button, keys, buttons)
  <2>1. Record("ButtonPress", "", b, heldKeys, heldButtons \cup {b})
    BY <1>3 DEF ButtonDown
  <2>2. recording = "on" => Grown("ButtonPress", "", b, heldKeys, heldButtons \cup {b})
    BY <1>0, <2>1, RecordGrows
  <2> QED
    BY <2>1, <2>2, Zenon
<1>4. ASSUME NEW b \in Buttons, ButtonUp(b)
      PROVE  \E type, key, button, keys, buttons :
               /\ Record(type, key, button, keys, buttons)
               /\ recording = "on" => Grown(type, key, button, keys, buttons)
  <2>1. Record("ButtonRelease", "", b, heldKeys, heldButtons \ {b})
    BY <1>4 DEF ButtonUp
  <2>2. recording = "on" => Grown("ButtonRelease", "", b, heldKeys, heldButtons \ {b})
    BY <1>0, <2>1, RecordGrows
  <2> QED
    BY <2>1, <2>2, Zenon
<1>5. ASSUME PointerMoves
      PROVE  \E type, key, button, keys, buttons :
               /\ Record(type, key, button, keys, buttons)
               /\ recording = "on" => Grown(type, key, button, keys, buttons)
  <2>1. Record("MotionNotify", "", 0, heldKeys, heldButtons)
    BY <1>5 DEF PointerMoves
  <2>2. recording = "on" => Grown("MotionNotify", "", 0, heldKeys, heldButtons)
    BY <1>0, <2>1, RecordGrows
  <2> QED
    BY <2>1, <2>2, Zenon
<1> QED
  BY <1>1, <1>2, <1>3, <1>4, <1>5 DEF ServerStep

LEMMA ServerClicks ==
  ASSUME Types, ClickInv, ServerStep
  PROVE  ClickInv' /\ dispatched' = <<>>
<1>t. /\ now \in Nat /\ MultiClickTime \in Nat
      /\ click \in [count : Nat, time : Nat, button : Nat]
      /\ \A i \in DOMAIN pending : pending[i].time \in Nat
  BY Times
<1>1. ASSUME NEW type, NEW key, NEW button, NEW keys, NEW buttons,
             Record(type, key, button, keys, buttons),
             recording = "on" => Grown(type, key, button, keys, buttons)
      PROVE  ClickInv' /\ dispatched' = <<>>
  <2>1. dispatched' = <<>> /\ UNCHANGED <<now, click, presses>>
    BY <1>1 DEF Record, clickVars, historyVars
  <2>2. CASE recording = "on"
    <3> DEFINE n == Len(pending) + 1
    <3>1. /\ Len(pending) \in Nat /\ DOMAIN pending = 1..Len(pending) /\ DOMAIN pending' = 1..n
          /\ pending'[n].time = now /\ \A i \in DOMAIN pending : pending'[i] = pending[i]
      BY <1>1, <2>2 DEF Grown
    <3>2. \A i \in DOMAIN pending' : i = n \/ i \in DOMAIN pending
      BY <3>1
    <3>3. StreamInOrder'
      <4> SUFFICES ASSUME NEW i \in DOMAIN pending'
                   PROVE  /\ pending'[i].time <= now
                          /\ \A j \in DOMAIN pending' : i <= j => pending'[i].time <= pending'[j].time
        BY <2>1 DEF StreamInOrder
      <4>1. pending'[i].time <= now
        BY <1>t, <3>1, <3>2 DEF ClickInv, StreamInOrder
      <4>2. ASSUME NEW j \in DOMAIN pending', i <= j PROVE pending'[i].time <= pending'[j].time
        <5>1. CASE j = n
          BY <3>1, <4>1, <5>1
        <5>2. CASE j # n
          <6>1. i \in DOMAIN pending /\ j \in DOMAIN pending
            BY <3>1, <3>2, <4>2, <5>2
          <6> QED
            BY <3>1, <4>2, <6>1 DEF ClickInv, StreamInOrder
        <5> QED
          BY <5>1, <5>2
      <4> QED
        BY <4>1, <4>2
    <3>4. (click.button # 0 /\ click.count = 0 =>
             TooLate(now) /\ \A i \in DOMAIN pending : TooLate(pending[i].time))'
      BY <2>1, <3>1, <3>2 DEF ClickInv, TooLate
    <3> QED
      BY <2>1, <3>3, <3>4 DEF ClickInv
  <2>3. CASE recording # "on"
    <3>1. pending' = pending
      BY <1>1, <2>3 DEF Record
    <3> QED
      BY <2>1, <3>1 DEF ClickInv, StreamInOrder, TooLate
  <2> QED
    BY <2>2, <2>3
<1>2. CASE LedsChange \/ Remap
  <2>1. dispatched' = <<>> /\ UNCHANGED <<now, click, presses, pending>>
    BY <1>2 DEF LedsChange, Remap, clickVars, historyVars
  <2> QED
    BY <2>1 DEF ClickInv, StreamInOrder, TooLate
<1>3. CASE Tick
  <2>1. dispatched' = <<>> /\ UNCHANGED <<click, presses, pending>> /\ now' = now + 1
    BY <1>3 DEF Tick, clickVars, historyVars
  <2>2. StreamInOrder'
    BY <1>t, <2>1 DEF ClickInv, StreamInOrder
  <2>3. TooLate(now) => TooLate(now)'
    BY <1>t, <2>1 DEF TooLate
  <2> QED
    BY <2>1, <2>2, <2>3 DEF ClickInv, TooLate
<1> QED
  BY <1>1, <1>2, <1>3, ServerRecords

\* What is left of the stream stays in order, and what the first event was too late for,
\* the others are too.
LEMMA ReadInOrder ==
  ASSUME Types, ClickInv, NEW type, Read(type)
  PROVE  /\ StreamInOrder' /\ pending[1].time \in Nat /\ pending[1].time <= now
         /\ now' = now
         /\ TooLate(pending[1].time) =>
              TooLate(now) /\ \A i \in DOMAIN pending' : TooLate(pending'[i].time)
         /\ (click.button # 0 /\ click.count = 0) =>
              /\ TooLate(pending[1].time) /\ TooLate(now)
              /\ \A i \in DOMAIN pending' : TooLate(pending'[i].time)
<1>1. /\ Len(pending) \in Nat \ {0} /\ DOMAIN pending = 1..Len(pending)
      /\ DOMAIN pending' = 1..Len(pending) - 1
      /\ \A i \in DOMAIN pending' : i+1 \in DOMAIN pending /\ pending'[i] = pending[i+1]
      /\ now' = now
  BY ReadTypes
<1>2. /\ now \in Nat /\ MultiClickTime \in Nat /\ click.time \in Nat
      /\ \A i \in DOMAIN pending : pending[i].time \in Nat
  BY Times
<1>3. 1 \in DOMAIN pending
  BY <1>1
<1>4. StreamInOrder'
  BY <1>1 DEF ClickInv, StreamInOrder
<1>5. pending[1].time \in Nat /\ pending[1].time <= now
  BY <1>2, <1>3 DEF ClickInv, StreamInOrder
<1>6. \A i \in DOMAIN pending' : pending'[i].time \in Nat /\ pending[1].time <= pending'[i].time
  BY <1>1, <1>2, <1>3 DEF ClickInv, StreamInOrder
<1>7. TooLate(pending[1].time) =>
        TooLate(now) /\ \A i \in DOMAIN pending' : TooLate(pending'[i].time)
  BY <1>2, <1>5, <1>6 DEF TooLate
<1>8. click.button # 0 /\ click.count = 0 => TooLate(pending[1].time)
  BY <1>3 DEF ClickInv
<1> QED
  BY <1>1, <1>4, <1>5, <1>7, <1>8

\* An event that is no press leaves the click, or resets a count that no press can
\* continue.
LEMMA NoPressClicks ==
  ASSUME Types, ClickInv, NEW type, Read(type), presses' = presses,
         \/ click' = click
         \/ click' = [click EXCEPT !.count = 0] /\ TooLate(pending[1].time)
  PROVE  ClickInv'
<1>1. /\ StreamInOrder' /\ now' = now
      /\ TooLate(pending[1].time) =>
           TooLate(now) /\ \A i \in DOMAIN pending' : TooLate(pending'[i].time)
      /\ (click.button # 0 /\ click.count = 0) =>
           TooLate(now) /\ \A i \in DOMAIN pending' : TooLate(pending'[i].time)
  BY ReadInOrder
<1>2. click \in [count : Nat, time : Nat, button : Nat]
  BY Times
<1>3. CASE click' = click
  BY <1>1, <1>3 DEF ClickInv, TooLate
<1>4. CASE click' = [click EXCEPT !.count = 0] /\ TooLate(pending[1].time)
  <2>1. click'.button = click.button /\ click'.time = click.time /\ click'.count = 0
    BY <1>2, <1>4
  <2>2. FollowsRun(click', presses', MultiClickTime)
    BY <2>1 DEF ClickInv, FollowsRun
  <2>3. TooLate(now)' /\ \A i \in DOMAIN pending' : TooLate(pending[i].time)'
    BY <1>1, <1>4, <2>1 DEF TooLate
  <2> QED
    BY <1>1, <2>2, <2>3 DEF ClickInv
<1> QED
  BY <1>3, <1>4

LEMMA PressClicks ==
  ASSUME Types, ClickInv, ButtonPress
  PROVE  ClickInv' /\ ClicksCountTheRun'
<1> DEFINE b == MouseButton(button_map_lookup(pending[1].button))
           t == pending[1].time
<1>1. /\ now \in Nat /\ MultiClickTime \in Nat /\ ClickLimit \in Nat \ {0}
      /\ click \in [count : Nat, time : Nat, button : Nat]
      /\ presses \in Seq(TimedPress) /\ Len(presses) <= ClickLimit
  BY Times
<1>2. Read("ButtonPress")
  BY DEF ButtonPress
<1>3. b \in Nat
  <2>1. pending[1] \in Recorded
    BY <1>2, ReadTypes
  <2>2. button_map_lookup(pending[1].button) \in Nat
    BY <2>1, RecordedFields, LookedUp
  <2>3. b \in 0..5
    BY <2>2, LookedUp
  <2> QED
    BY <2>3
<1>4. StreamInOrder' /\ t \in Nat /\ (click.button # 0 /\ click.count = 0 => TooLate(t))
  BY <1>2, ReadInOrder
<1>5. /\ click' = NextClick(b, t)
      /\ presses' = LastFew(Append(presses, [button |-> b, time |-> t]), ClickLimit)
      /\ \A i \in DOMAIN dispatched' : /\ dispatched'[i].clicks = click'.count
                                       /\ dispatched'[i].button = b
  <2>1. /\ click' = NextClick(b, t)
        /\ presses' = LastFew(Append(presses, [button |-> b, time |-> t]), ClickLimit)
        /\ dispatched' = <<Event("MOUSE_PRESSED", mask', b, click'.count)>>
    BY DEF ButtonPress
  <2> HIDE DEF b, t
  <2>2. \A i \in DOMAIN dispatched' : /\ dispatched'[i].clicks = click'.count
                                      /\ dispatched'[i].button = b
    BY <2>1 DEF Event
  <2> QED
    BY <2>1, <2>2
<1> HIDE DEF b, t
<1>6. FollowsRun(click', presses', MultiClickTime) /\ click'.count # 0
  BY <1>1, <1>3, <1>4, <1>5, PressFollowsRun, SMTT(30) DEF NextClick, TooLate, ClickInv
<1>7. click'.button = b
  BY <1>5 DEF NextClick
<1>8. presses' \in Seq(TimedPress)
  <2>1. [button |-> b, time |-> t] \in TimedPress
    BY <1>3, <1>4 DEF TimedPress
  <2> QED
    BY <1>1, <1>5, <2>1, NewestPresses DEF IsNewest
<1>9. b # 0 => click'.count = RunLength(presses', MultiClickTime)
  BY <1>1, <1>6, <1>7, <1>8, CountIsRunLength
<1> QED
  BY <1>4, <1>5, <1>6, <1>9 DEF ClickInv, ClicksCountTheRun

LEMMA HookClicks ==
  ASSUME Types, ClickInv, HookStep
  PROVE  ClickInv' /\ ClicksCountTheRun'
<1> DEFINE NoPress == \A i \in DOMAIN dispatched' : dispatched'[i].type # "MOUSE_PRESSED"
<1>n. NoPress => ClicksCountTheRun'
  BY DEF ClicksCountTheRun
<1>1. CASE Initialize
  <2>1. /\ UNCHANGED <<now, pending>> /\ click' = NoClick /\ presses' = <<>> /\ NoPress
    BY <1>1 DEF Initialize, serverVars
  <2> QED
    BY <1>n, <2>1 DEF ClickInv, StreamInOrder, FollowsRun, NoClick
<1>2. CASE StartOfData \/ hook_stop \/ EndOfData
  <2>1. UNCHANGED <<now, pending, click, presses>> /\ NoPress
    BY <1>2 DEF StartOfData, hook_stop, EndOfData, Plain, serverVars, clickVars, historyVars
  <2> QED
    BY <1>n, <2>1 DEF ClickInv, StreamInOrder, TooLate
<1>4. CASE KeyPress \/ KeyRelease
  <2>2. NoPress
    BY <1>4, KeyEvents
  <2>3. PICK type : Read(type) /\ click' = click /\ presses' = presses
    BY <1>4 DEF KeyPress, KeyRelease, clickVars, historyVars
  <2> QED
    BY <1>n, <2>2, <2>3, NoPressClicks
<1>5. CASE WheelPress
  <2>1. Read("ButtonPress") /\ presses' = <<>> /\ NoPress /\ click' = [click EXCEPT !.count = 1, !.button = 0]
    BY <1>5 DEF WheelPress, Event
  <2>2. click'.button = 0
    BY <2>1, Times
  <2> QED
    BY <1>n, <2>1, <2>2, ReadInOrder DEF ClickInv, FollowsRun
<1>6. CASE ButtonPress
  BY <1>6, PressClicks
<1>7. CASE WheelRelease
  <2>1. Read("ButtonRelease") /\ presses' = presses /\ click' = click /\ NoPress
    BY <1>7 DEF WheelRelease, clickVars, historyVars
  <2> QED
    BY <1>n, <2>1, NoPressClicks
<1>8. CASE ButtonRelease
  <2>5. NoPress
    BY <1>8, ReleaseEvents
  <2>6. /\ Read("ButtonRelease") /\ presses' = presses
        /\ \/ click' = click
           \/ click' = [click EXCEPT !.count = 0] /\ TooLate(pending[1].time)
    BY <1>8 DEF ButtonRelease
  <2> QED
    BY <1>n, <2>5, <2>6, NoPressClicks
<1>9. CASE MotionNotify
  <2>1. NoPress
    BY <1>9 DEF MotionNotify, Event
  <2>2. /\ Read("MotionNotify") /\ presses' = presses
        /\ \/ click' = click
           \/ click' = [click EXCEPT !.count = 0] /\ TooLate(pending[1].time)
    BY <1>9 DEF MotionNotify
  <2> QED
    BY <1>n, <2>1, <2>2, NoPressClicks
<1> QED
  BY <1>1, <1>2, <1>4, <1>5, <1>6, <1>7, <1>8, <1>9 DEF HookStep

\* The click number of every press is the length of the run of presses that it ends, or
\* the limit, although the hook reads the presses late and other events reset the count.
THEOREM X11ClicksAreCounted == InputSpec => []ClicksCountTheRun
<1>1. InputInit => ClickInv /\ ClicksCountTheRun
  BY DEF InputInit, ClickInv, StreamInOrder, FollowsRun, NoClick, ClicksCountTheRun
<1>2. Types /\ ClickInv /\ ClicksCountTheRun /\ [InputNext]_vars => ClickInv' /\ ClicksCountTheRun'
  <2>1. ASSUME UNCHANGED vars, ClickInv, ClicksCountTheRun PROVE ClickInv' /\ ClicksCountTheRun'
    <3>1. UNCHANGED <<now, pending, click, presses, dispatched>>
      BY <2>1 DEF vars, serverVars, clickVars, historyVars
    <3> QED
      BY <2>1, <3>1 DEF ClickInv, StreamInOrder, TooLate, ClicksCountTheRun
  <2>2. dispatched' = <<>> => ClicksCountTheRun'
    BY DEF ClicksCountTheRun
  <2> QED
    BY <2>1, <2>2, ServerClicks, HookClicks DEF InputNext
<1> QED
  BY <1>1, <1>2, TypesInvariant, PTL DEF InputSpec

-----------------------------------------------------------------------------
(* The drag.                                                               *)

\* Until the mapping changes, a button that is down has its bit, and one that was
\* moved has set the drag flag.
DragFlag ==
  recording # "off" /\ "MAPPING" \notin stale =>
    \A b \in down : button_map_lookup(b) \in 1..3 =>
       /\ ButtonBit[button_map_lookup(b)] \in mask
       /\ b \in moved => isDragged

\* Nothing is left in the stream of a hook that has ended.
DragInv == DragFlag /\ StreamStops

LEMMA ServerDrag ==
  ASSUME Types, DragInv, ServerStep
  PROVE  DragInv' /\ dispatched' = <<>>
<1>1. ASSUME NEW type, NEW key, NEW button, NEW keys, NEW buttons,
             Record(type, key, button, keys, buttons)
      PROVE  /\ UNCHANGED <<leftHanded, recording, mask, isDragged, down, moved>>
             /\ dispatched' = <<>> /\ (recording # "on" => pending' = pending)
  BY <1>1 DEF Record, clickVars, historyVars
<1>2. ASSUME "MAPPING" \in stale' \/ "MAPPING" \notin stale, dispatched' = <<>>,
             UNCHANGED <<leftHanded, recording, mask, isDragged, down, moved>>,
             recording # "on" => pending' = pending
      PROVE  DragInv' /\ dispatched' = <<>>
  BY <1>2 DEF DragInv, DragFlag, StreamStops, button_map_lookup, Logical
<1>3. stale \subseteq stale'
  BY DEF ServerStep, KeyDown, KeyUp, ButtonDown, ButtonUp, PointerMoves, LedsChange, Remap,
         Tick, Unheard
<1>4. CASE LedsChange \/ Tick
  <2>1. /\ UNCHANGED <<leftHanded, recording, mask, isDragged, down, moved, pending>>
        /\ dispatched' = <<>>
    BY <1>4 DEF LedsChange, Tick, clickVars, historyVars
  <2> QED
    BY <1>2, <1>3, <2>1
<1>5. CASE Remap
  <2>1. /\ UNCHANGED <<recording, mask, isDragged, down, moved, pending>> /\ dispatched' = <<>>
        /\ recording # "off" => "MAPPING" \in stale'
    BY <1>5 DEF Remap, clickVars, historyVars
  <2> QED
    BY <2>1 DEF DragInv, DragFlag, StreamStops
<1> QED
  BY <1>1, <1>2, <1>3, <1>4, <1>5, ServerRecords

LEMMA HookDrag ==
  ASSUME Types, DragInv, HookStep
  PROVE  DragInv'
<1> DEFINE button == pending[1].button
           m == button_map_lookup(button)
<1>t. down \subseteq Nat /\ moved \subseteq down
  BY InputAssumption DEF Types, InputTypeOK
<1>1. CASE Initialize
  BY <1>1 DEF Initialize, DragInv, DragFlag, StreamStops
<1>2. CASE StartOfData \/ hook_stop \/ EndOfData
  <2>1. UNCHANGED <<leftHanded, pending, mask, isDragged, stale, down, moved>>
    BY <1>2 DEF StartOfData, hook_stop, EndOfData, serverVars, clickVars, historyVars
  <2>2. recording # "off" /\ (recording' \in {"off", "ready"} => pending = <<>>)
    BY <1>2 DEF StartOfData, hook_stop, EndOfData
  <2> QED
    BY <2>1, <2>2 DEF DragInv, DragFlag, StreamStops, button_map_lookup, Logical
<1>r. ASSUME NEW type, Read(type)
      PROVE  /\ pending[1] \in Recorded /\ button \in Nat /\ m \in Nat
             /\ pending[1].key \in Keys \cup {""}
             /\ UNCHANGED <<leftHanded, recording>> /\ recording # "off" /\ StreamStops'
             /\ \A b : button_map_lookup(b)' = button_map_lookup(b)
  <2>1. pending[1] \in Recorded /\ UNCHANGED <<leftHanded, recording>>
    BY <1>r, ReadTypes
  <2>2. recording \notin {"off", "ready"}
    BY <1>r DEF Read, DragInv, StreamStops
  <2> QED
    BY <2>1, <2>2, RecordedFields, LookedUp DEF StreamStops, button_map_lookup, Logical
<1>s. ASSUME NEW type, Read(type), UNCHANGED <<isDragged, down, moved>>,
             mask' \cap ThreeBits = mask \cap ThreeBits, "MAPPING" \in stale => "MAPPING" \in stale'
      PROVE  DragInv'
  <2>1. \A b \in Nat : button_map_lookup(b) \in 1..3 => ButtonBit[button_map_lookup(b)] \in ThreeBits
    BY BitGroups
  <2> QED
    BY <1>t, <1>r, <1>s, <2>1 DEF DragInv, DragFlag
<1>3. CASE KeyPress \/ KeyRelease
  <2>1. PICK led, bits :
          /\ led \in Answers /\ mask' = initialize_locks(bits, led)
          /\ stale' = IF led THEN stale \ {pending[1].key, "LOCKS"}
                      ELSE (stale \ {pending[1].key}) \cup {"LOCKS"}
          /\ bits \in {SetKeyBit(pending[1].key), UnsetKeyBit(pending[1].key)}
    BY <1>3 DEF KeyPress, KeyRelease, HandleKey
  <2>2. PICK type : Read(type) /\ UNCHANGED <<isDragged, down, moved>>
    BY <1>3 DEF KeyPress, KeyRelease, clickVars, historyVars
  <2>3. pending[1].key # "MAPPING"
    BY <1>r, <2>2, InputAssumption
  <2>4. ThreeBits \cap LockKeys = {} /\ ThreeBits \cap ModifierKeys = {} /\ leds \cap ThreeBits = {}
    BY BitGroups DEF Types, InputTypeOK
  <2>5. bits \cap ThreeBits = mask \cap ThreeBits
    BY <2>1, <2>4 DEF SetKeyBit, UnsetKeyBit
  <2>6. mask' \cap ThreeBits = mask \cap ThreeBits
    BY <2>1, <2>4, <2>5 DEF initialize_locks
  <2> QED
    BY <1>s, <2>1, <2>2, <2>3, <2>6
<1>4. CASE WheelPress \/ WheelRelease
  <2>1. PICK type : Read(type) /\ UNCHANGED <<mask, isDragged, stale, down, moved>>
    BY <1>4 DEF WheelPress, WheelRelease, clickVars, historyVars
  <2> QED
    BY <1>s, <2>1
<1>5. CASE ButtonPress
  <2>1. /\ Read("ButtonPress") /\ mask' = mask \cup PressBits(m) /\ stale' = stale \ PressBits(m)
        /\ down' = down \cup {button} /\ moved' = moved \ {button} /\ isDragged' = isDragged
    BY <1>5 DEF ButtonPress
  <2>2. "MAPPING" \in stale' <=> "MAPPING" \in stale
    BY <1>r, <2>1, JudgedBits
  <2>3. m \in 1..3 => ButtonBit[m] \in PressBits(m)
    BY DEF PressBits
  <2> HIDE DEF m, button
  <2>4. DragFlag'
    <3> SUFFICES ASSUME "MAPPING" \notin stale', NEW b \in down', button_map_lookup(b) \in 1..3
                 PROVE  /\ ButtonBit[button_map_lookup(b)] \in mask'
                        /\ b \in moved' => isDragged'
      BY <1>r, <2>1 DEF DragFlag
    <3>1. CASE b = button
      BY <2>1, <2>3, <3>1 DEF m
    <3>2. CASE b # button
      BY <1>r, <2>1, <2>2, <3>2 DEF DragInv, DragFlag
    <3> QED
      BY <3>1, <3>2
  <2> QED
    BY <1>r, <2>1, <2>4 DEF DragInv
<1>6. CASE ButtonRelease
  <2>1. /\ Read("ButtonRelease") /\ mask' = mask \ PressBits(m) /\ stale' = stale \ PressBits(m)
        /\ down' = down \ {button} /\ moved' = moved \ {button} /\ isDragged' = isDragged
    BY <1>6 DEF ButtonRelease, ReleaseBits
  <2>2. "MAPPING" \in stale' <=> "MAPPING" \in stale
    BY <1>r, <2>1, JudgedBits
  <2>3. button \in Nat
    BY <1>r, <2>1
  <2> HIDE DEF button
  <2>4. DragFlag'
    <3> SUFFICES ASSUME "MAPPING" \notin stale', NEW b \in down', button_map_lookup(b) \in 1..3
                 PROVE  /\ ButtonBit[button_map_lookup(b)] \in mask'
                        /\ b \in moved' => isDragged'
      BY <1>r, <2>1 DEF DragFlag
    <3>1. b \in down /\ b # button /\ b \in Nat
      BY <1>t, <2>1
    <3>2. ButtonBit[button_map_lookup(b)] \in mask /\ (b \in moved => isDragged)
      BY <1>r, <2>1, <2>2, <3>1 DEF DragInv, DragFlag
    <3>3. /\ ButtonBit[button_map_lookup(b)] \in ThreeBits
          /\ ButtonBit[button_map_lookup(b)] \in PressBits(button_map_lookup(b))
      BY BitGroups DEF PressBits
    <3>4. ButtonBit[button_map_lookup(b)] \notin PressBits(m)
      BY <2>3, <3>1, <3>3, JudgedBits
    <3> QED
      BY <2>1, <3>2, <3>4
  <2> QED
    BY <1>r, <2>1, <2>4 DEF DragInv
<1>7. CASE MotionNotify
  <2>1. /\ Read("MotionNotify") /\ UNCHANGED <<mask, stale, down>> /\ moved' = down
        /\ isDragged' = (mask \cap ButtonBits # {})
    BY <1>7 DEF MotionNotify
  <2>2. DragFlag'
    <3> SUFFICES ASSUME "MAPPING" \notin stale', NEW b \in down', button_map_lookup(b) \in 1..3
                 PROVE  /\ ButtonBit[button_map_lookup(b)] \in mask'
                        /\ isDragged'
      BY <1>r, <2>1 DEF DragFlag
    <3>1. ButtonBit[button_map_lookup(b)] \in mask
      BY <1>r, <2>1 DEF DragInv, DragFlag
    <3>2. ButtonBit[button_map_lookup(b)] \in ButtonBits
      BY BitGroups
    <3> QED
      BY <2>1, <3>1, <3>2
  <2> QED
    BY <1>r, <2>1, <2>2 DEF DragInv
<1> QED
  BY <1>1, <1>2, <1>3, <1>4, <1>5, <1>6, <1>7 DEF HookStep

\* No click is reported for one of the three buttons with which the pointer was dragged,
\* however presses, releases and motions of several buttons follow each other.
THEOREM NoClickAfterDrag == InputSpec => ClickedWithoutDrag
<1>1. InputInit => DragInv
  BY DEF InputInit, DragInv, DragFlag, StreamStops
<1>2. Types /\ DragInv /\ [InputNext]_vars => DragInv'
  <2>1. ASSUME UNCHANGED vars, DragInv PROVE DragInv'
    <3>1. UNCHANGED <<leftHanded, pending, recording, mask, isDragged, stale, down, moved>>
      BY <2>1 DEF vars, serverVars, clickVars, historyVars
    <3> QED
      BY <2>1, <3>1 DEF DragInv, DragFlag, StreamStops, button_map_lookup, Logical
  <2> QED
    BY <2>1, ServerDrag, HookDrag DEF InputNext
<1> DEFINE Right == \A i \in DOMAIN dispatched' :
                      /\ dispatched'[i].type = "MOUSE_CLICKED"
                      /\ dispatched'[i].button \in 1..3
                      /\ "MAPPING" \notin stale
                      => pending[1].button \notin moved
<1>3. Types /\ DragInv /\ [InputNext]_vars => [Right]_vars
  <2> SUFFICES ASSUME Types, DragInv, InputNext, NEW i \in DOMAIN dispatched',
                      dispatched'[i].type = "MOUSE_CLICKED", dispatched'[i].button \in 1..3,
                      "MAPPING" \notin stale
               PROVE  pending[1].button \notin moved
    OBVIOUS
  <2>1. CASE ServerStep
    BY <2>1, ServerDrag
  <2>2. CASE ButtonRelease
    <3> DEFINE m == button_map_lookup(pending[1].button)
    <3>1. ~isDragged /\ MouseButton(m) \in 1..3
      BY <2>2, ReleaseEvents DEF IsClick
    <3>2. Read("ButtonRelease") /\ recording # "off"
      BY <2>2 DEF ButtonRelease, Read, DragInv, StreamStops
    <3>3. m \in Nat
      BY <3>2, ReadTypes, RecordedFields, LookedUp
    <3> HIDE DEF m
    <3>4. m \in 1..3
      BY <3>1, <3>3 DEF MouseButton
    <3> QED
      BY <3>1, <3>2, <3>4 DEF DragInv, DragFlag, Types, InputTypeOK, m
  <2>3. CASE KeyPress \/ KeyRelease
    BY <2>3, KeyEvents
  <2>4. CASE Initialize \/ StartOfData \/ hook_stop \/ EndOfData \/ WheelPress \/ ButtonPress
             \/ WheelRelease \/ MotionNotify
    BY <2>4 DEF Initialize, StartOfData, hook_stop, EndOfData, Plain, WheelPress, ButtonPress,
                WheelRelease, MotionNotify, Event
  <2> QED
    BY <2>1, <2>2, <2>3, <2>4 DEF InputNext, HookStep
<1> QED
  BY <1>1, <1>2, <1>3, TypesInvariant, PTL DEF InputSpec, ClickedWithoutDrag
=============================================================================
