------------------------- MODULE WindowsInputProofs -------------------------
(***************************************************************************)
(* The modifier mask of the Windows hook, for any keys, any number of      *)
(* window events under way and a SetWinEventHook() that may fail: the      *)
(* proofs about WindowsInput.                                              *)
(***************************************************************************)
EXTENDS WindowsInput, TLAPS

\* No bit is both a modifier's and a lock's.
LEMMA ModifiersAreNoLocks == ModifierKeys \cap LockKeys = {}
  BY DEF ModifierKeys, LockKeys

-----------------------------------------------------------------------------
(* Types.                                                                  *)

\* A key, heard or not, leaves every variable in its type.
LEMMA KeysKeepTypes ==
  ASSUME WindowsTypeOK, NEW k \in Keys, KeyDown(k) \/ KeyUp(k)
  PROVE  WindowsTypeOK'
<1> USE DEF Bit, Lock
<1>1. UNCHANGED systemVars /\ heldKeys' \subseteq Keys /\ toggled' \subseteq LockKeys
  BY DEF KeyDown, KeyUp, WindowsTypeOK, Differ
<1>2. Truth' \subseteq ModifierKeys \cup LockKeys
  BY <1>1 DEF Truth, Shown
<1>3. ASSUME NEW bits, bits \subseteq ModifierKeys \cup LockKeys
      PROVE  /\ get_modifiers(bits) \subseteq ModifierKeys \cup LockKeys
             /\ initialize_modifiers(bits) \subseteq ModifierKeys \cup LockKeys
  BY <1>3 DEF get_modifiers, initialize_modifiers, Shown
<1>4. StaleAfter(k) \subseteq ModifierKeys \cup LockKeys
  BY <1>2, <1>3 DEF StaleAfter, Differ, WindowsTypeOK
<1>5. CASE \E bits \in SUBSET (ModifierKeys \cup LockKeys) : Unheard(k, bits)
  BY <1>1, <1>5 DEF Unheard, WindowsTypeOK, systemVars
<1>6. CASE process_key_pressed(k)
  <2> DEFINE b == currentModifiers \cup Bit(k) \cup Lock(k)
  <2>1. b \subseteq ModifierKeys \cup LockKeys
    BY DEF WindowsTypeOK, Bit, Lock
  <2>2. get_modifiers(b) \subseteq ModifierKeys \cup LockKeys
    BY <2>1, <1>3
  <2> QED
    BY <1>1, <1>2, <1>4, <1>6, <2>2 DEF process_key_pressed, Mends, WindowsTypeOK, systemVars
<1>7. CASE process_key_released(k)
  <2>1. get_modifiers(currentModifiers \ Bit(k)) \subseteq ModifierKeys \cup LockKeys
    BY <1>3 DEF WindowsTypeOK
  <2> QED
    BY <1>1, <1>4, <1>7, <2>1 DEF process_key_released, Mends, LockReleased, WindowsTypeOK, systemVars
<1> QED
  BY <1>5, <1>6, <1>7 DEF KeyDown, KeyUp

\* Windows, the timer and the life of the hook leave every variable in its type.
LEMMA SystemKeepsTypes ==
  ASSUME WindowsTypeOK,
         \/ ForegroundChanges \/ win_hook_event_proc \/ foreground_timer_proc
         \/ Run \/ Quit
  PROVE  WindowsTypeOK'
<1> USE WindowsAssumption DEF WindowsTypeOK, maskVars
<1>1. CASE ForegroundChanges
  <2>1. foreground' \in Windows
    BY <1>1 DEF ForegroundChanges
  <2>2. winEvents' \in Seq(Windows) /\ Len(winEvents') <= MaxWinEvents
    BY <1>1, <2>1 DEF ForegroundChanges
  <2> QED
    BY <1>1, <2>1, <2>2 DEF ForegroundChanges
<1>2. CASE win_hook_event_proc
  <2>1. winEvents' \in Seq(Windows) /\ Len(winEvents') <= MaxWinEvents /\ Head(winEvents) \in Windows
    BY <1>2 DEF win_hook_event_proc
  <2> QED
    BY <1>2, <2>1 DEF win_hook_event_proc, check_and_update_uipi_state
<1>3. CASE foreground_timer_proc
  BY <1>3 DEF foreground_timer_proc, check_and_update_uipi_state
<1>4. CASE Run
  <2>1. winEventsHooked' \in BOOLEAN /\ isBlockedByUipi' \in BOOLEAN /\ hook' = "on"
    BY <1>4 DEF Run
  <2>2. winEvents' \in Seq(Windows) /\ Len(winEvents') <= MaxWinEvents
    BY <1>4 DEF Run
  <2>3. foregroundWindow' \in Windows
    BY <1>4 DEF Run
  <2> QED
    BY <1>4, <2>1, <2>2, <2>3 DEF Run
<1>5. CASE Quit
  BY <1>5 DEF Quit
<1> QED
  BY <1>1, <1>2, <1>3, <1>4, <1>5

\* Every variable keeps its type.
THEOREM WindowsTypeCorrect == WindowsSpec => []WindowsTypeOK
<1>1. WindowsInit => WindowsTypeOK
  <2> SUFFICES ASSUME WindowsInit PROVE WindowsTypeOK
    OBVIOUS
  <2>1. winEvents \in Seq(Windows) /\ Len(winEvents) <= MaxWinEvents
    BY WindowsAssumption DEF WindowsInit
  <2> QED
    BY <2>1 DEF WindowsInit, WindowsTypeOK, Truth, Shown
<1>2. WindowsTypeOK /\ [WindowsNext]_vars => WindowsTypeOK'
  <2> SUFFICES ASSUME WindowsTypeOK, [WindowsNext]_vars PROVE WindowsTypeOK'
    OBVIOUS
  <2>1. CASE UNCHANGED vars
    BY <2>1 DEF WindowsTypeOK, vars, systemVars, maskVars
  <2> QED
    BY <2>1, KeysKeepTypes, SystemKeepsTypes DEF WindowsNext
<1> QED
  BY <1>1, <1>2, PTL DEF WindowsSpec

-----------------------------------------------------------------------------
(* Resynchronisation.                                                      *)

\* While the hook may be deaf, or has been, it has the news of an elevated window, or
\* the news is on its way.
Warned ==
  hook = "on" /\ winEventsHooked /\ (missed # {} \/ foreground = "elevated") =>
    isBlockedByUipi \/ \E i \in 1..Len(winEvents) : winEvents[i] = "elevated"

\* A key that is heard mends what was missed if the hook had been warned.
LEMMA KeysKeepWarned ==
  ASSUME WindowsTypeOK, Warned, NEW k \in Keys, KeyDown(k) \/ KeyUp(k)
  PROVE  Warned'
<1>1. UNCHANGED systemVars
  BY DEF KeyDown, KeyUp
<1>2. CASE ~Heard
  <2>1. UNCHANGED isBlockedByUipi
    BY <1>2 DEF KeyDown, KeyUp, Unheard
  <2>2. hook = "on" => foreground = "elevated"
    BY <1>2 DEF Heard, WindowsTypeOK, Windows
  <2> QED
    BY <1>1, <2>1, <2>2 DEF Warned, systemVars
<1>3. CASE Heard
  <2>1. process_key_pressed(k) \/ process_key_released(k)
    BY <1>3 DEF KeyDown, KeyUp, Unheard
  <2>2. foreground' # "elevated" /\ (isBlockedByUipi => missed' = {})
        /\ (~isBlockedByUipi => missed' \subseteq missed)
    BY <1>1, <1>3, <2>1 DEF process_key_pressed, process_key_released, Mends, Heard, systemVars
  <2> QED
    BY <1>1, <2>2 DEF Warned, systemVars
<1> QED
  BY <1>2, <1>3

\* News of a foreground window is put at the end of the line and not lost.
LEMMA SystemKeepsWarned ==
  ASSUME WindowsTypeOK, Warned,
         \/ ForegroundChanges \/ win_hook_event_proc \/ foreground_timer_proc
         \/ Run \/ Quit
  PROVE  Warned'
<1>1. CASE ForegroundChanges
  <2>1. CASE hook = "on" /\ winEventsHooked
    <3>1. /\ winEvents' = Append(winEvents, foreground')
          /\ winEvents \in Seq(Windows) /\ foreground' \in Windows
      BY <1>1, <2>1 DEF ForegroundChanges, WindowsTypeOK
    <3>2. /\ Len(winEvents') = Len(winEvents) + 1
          /\ winEvents'[Len(winEvents')] = foreground'
          /\ \A i \in 1..Len(winEvents) : winEvents'[i] = winEvents[i]
          /\ Len(winEvents) \in Nat
      BY <3>1
    <3>3. CASE foreground' = "elevated"
      BY <3>2, <3>3 DEF Warned
    <3>4. CASE foreground' # "elevated"
      <4>1. foreground = "elevated"
        BY <1>1, <3>4 DEF ForegroundChanges, Windows, WindowsTypeOK
      <4>2. isBlockedByUipi \/ \E i \in 1..Len(winEvents) : winEvents[i] = "elevated"
        BY <2>1, <4>1 DEF Warned
      <4>3. UNCHANGED isBlockedByUipi
        BY <1>1 DEF ForegroundChanges, maskVars
      <4> QED
        BY <3>2, <4>2, <4>3 DEF Warned
    <3> QED
      BY <3>3, <3>4
  <2>2. CASE ~(hook = "on" /\ winEventsHooked)
    BY <1>1, <2>2 DEF ForegroundChanges, Warned
  <2> QED
    BY <2>1, <2>2
<1>2. CASE win_hook_event_proc
  <2>1. /\ winEvents \in Seq(Windows) /\ winEvents # <<>>
        /\ winEvents' = Tail(winEvents)
        /\ isBlockedByUipi' = (isBlockedByUipi \/ winEvents[1] = "elevated")
        /\ UNCHANGED <<hook, winEventsHooked, missed, foreground>>
    BY <1>2 DEF win_hook_event_proc, check_and_update_uipi_state, WindowsTypeOK
  <2>2. /\ Len(winEvents) \in Nat /\ Len(winEvents') = Len(winEvents) - 1
        /\ \A i \in 1..Len(winEvents) : i # 1 => i-1 \in 1..Len(winEvents') /\ winEvents'[i-1] = winEvents[i]
    BY <2>1
  <2> QED
    BY <2>1, <2>2 DEF Warned
<1>3. CASE foreground_timer_proc
  BY <1>3 DEF foreground_timer_proc, check_and_update_uipi_state, Warned
<1>4. CASE Run
  BY <1>4 DEF Run, Warned
<1>5. CASE Quit
  BY <1>5 DEF Quit, Warned
<1> QED
  BY <1>1, <1>2, <1>3, <1>4, <1>5

\* However many windows come and go, and whether the timer or the event is first to
\* tell of them: a change that was not heard is followed by a resynchronisation
\* (windows/input_hook.c:94, 348).
THEOREM ResyncFollows == WindowsSpec => []ResyncIsDue
<1>1. WindowsInit => Warned
  BY DEF WindowsInit, Warned
<1>2. WindowsTypeOK /\ Warned /\ [WindowsNext]_vars => Warned'
  <2> SUFFICES ASSUME WindowsTypeOK, Warned, [WindowsNext]_vars PROVE Warned'
    OBVIOUS
  <2>1. CASE UNCHANGED vars
    BY <2>1 DEF Warned, vars, systemVars, maskVars
  <2> QED
    BY <2>1, KeysKeepWarned, SystemKeepsWarned DEF WindowsNext
<1>3. Warned => ResyncIsDue
  BY DEF Warned, ResyncIsDue, Heard
<1> QED
  BY <1>1, <1>2, <1>3, WindowsTypeCorrect, PTL DEF WindowsSpec

-----------------------------------------------------------------------------
(* The mask.                                                               *)

\* Unless a resynchronisation is due, the bits of the mask that are wrong are stale.
Followed == ~isBlockedByUipi => Differ(currentModifiers, Truth) \subseteq stale

\* The events that the step just taken has dispatched show the keys.
Shows(exception) ==
  \A i \in DOMAIN dispatched' :
    dispatched'[i].type \in KeyKinds =>
      Differ(dispatched'[i].mask, Truth') \subseteq stale' \cup exception

\* A key changes what the mask should be by its own bits only.
LEMMA KeysChangeTruth ==
  ASSUME WindowsTypeOK, NEW k \in Keys
  PROVE  /\ KeyDown(k) => Differ(Truth', Truth) \subseteq Bit(k) \cup Lock(k) /\ Bit(k) \subseteq Truth'
         /\ KeyUp(k) => /\ Differ(Truth', Truth) \subseteq Bit(k) /\ Bit(k) \cap Truth' = {}
                        /\ LockKeys \cap Truth' = toggled /\ toggled' = toggled
                        /\ Lock(k) \subseteq LockKeys \cap (heldKeys \ heldKeys')
<1>1. KeyDown(k) => Differ(Truth', Truth) \subseteq Bit(k) \cup Lock(k) /\ Bit(k) \subseteq Truth'
  BY DEF KeyDown, Truth, Shown, Differ, Bit, Lock
<1>2. KeyUp(k) => /\ Differ(Truth', Truth) \subseteq Bit(k) /\ Bit(k) \cap Truth' = {}
                  /\ LockKeys \cap Truth' = toggled /\ toggled' = toggled
                  /\ Lock(k) \subseteq LockKeys \cap (heldKeys \ heldKeys')
  BY ModifiersAreNoLocks DEF KeyUp, Truth, Shown, Differ, Bit, Lock, WindowsTypeOK
<1> QED
  BY <1>1, <1>2

\* A press that is heard.
LEMMA PressFollowed ==
  ASSUME WindowsTypeOK, Followed, NEW k \in Keys, KeyDown(k), process_key_pressed(k)
  PROVE  Followed' /\ Shows({})
<1> DEFINE m == get_modifiers(currentModifiers \cup Bit(k) \cup Lock(k))
<1>1. /\ dispatched' = <<[type |-> "KEY_PRESSED", mask |-> m]>>
      /\ isBlockedByUipi' = FALSE
      /\ \/ currentModifiers' = {} /\ stale' = StaleAfter(k) \cup Truth' /\ k = "DELETE"
         \/ currentModifiers' = m /\ stale' = StaleAfter(k) \cup Lock(k)
  BY DEF process_key_pressed, CtrlAltDelete
<1>2. Differ(m, Truth') \subseteq StaleAfter(k) \cup Lock(k)
  <2>1. CASE isBlockedByUipi
    BY <2>1 DEF get_modifiers, StaleAfter, initialize_modifiers
  <2>2. CASE ~isBlockedByUipi
    <3>1. m = currentModifiers \cup Bit(k) \cup Lock(k) /\ StaleAfter(k) = stale \ Bit(k)
      BY <2>2 DEF get_modifiers, StaleAfter
    <3>2. Differ(currentModifiers, Truth) \subseteq stale
      BY <2>2 DEF Followed
    <3> QED
      BY <3>1, <3>2, KeysChangeTruth DEF Differ
  <2> QED
    BY <2>1, <2>2
<1> HIDE DEF m
<1>3. k = "DELETE" => Lock(k) = {}
  BY DEF Lock, LockKeys
<1>4. Differ(m, Truth') \subseteq stale'
  BY <1>1, <1>2, <1>3
<1>5. Differ(currentModifiers', Truth') \subseteq stale'
  BY <1>1, <1>4 DEF Differ
<1> QED
  BY <1>1, <1>4, <1>5 DEF Followed, Shows

\* A release that is heard: its event still has the lock bit of its press.
LEMMA ReleaseFollowed ==
  ASSUME WindowsTypeOK, Followed, NEW k \in Keys, KeyUp(k), process_key_released(k)
  PROVE  Followed' /\ Shows(LockKeys \cap (heldKeys \ heldKeys'))
<1> DEFINE m == get_modifiers(currentModifiers \ Bit(k))
<1>1. /\ dispatched' = <<[type |-> "KEY_RELEASED", mask |-> m]>>
      /\ isBlockedByUipi' = FALSE
      /\ currentModifiers' = (m \ Lock(k)) \cup (toggled \cap Lock(k))
      /\ stale' = StaleAfter(k) \ Lock(k)
  BY DEF process_key_released, LockReleased
<1>2. Differ(m, Truth') \subseteq StaleAfter(k)
  <2>1. CASE isBlockedByUipi
    BY <2>1 DEF get_modifiers, StaleAfter, initialize_modifiers
  <2>2. CASE ~isBlockedByUipi
    <3>1. m = currentModifiers \ Bit(k) /\ StaleAfter(k) = stale \ Bit(k)
      BY <2>2 DEF get_modifiers, StaleAfter
    <3>2. Differ(currentModifiers, Truth) \subseteq stale
      BY <2>2 DEF Followed
    <3> QED
      BY <3>1, <3>2, KeysChangeTruth DEF Differ
  <2> QED
    BY <2>1, <2>2
<1> HIDE DEF m
<1>3. /\ LockKeys \cap Truth' = toggled
      /\ Lock(k) \subseteq LockKeys \cap (heldKeys \ heldKeys')
      /\ Lock(k) \subseteq LockKeys
  BY KeysChangeTruth DEF Lock
<1>4. Differ(m, Truth') \subseteq stale' \cup Lock(k)
  BY <1>1, <1>2
<1>5. Differ(currentModifiers', Truth') \subseteq stale'
  BY <1>1, <1>3, <1>4 DEF Differ
<1>6. Followed'
  BY <1>5 DEF Followed
<1>7. Differ(m, Truth') \subseteq stale' \cup (LockKeys \cap (heldKeys \ heldKeys'))
  BY <1>3, <1>4
<1>8. Shows(LockKeys \cap (heldKeys \ heldKeys'))
  BY <1>1, <1>7 DEF Shows
<1> QED
  BY <1>6, <1>8

\* No other step touches a bit of the mask that is not stale, or dispatches a key.
LEMMA OthersFollowed ==
  ASSUME WindowsTypeOK, Followed,
         \/ \E k \in Keys : (KeyDown(k) \/ KeyUp(k)) /\ ~Heard
         \/ ForegroundChanges \/ win_hook_event_proc \/ foreground_timer_proc
         \/ Run \/ Quit
  PROVE  Followed' /\ Shows({})
<1>1. ASSUME NEW k \in Keys, KeyDown(k) \/ KeyUp(k), ~Heard
      PROVE  Followed' /\ Shows({})
  <2>1. /\ dispatched' = <<>> /\ UNCHANGED <<isBlockedByUipi, currentModifiers>>
        /\ \/ Differ(Truth', Truth) \subseteq Bit(k) \cup Lock(k) /\ stale' = stale \cup (Bit(k) \cup Lock(k))
           \/ Differ(Truth', Truth) \subseteq Bit(k) /\ stale' = stale \cup Bit(k)
           \/ Truth' = Truth /\ stale' = stale
    BY <1>1, KeysChangeTruth DEF KeyDown, KeyUp, Unheard
  <2> QED
    BY <2>1 DEF Followed, Shows, Differ
<1>2. ASSUME \/ ForegroundChanges \/ win_hook_event_proc \/ foreground_timer_proc
             \/ Run \/ Quit
      PROVE  Followed' /\ Shows({})
  <2>1. UNCHANGED <<heldKeys, toggled, currentModifiers, stale>>
    BY <1>2 DEF ForegroundChanges, win_hook_event_proc, foreground_timer_proc, Run, Quit, maskVars
  <2>2. \/ dispatched' = <<>>
        \/ \E type \in {"HOOK_ENABLED", "HOOK_DISABLED"} : dispatched' = <<[type |-> type, mask |-> {}]>>
    BY <1>2 DEF ForegroundChanges, win_hook_event_proc, foreground_timer_proc, Run, Quit
  <2>3. \A i \in DOMAIN dispatched' : dispatched'[i].type \notin KeyKinds
    BY <2>2 DEF KeyKinds
  <2>4. Truth' = Truth
    BY <2>1 DEF Truth
  <2>5. ~isBlockedByUipi' => ~isBlockedByUipi
    BY <1>2 DEF ForegroundChanges, win_hook_event_proc, foreground_timer_proc, Run, Quit,
                check_and_update_uipi_state, maskVars
  <2> QED
    BY <2>1, <2>3, <2>4, <2>5 DEF Followed, Shows
<1> QED
  BY <1>1, <1>2

\* With any keys, windows and restarts, a listener is shown the keys that are down and
\* the locks that are on, but for the named exceptions (windows/input_hook.c:94, 120,
\* 235, 265, 310).
THEOREM MaskFollowsKeys == WindowsSpec => MaskShowsInput
<1> DEFINE Shown1 == Shows(LockKeys \cap (heldKeys \ heldKeys'))
<1>1. WindowsInit => Followed
  BY DEF WindowsInit, Followed
<1>2. ASSUME WindowsTypeOK, Followed, WindowsNext
      PROVE  Followed' /\ Shown1
  <2>1. Shows({}) => Shown1
    BY DEF Shows
  <2>2. ASSUME NEW k \in Keys, KeyDown(k), Heard
        PROVE  Followed' /\ Shown1
    <3>1. process_key_pressed(k)
      BY <2>2 DEF KeyDown, Unheard
    <3> QED
      BY <1>2, <2>1, <2>2, <3>1, PressFollowed
  <2>3. ASSUME NEW k \in Keys, KeyUp(k), Heard
        PROVE  Followed' /\ Shown1
    <3>1. process_key_released(k)
      BY <2>3 DEF KeyUp, Unheard
    <3> QED
      BY <1>2, <2>3, <3>1, ReleaseFollowed
  <2> HIDE DEF Shown1
  <2> QED
    BY <1>2, <2>1, <2>2, <2>3, OthersFollowed DEF WindowsNext
<1>3. Followed /\ UNCHANGED vars => Followed'
  BY DEF Followed, Truth, vars, maskVars
<1>4. WindowsTypeOK /\ Followed /\ [WindowsNext]_vars => Followed' /\ [Shown1]_vars
  BY <1>2, <1>3
<1>5. [Shown1]_vars =>
        [\A i \in DOMAIN dispatched' :
           dispatched'[i].type \in KeyKinds =>
             Differ(dispatched'[i].mask, Truth') \subseteq
               stale' \cup (LockKeys \cap (heldKeys \ heldKeys'))]_vars
  BY DEF Shows
<1> QED
  BY <1>1, <1>4, <1>5, WindowsTypeCorrect, PTL DEF WindowsSpec, MaskShowsInput

=============================================================================
