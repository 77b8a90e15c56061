---------------------------- MODULE WindowsInput ----------------------------
(***************************************************************************)
(* The keyboard half of the Windows back end (windows/input_hook.c): the   *)
(* modifier mask, and its resynchronisation after the user has been in a   *)
(* window of higher privilege (UIPI), where the hook is not called.        *)
(*                                                                         *)
(* The procedure that the source installs, keyboard_hook_event_proc(), is  *)
(* not in the repository; it is taken to call process_key_pressed() and    *)
(* process_key_released().  Windows calls a low-level hook before it       *)
(* updates the state that GetAsyncKeyState() reads, so that state is       *)
(* heldKeys before the step; a lock key toggles when it goes down, and     *)
(* GetKeyState() is taken to know of that when it comes up.                *)
(***************************************************************************)
EXTENDS InputEvents

CONSTANTS
    Keys,              \* the keys that the model presses; "DELETE" and locks are special
    WinEventsMayFail,  \* SetWinEventHook() may fail; the hook runs all the same
    MaxWinEvents       \* bound: window events the hook has not been told of yet

ASSUME WindowsAssumption ==
    /\ Keys \subseteq STRING
    /\ WinEventsMayFail \in BOOLEAN
    /\ MaxWinEvents \in Nat \ {0}

Windows == {"normal", "elevated"}

VARIABLES
    heldKeys, toggled,      \* the user: keys that are down, locks that are on,
    foreground,             \* the window in front
    hook,                   \* "off" or "on"
    winEventsHooked, winEvents,   \* SetWinEventHook() worked; events not yet delivered
    foregroundWindow,       \* foreground_window, the last one the hook knows of
    isBlockedByUipi, currentModifiers,
    dispatched,             \* what the step just taken has passed to dispatch_event()
    missed,                 \* history: bits that changed unheard since they were last right
    stale                   \* history: those, and the bits that a resynchronisation misread

systemVars == <<foreground, hook, winEventsHooked, winEvents, foregroundWindow>>
maskVars == <<isBlockedByUipi, currentModifiers, missed, stale>>
vars == <<heldKeys, toggled, systemVars, maskVars, dispatched>>

-----------------------------------------------------------------------------
(* Keys.                                                                   *)

Heard == hook = "on" /\ foreground = "normal"

\* Defective variant: every key has a bit in the mask.
BitOfAnyKey(k) == {k}

Bit(k) == {k} \cap ModifierKeys

Lock(k) == {k} \cap LockKeys

\* What the mask should be.
Truth == Shown(heldKeys, {}) \cup toggled

\* Defective variant: the resynchronisation does not clear the mask first.
initialize_modifiers_adding(bits) == bits \cup Shown(heldKeys, {}) \cup (heldKeys \cap LockKeys)

\* A lock's bit is set from the key, not from what it toggles.
initialize_modifiers(bits) == Shown(heldKeys, {}) \cup (heldKeys \cap LockKeys)

\* get_modifiers() just after the handler has made the mask `bits`.
get_modifiers(bits) == IF isBlockedByUipi THEN initialize_modifiers(bits) ELSE bits

CtrlAltDelete(k, bits) ==
    /\ k = "DELETE"
    /\ bits \cap {"CTRL_L", "CTRL_R"} # {}
    /\ bits \cap {"ALT_L", "ALT_R"} # {}

\* What is left to mend after an event of k was heard.
Mends(bits) == missed' = IF isBlockedByUipi THEN {} ELSE missed \ bits

\* The bits that are wrong after it: those the resynchronisation misread, or those of
\* before but k's own.
StaleAfter(k) ==
    IF isBlockedByUipi THEN Differ(initialize_modifiers({}), Truth') ELSE stale \ Bit(k)

Unheard(k, bits) ==
    /\ ~Heard
    /\ dispatched' = <<>>
    /\ missed' = missed \cup bits
    /\ stale' = stale \cup bits
    /\ UNCHANGED <<isBlockedByUipi, currentModifiers>>

\* The press of a lock sets its bit, whatever it toggles: CapsLock is tested for, and the
\* "reserved" range from VK_KANJI to VK_DBE_KATAKANA has NumLock and ScrollLock in it.
process_key_pressed(k) ==
    LET m == get_modifiers(currentModifiers \cup Bit(k) \cup Lock(k)) IN
    /\ dispatched' = <<[type |-> "KEY_PRESSED", mask |-> m]>>
    /\ isBlockedByUipi' = FALSE
    /\ IF CtrlAltDelete(k, m)
       THEN currentModifiers' = {} /\ stale' = StaleAfter(k) \cup Truth'
       ELSE currentModifiers' = m /\ stale' = StaleAfter(k) \cup Lock(k)
    /\ Mends(Bit(k))

\* A key that is held repeats, which does not toggle a lock again.
KeyDown(k) ==
    /\ heldKeys' = heldKeys \cup {k}
    /\ toggled' = IF k \in heldKeys THEN toggled ELSE Differ(toggled, Lock(k))
    /\ \/ Heard /\ process_key_pressed(k)
       \/ k \notin heldKeys /\ Unheard(k, Bit(k) \cup Lock(k))
    /\ UNCHANGED systemVars

LockReleased(k, bits) == (bits \ Lock(k)) \cup (toggled \cap Lock(k))

\* The release of a lock still shows what its press has made of the bit.
process_key_released(k) ==
    LET m == get_modifiers(currentModifiers \ Bit(k)) IN
    /\ dispatched' = <<[type |-> "KEY_RELEASED", mask |-> m]>>
    /\ currentModifiers' = LockReleased(k, m)
    /\ isBlockedByUipi' = FALSE
    /\ Mends(Bit(k) \cup Lock(k))
    /\ stale' = StaleAfter(k) \ Lock(k)

KeyUp(k) ==
    /\ k \in heldKeys
    /\ heldKeys' = heldKeys \ {k} /\ toggled' = toggled
    /\ \/ Heard /\ process_key_released(k)
       \/ Unheard(k, Bit(k))
    /\ UNCHANGED systemVars

-----------------------------------------------------------------------------
(* Windows, and the life of the hook.                                      *)

\* Another window comes to the front; the event is queued to the hook thread.
ForegroundChanges ==
    /\ foreground' \in Windows \ {foreground}
    /\ IF hook = "on" /\ winEventsHooked
       THEN /\ Len(winEvents) < MaxWinEvents
            /\ winEvents' = Append(winEvents, foreground')
       ELSE UNCHANGED winEvents
    /\ dispatched' = <<>>
    /\ UNCHANGED <<heldKeys, toggled, hook, winEventsHooked, foregroundWindow, maskVars>>

\* Defective variant: tests the window that is in front by now.
check_and_update_front(window) == isBlockedByUipi' = (isBlockedByUipi \/ foreground = "elevated")

check_and_update_uipi_state(window) == isBlockedByUipi' = (isBlockedByUipi \/ window = "elevated")

win_hook_event_proc ==
    /\ hook = "on"
    /\ winEvents # <<>>
    /\ winEvents' = Tail(winEvents)
    /\ foregroundWindow' = Head(winEvents)
    /\ check_and_update_uipi_state(Head(winEvents))
    /\ dispatched' = <<>>
    /\ UNCHANGED <<heldKeys, toggled, foreground, hook, winEventsHooked, currentModifiers,
                   missed, stale>>

\* Every 83 ms.
foreground_timer_proc ==
    /\ hook = "on"
    /\ foregroundWindow # foreground
    /\ foregroundWindow' = foreground
    /\ check_and_update_uipi_state(foreground)
    /\ dispatched' = <<>>
    /\ UNCHANGED <<heldKeys, toggled, foreground, hook, winEventsHooked, winEvents, currentModifiers,
                   missed, stale>>

\* hook_run() up to its message loop: is_blocked_by_uipi stands in for a first
\* initialize_modifiers().
Run ==
    /\ hook = "off"
    /\ hook' = "on"
    /\ winEventsHooked' \in {TRUE, ~WinEventsMayFail}
    /\ winEvents' = <<>>
    /\ foregroundWindow' = foreground
    /\ isBlockedByUipi' = TRUE
    /\ dispatched' = <<[type |-> "HOOK_ENABLED", mask |-> {}]>>
    /\ UNCHANGED <<heldKeys, toggled, foreground, currentModifiers, missed, stale>>

\* WM_QUIT: unregister_running_hooks() and hook_stop_proc().
Quit ==
    /\ hook = "on"
    /\ hook' = "off"
    /\ winEvents' = <<>>
    /\ dispatched' = <<[type |-> "HOOK_DISABLED", mask |-> {}]>>
    /\ UNCHANGED <<heldKeys, toggled, foreground, winEventsHooked, foregroundWindow, maskVars>>

-----------------------------------------------------------------------------
WindowsInit ==
    /\ heldKeys \in SUBSET Keys /\ toggled \in SUBSET (Keys \cap LockKeys)
    /\ foreground \in Windows
    /\ hook = "off"
    /\ winEventsHooked = FALSE
    /\ winEvents = <<>>
    /\ foregroundWindow = "none"
    /\ isBlockedByUipi = TRUE
    /\ currentModifiers = {}
    /\ dispatched = <<>>
    /\ missed = Truth
    /\ stale = missed

WindowsNext ==
    \/ \E k \in Keys : KeyDown(k) \/ KeyUp(k)
    \/ ForegroundChanges \/ win_hook_event_proc \/ foreground_timer_proc
    \/ Run \/ Quit

WindowsSpec == WindowsInit /\ [][WindowsNext]_vars

-----------------------------------------------------------------------------
(* Properties.                                                             *)

\* Every variable has its type.
WindowsTypeOK ==
    /\ heldKeys \subseteq Keys /\ toggled \subseteq LockKeys
    /\ foreground \in Windows /\ foregroundWindow \in Windows \cup {"none"}
    /\ hook \in {"off", "on"}
    /\ {winEventsHooked, isBlockedByUipi} \subseteq BOOLEAN
    /\ winEvents \in Seq(Windows) /\ Len(winEvents) <= MaxWinEvents
    /\ currentModifiers \subseteq ModifierKeys \cup LockKeys
    /\ missed \subseteq ModifierKeys \cup LockKeys /\ stale \subseteq ModifierKeys \cup LockKeys

KeyKinds == {"KEY_PRESSED", "KEY_RELEASED"}

\* The bits of a key event are the keys that are down and the locks that are on,
\* but for bits that changed unheard, were misread by the last resynchronisation
\* (every lock that is on and not held, for one) or were cleared by Ctrl+Alt+Delete,
\* until their key changes again; and but for a lock between its press and its
\* release, the event of the release included
\* (windows/input_hook.c:94, 120, 235, 265, 310).
MaskShowsInput ==
    [][\A i \in DOMAIN dispatched' :
         dispatched'[i].type \in KeyKinds =>
            Differ(dispatched'[i].mask, Truth') \subseteq
                stale' \cup (LockKeys \cap (heldKeys \ heldKeys'))]_vars

\* A change that the hook could not hear is mended at the next key event: by the
\* time the hook has been told of the windows that were in front, or has just
\* been started, a resynchronisation is due.
ResyncIsDue ==
    Heard /\ winEventsHooked /\ winEvents = <<>> /\ missed # {} => isBlockedByUipi

=============================================================================
