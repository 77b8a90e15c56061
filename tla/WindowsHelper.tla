--------------------------- MODULE WindowsHelper ---------------------------
(***************************************************************************)
(* The statics of windows/input_helper.c: the list of keyboard layouts and *)
(* the one in use, the pending dead key, and what is left of a notch of    *)
(* the wheel.  load_input_helper() and unload_input_helper() are called    *)
(* when the hook starts and ends.  keycode_to_unicode() and                *)
(* get_scroll_wheel_rotation() are called by procedures that are not in    *)
(* the repository; they are taken to be called on key presses and turns of *)
(* the wheel while the hook runs.  Which characters a layout holds is      *)
(* abstracted: a key is a dead key or not, and a character may or may not  *)
(* compose with the dead key before it.                                    *)
(***************************************************************************)
EXTENDS Integers

CONSTANTS
    Layouts,       \* keyboard layouts (HKL)
    Broken,        \* those whose library or registry entry cannot be loaded
    NoLayout,      \* NULL, also for WCH_NONE
    WHEEL_DELTA,   \* one notch, 120
    Deltas,        \* bound: the rotations that Windows reports, in either direction
    MaxTurned      \* bound: how far the wheel is turned away from its start

ASSUME HelperAssumption ==
    /\ Broken \subseteq Layouts
    /\ NoLayout \notin Layouts
    /\ WHEEL_DELTA \in Nat \ {0} /\ MaxTurned \in Nat /\ Deltas \subseteq Nat

VARIABLES
    installed,        \* the user's layouts; GetKeyboardLayoutList() gives them in any order
    focus,            \* the layout of the window that has the focus, or NULL
    own,              \* the layout of the hook thread
    locale_list,      \* the ids from locale_first on; only which one is first matters
    locale_first,
    locale_current,
    deadChar,         \* the layout whose dead key is pending, or WCH_NONE
    v_rotation,
    hook,             \* "off", "on" or "crashed"
    typed,            \* history: "no" key since the focus changed; or the last one met a
                      \* layout that was "known", or it was "blind"
    carried,          \* history: a refresh or a new session came after the dead key
    turned, reported  \* history: the wheel's rotation since the load, and notches reported

localeVars == <<locale_list, locale_first, locale_current, deadChar, carried>>
wheelVars == <<v_rotation, turned, reported>>
helperVars == <<installed, focus, own, localeVars, wheelVars, hook, typed>>

HelperInit ==
    /\ \E k \in Layouts : installed = {k} /\ focus = k /\ own = k
    /\ locale_list = {} /\ locale_first = NoLayout /\ locale_current = NoLayout
    /\ deadChar = NoLayout
    /\ v_rotation = 0 /\ turned = 0 /\ reported = 0
    /\ hook = "off" /\ typed = "no" /\ carried = FALSE

-----------------------------------------------------------------------------
(* The user.                                                               *)

InstallLayout ==
    /\ \E k \in Layouts \ installed : installed' = installed \union {k}
    /\ UNCHANGED <<focus, own, localeVars, wheelVars, hook, typed>>

UninstallLayout ==
    /\ \E k \in installed \ {focus, own} : installed' = installed \ {k}
    /\ UNCHANGED <<focus, own, localeVars, wheelVars, hook, typed>>

\* GetKeyboardLayout() has no answer for some windows.
FocusChanges ==
    /\ focus' \in (installed \union {NoLayout}) \ {focus}
    /\ typed' = "no"
    /\ UNCHANGED <<installed, own, localeVars, wheelVars, hook>>

-----------------------------------------------------------------------------
(* The layouts.                                                            *)

Kept == locale_list \intersect installed

\* New layouts go to the end of the list, if they can be loaded.
Added == installed \ (locale_list \union Broken)

\* Defective variant: an item keeps its place in locale_current when it is freed.
AfterRefreshDangling(current, list) == IF focus \in list THEN focus ELSE locale_current

AfterRefresh(current, list) ==
    IF focus \in list THEN focus
    ELSE IF current \in list THEN current
    ELSE NoLayout

\* The first item of the list has no previous one: removing it writes through NULL.
FirstIsGone == locale_first # NoLayout /\ locale_first \notin installed

\* GetKeyboardLayoutList() may fail; the list and locale_current stay as they are then.
ListFails(current) == UNCHANGED <<locale_list, locale_first>> /\ locale_current' = current

ListComes(current) ==
    /\ locale_list' = Kept \union Added
    /\ locale_first' \in IF locale_first # NoLayout \/ Added = {} THEN {locale_first} ELSE Added
    /\ locale_current' = AfterRefresh(current, Kept \union Added)

refresh_locale_list(current) == ListComes(current) \/ ListFails(current)

\* A new thread has some layout of the user's.
load_input_helper ==
    /\ hook = "off" /\ hook' = "on"
    /\ own' \in installed
    /\ refresh_locale_list(locale_current)
    /\ v_rotation' = 0 /\ turned' = 0 /\ reported' = 0
    /\ carried' = (deadChar # NoLayout)
    /\ UNCHANGED <<installed, focus, deadChar, typed>>

unload_input_helper ==
    /\ hook = "on" /\ hook' = "off"
    /\ locale_list' = {} /\ locale_first' = NoLayout /\ locale_current' = NoLayout
    /\ typed' = "no"
    /\ UNCHANGED <<installed, focus, own, deadChar, carried, wheelVars>>

\* The layout a key is meant for: the hook thread's if the focus has none.
Wanted == IF focus = NoLayout THEN own ELSE focus

\* What the key does to the dead key that is pending.  On the way into the table
\* of compositions buffer[0] is the caller's if the key gave no character, so a
\* dead key may be taken for composed as soon as it is pressed; a second dead key
\* always ends the first.
Types(current, dead) ==
    CASE current = NoLayout -> deadChar' = dead
      [] dead = NoLayout -> deadChar' \in {NoLayout, current}
      [] OTHER -> deadChar' \in {NoLayout, dead}

\* Defective variant: the dead key survives a change between two layouts.
SwitchKeeps ==
    /\ locale_current # Wanted /\ Wanted \in locale_list
    /\ locale_current' = Wanted
    /\ Types(Wanted, deadChar)
    /\ typed' = "known"
    /\ UNCHANGED <<locale_list, locale_first, carried>>

\* The focus went to another layout of the list.
Switch ==
    /\ locale_current # Wanted /\ Wanted \in locale_list
    /\ locale_current' = Wanted
    /\ Types(Wanted, NoLayout)
    /\ typed' = "known" /\ carried' = FALSE
    /\ UNCHANGED <<locale_list, locale_first>>

Same ==
    /\ locale_current = Wanted
    /\ Types(Wanted, deadChar)
    /\ typed' = "known" /\ carried' = (carried /\ deadChar # NoLayout)
    /\ UNCHANGED <<locale_list, locale_first, locale_current>>

\* The focus went to a layout that is not in the list.  The refresh looks for the
\* layout of the focus, and not for the hook thread's.
Refresh ==
    /\ locale_current # Wanted /\ Wanted \notin locale_list
    /\ \/ ~FirstIsGone /\ ListComes(NoLayout) /\ typed' = IF focus = NoLayout THEN "blind" ELSE "known"
       \/ ListFails(NoLayout) /\ typed' = "blind"
    /\ Types(locale_current', deadChar)
    /\ carried' = (deadChar # NoLayout)

keycode_to_unicode ==
    /\ hook = "on"
    /\ Same \/ Switch \/ Refresh
    /\ UNCHANGED <<installed, focus, own, wheelVars, hook>>

RefreshCrashes ==
    /\ hook = "on" /\ hook' = "crashed"
    /\ locale_current # Wanted /\ Wanted \notin locale_list /\ FirstIsGone
    /\ UNCHANGED <<installed, focus, own, localeVars, wheelVars, typed>>

-----------------------------------------------------------------------------
(* The wheel.                                                              *)

\* Division in C rounds towards zero.
Quotient(a) == IF a >= 0 THEN a \div WHEEL_DELTA ELSE -((-a) \div WHEEL_DELTA)

\* Defective variant: a notch uses up whatever was left.
Remainder0(a) == IF Quotient(a) = 0 THEN a ELSE 0

Remainder(a) == a - WHEEL_DELTA * Quotient(a)

\* The vertical wheel; its direction is inverted for the event.
get_scroll_wheel_rotation ==
    /\ hook = "on"
    /\ \E d \in Deltas \union {-d : d \in Deltas} :
        /\ turned + d \in -MaxTurned .. MaxTurned
        /\ turned' = turned + d
        /\ v_rotation' = Remainder(v_rotation + d)
        /\ reported' = reported - Quotient(v_rotation + d)
    /\ UNCHANGED <<installed, focus, own, localeVars, hook, typed>>

HelperNext ==
    \/ InstallLayout \/ UninstallLayout \/ FocusChanges
    \/ load_input_helper \/ unload_input_helper
    \/ keycode_to_unicode \/ RefreshCrashes
    \/ get_scroll_wheel_rotation

HelperSpec == HelperInit /\ [][HelperNext]_helperVars

-----------------------------------------------------------------------------
HelperTypeOK ==
    /\ installed \subseteq Layouts /\ own \in installed
    /\ focus \in installed \union {NoLayout}
    /\ locale_list \subseteq Layouts \ Broken
    /\ locale_first \in locale_list \union {NoLayout}
    /\ locale_current \in locale_list \union {NoLayout}
    /\ deadChar \in Layouts \union {NoLayout}
    /\ v_rotation \in Int /\ turned \in Int /\ reported \in Int
    /\ hook \in {"off", "on", "crashed"}
    /\ typed \in {"no", "known", "blind"} /\ carried \in BOOLEAN

\* However layouts came, went and changed since the list was made, a key is looked up
\* in the layout of the window that has the focus, or of the hook thread if that has
\* none, or in no layout at all: in none only if the layout cannot be loaded, or if the
\* list had to be refreshed and either Windows would not give it or the focus had no
\* layout to look for in it (windows/input_helper.c:495, 546, 663, 677, 686).
KeysUseTheFocus ==
    hook = "on" =>
        /\ typed # "no" => locale_current \in {Wanted, NoLayout}
        /\ typed = "known" => locale_current = IF Wanted \in Broken THEN NoLayout ELSE Wanted

\* A dead key waits in the layout in use, where it was pressed ("if the layout changes
\* the dead key state needs to be reset", windows/input_helper.c:701).  A refresh of
\* the list and a new session may change the layout and do not reset it
\* (windows/input_helper.c:710, 899): from either the dead key is carried over until
\* it is used up or the next switch within the list resets it.
DeadKeyStaysHome ==
    hook = "on" /\ deadChar # NoLayout => deadChar = locale_current \/ carried

\* However the rotations are split up and whatever their direction, the notches
\* reported since the hook started are never a whole notch away from the wheel
\* (windows/input_helper.c:359).
WheelAddsUp ==
    turned + WHEEL_DELTA * reported \in -(WHEEL_DELTA - 1) .. WHEEL_DELTA - 1
=============================================================================
