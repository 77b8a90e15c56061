----------------------------- MODULE MCHelpers -----------------------------
(***************************************************************************)
(* HookResources, KeysymSearch and WindowsHelper for TLC.  They share no   *)
(* state and no step: `part` picks the one that a behaviour is about, and  *)
(* the variables of the other two keep one value.                          *)
(***************************************************************************)
EXTENDS HookResources, KeysymSearch, WindowsHelper

VARIABLE part
partVars == <<part, resourceVars, searchVars, helperVars>>

OneTable == table = [i \in {0} |-> [keysym |-> Direct-1, unicode |-> 1]]

OneLayout == own = CHOOSE k \in Layouts : TRUE

PartInit ==
    /\ part \in {"resources", "keysyms", "locales"}
    /\ ResourcesInit /\ (part = "resources" \/ (platform = "x11" /\ held = {}))
    /\ IF part = "keysyms"
       THEN SearchInit
       ELSE /\ OneTable /\ fn = "keysym_to_unicode" /\ input = 1
            /\ min = 0 /\ max = 0 /\ status = "idle" /\ value = 0
    /\ HelperInit /\ (part = "locales" \/ OneLayout)

ResourcesPart == part = "resources" /\ ResourcesNext /\ UNCHANGED <<part, searchVars, helperVars>>
KeysymsPart == part = "keysyms" /\ SearchNext /\ UNCHANGED <<part, resourceVars, helperVars>>
LocalesPart == part = "locales" /\ HelperNext /\ UNCHANGED <<part, resourceVars, searchVars>>

PartSpec ==
    /\ PartInit /\ [][ResourcesPart \/ KeysymsPart \/ LocalesPart]_partVars
    /\ WF_partVars(part = "keysyms" /\ SearchStep /\ UNCHANGED <<part, resourceVars, helperVars>>)
=============================================================================
