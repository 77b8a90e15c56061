---------------------------- MODULE KeysymSearch ----------------------------
(***************************************************************************)
(* keysym_to_unicode() and unicode_to_keysym() of x11/input_helper.c, one  *)
(* iteration of their binary search a step.  Both search the same table,   *)
(* keysym_unicode_table, which is sorted by keysym and not by character.   *)
(*                                                                         *)
(* Codes are small numbers in the order of the real ones: Latin-1, which   *)
(* stands for itself, below the codes of the table, below the keysyms that *)
(* hold a character of up to 24 bits.                                      *)
(***************************************************************************)
EXTENDS Integers

CONSTANTS
    Latin1,      \* the codes 1..Latin1 are Latin-1
    Direct,      \* 0x01000000: the keysym Direct + c is the character c
    CharRange,   \* 2^16: a character is reported in a uint16_t
    MaxRows,     \* bound: rows of the table, 758 in the source
    MaxKeysym    \* bound: the largest keysym asked for

ASSUME SearchAssumption ==
    /\ {Latin1, Direct, CharRange, MaxRows, MaxKeysym} \subseteq Nat \ {0}
    /\ Latin1 < CharRange /\ CharRange <= Direct

VARIABLES
    table,      \* keysym_unicode_table, rows from 0 on
    fn,         \* the function called, "keysym_to_unicode" or "unicode_to_keysym"
    input,      \* its argument
    min, max,   \* its local variables
    status,     \* "idle", "called", "searching", "found" or "absent"
    value       \* what it returns or writes to the buffer, when found

locals == <<min, max, status, value>>
searchVars == <<table, fn, input, locals>>

-----------------------------------------------------------------------------
Rows == [keysym : Latin1+1 .. Direct-1, unicode : 1 .. CharRange-1]

Sorted(t, n) == \A i, j \in 0..n-1 : i < j => t[i].keysym < t[j].keysym

\* Every table that might be in the source: sorted by keysym, one character
\* possibly in several rows and a few of the characters in Latin-1.
Tables == UNION {{t \in [0..n-1 -> Rows] : Sorted(t, n)} : n \in 1..MaxRows}

\* sizeof(keysym_unicode_table) / sizeof(struct codepair) - 1
LastRow == CHOOSE i \in DOMAIN table : i + 1 \notin DOMAIN table

Keysyms == 1..MaxKeysym
Characters == 1..CharRange-1

Sought(i) == IF fn = "keysym_to_unicode" THEN table[i].keysym ELSE table[i].unicode
Answer(i) == IF fn = "keysym_to_unicode" THEN table[i].unicode ELSE table[i].keysym

SearchInit ==
    /\ table \in Tables
    /\ fn = "keysym_to_unicode" /\ input = 1
    /\ min = 0 /\ max = 0
    /\ status = "idle" /\ value = 0

Call ==
    /\ status = "idle"
    /\ \/ fn' = "keysym_to_unicode" /\ input' \in Keysyms
       \/ fn' = "unicode_to_keysym" /\ input' \in Characters
    /\ status' = "called"
    /\ UNCHANGED <<table, min, max, value>>

Found(v) == status' = "found" /\ value' = v /\ UNCHANGED <<min, max>>

\* Latin-1, and keysyms that hold their character, of which uint16_t keeps the
\* lower half; anything else is searched for in the whole table.
Shortcut ==
    /\ status = "called"
    /\ CASE input <= Latin1 -> Found(input)
         [] fn = "keysym_to_unicode" /\ input >= Direct -> Found((input - Direct) % CharRange)
         [] OTHER -> /\ min' = 0 /\ max' = LastRow
                     /\ status' = "searching" /\ value' = value
    /\ UNCHANGED <<table, fn, input>>

Mid == (min + max) \div 2

\* Defective variant: the lower bound stays on the row just looked at.
GoUpTo(mid) == mid

GoUp(mid) == mid + 1

\* Defective variant: two rows down.
GoDownTwo(mid) == mid - 2

GoDown(mid) == mid - 1

Probe ==
    /\ status = "searching" /\ max >= min
    /\ \/ /\ Sought(Mid) < input
          /\ min' = GoUp(Mid) /\ UNCHANGED <<max, status, value>>
       \/ /\ Sought(Mid) > input
          /\ max' = GoDown(Mid) /\ UNCHANGED <<min, status, value>>
       \/ Sought(Mid) = input /\ Found(Answer(Mid))
    /\ UNCHANGED <<table, fn, input>>

\* keysym_to_unicode() reports no character, unicode_to_keysym() makes a keysym
\* that holds it.
NotFound ==
    /\ status = "searching" /\ max < min
    /\ IF fn = "keysym_to_unicode"
       THEN status' = "absent" /\ UNCHANGED <<min, max, value>>
       ELSE Found(input + Direct)
    /\ UNCHANGED <<table, fn, input>>

Return ==
    /\ status \in {"found", "absent"}
    /\ status' = "idle"
    /\ UNCHANGED <<table, fn, input, min, max, value>>

SearchStep == Shortcut \/ Probe \/ NotFound

SearchNext == Call \/ SearchStep \/ Return

SearchSpec == SearchInit /\ [][SearchNext]_searchVars /\ WF_searchVars(SearchStep)

-----------------------------------------------------------------------------
SearchTypeOK ==
    /\ table \in Tables
    /\ fn \in {"keysym_to_unicode", "unicode_to_keysym"}
    /\ input \in IF fn = "keysym_to_unicode" THEN Keysyms ELSE Characters
    /\ status \in {"idle", "called", "searching", "found", "absent"}
    /\ value \in Nat
    /\ min \in Int /\ max \in Int
    /\ status = "searching" => min \in 0 .. LastRow+1 /\ max \in -1 .. LastRow

\* k is a keysym of the character c.
StandsFor(k, c) ==
    \/ k <= Latin1 /\ c = k
    \/ k >= Direct /\ c = k - Direct
    \/ \E i \in DOMAIN table : table[i] = [keysym |-> k, unicode |-> c]

\* Both functions answer with a character and a keysym that belong together, and
\* keysym_to_unicode() has an answer for every keysym of the table; only a
\* character above 16 bits is cut (x11/input_helper.c:1450, 1497).  It holds for
\* unicode_to_keysym() although the table is not sorted by character, because a
\* character that is missed still has its direct keysym.
AnswersStandForInput ==
    /\ status = "found" =>
         CASE fn = "unicode_to_keysym" -> StandsFor(value, input)
           [] fn = "keysym_to_unicode" /\ input < Direct + CharRange -> StandsFor(input, value)
           [] OTHER -> value = (input - Direct) % CharRange
    /\ status = "absent" => \A c \in Characters : ~StandsFor(input, c)

\* A search ends, on every table and for every input (x11/input_helper.c:1529).
SearchEnds == (status = "called") ~> (status \in {"found", "absent"})
=============================================================================
