---------------------------- MODULE EventChannel ----------------------------
(***************************************************************************)
(* What the add-on promises about the input events between the operating   *)
(* system and the 'input' listeners, with no thread, queue, copy or        *)
(* callback in sight: while the channel is open the events come through    *)
(* one by one in the order they were seen, none twice and none left out;   *)
(* closing it drops those that are still waiting.                          *)
(***************************************************************************)
EXTENDS Naturals, Sequences

CONSTANT Capacity   \* how many events may wait

VARIABLES
    open,      \* a start() has opened the channel, and nothing has closed it
    next,      \* the number of the next event the hook sees
    waiting,   \* the events seen and not yet heard of, oldest first
    heard      \* those the listeners have heard of, in order

vars == <<open, next, waiting, heard>>

Init == open = FALSE /\ next = 1 /\ waiting = <<>> /\ heard = <<>>

Open == open' = TRUE /\ UNCHANGED <<next, waiting, heard>>

See ==
    /\ open /\ Len(waiting) < Capacity
    /\ waiting' = Append(waiting, next)
    /\ next' = next + 1
    /\ UNCHANGED <<open, heard>>

Miss == ~open /\ next' = next + 1 /\ UNCHANGED <<open, waiting, heard>>

Hear ==
    /\ open /\ waiting # <<>>
    /\ heard' = Append(heard, Head(waiting))
    /\ waiting' = Tail(waiting)
    /\ UNCHANGED <<open, next>>

Close == open' = FALSE /\ waiting' = <<>> /\ UNCHANGED <<next, heard>>

Next == Open \/ See \/ Miss \/ Hear \/ Close

Spec == Init /\ [][Next]_vars
=============================================================================
