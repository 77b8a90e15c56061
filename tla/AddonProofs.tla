----------------------------- MODULE AddonProofs -----------------------------
(***************************************************************************)
(* Delivery is right for every size of the queue, every number of inputs   *)
(* and every environment: the proofs about Addon.  Owned speaks of the     *)
(* copies alone and needs nothing of the two threads; Attended, on top of  *)
(* HookWorkerProofs' Lifecycle, says when there can be copies at all.  The *)
(* last part takes what is proved of the worker alone over to the add-on.  *)
(***************************************************************************)
EXTENDS Addon, HookWorkerProofs, FiniteSetTheorems

-----------------------------------------------------------------------------
(* Sequences.                                                              *)

\* The elements of a sequence by their places.
LEMMA InToSet ==
  ASSUME NEW S, NEW s \in Seq(S)
  PROVE  /\ ToSet(s) = {s[i] : i \in 1..Len(s)}
         /\ ToSet(s) \subseteq S
         /\ Len(s) \in Nat
  BY DEF ToSet

\* The empty sequence has none.
LEMMA ToSetEmpty == ToSet(<<>>) = {}
  BY DEF ToSet

\* Appending adds one.
LEMMA ToSetAppend ==
  ASSUME NEW S, NEW s \in Seq(S), NEW e \in S
  PROVE  /\ ToSet(Append(s, e)) = ToSet(s) \union {e}
         /\ Append(s, e) \in Seq(S)
         /\ Len(Append(s, e)) = Len(s) + 1
         /\ Append(s, e)[Len(s) + 1] = e
         /\ \A i \in 1..Len(s) : Append(s, e)[i] = s[i]
<1>1. /\ Append(s, e) \in Seq(S)
      /\ Len(Append(s, e)) = Len(s) + 1 /\ Len(s) \in Nat
      /\ Append(s, e)[Len(s) + 1] = e
      /\ \A i \in 1..Len(s) : Append(s, e)[i] = s[i]
  OBVIOUS
<1>2. ToSet(Append(s, e)) = {Append(s, e)[i] : i \in 1 .. Len(s)+1}
  BY <1>1, InToSet
<1>3. ToSet(s) = {s[i] : i \in 1..Len(s)}
  BY InToSet
<1>4. \A i \in 1 .. Len(s)+1 : i \in 1..Len(s) \/ i = Len(s)+1
  BY <1>1
<1>5. ToSet(Append(s, e)) \subseteq ToSet(s) \union {e}
  BY <1>1, <1>2, <1>3, <1>4
<1>6. ToSet(s) \union {e} \subseteq ToSet(Append(s, e))
  <2>1. Len(s)+1 \in 1 .. Len(s)+1 /\ \A i \in 1..Len(s) : i \in 1 .. Len(s)+1
    BY <1>1
  <2> QED
    BY <1>1, <1>2, <1>3, <2>1
<1> QED
  BY <1>1, <1>5, <1>6

\* Taking the head leaves the others, one place further to the front.
LEMMA ToSetTail ==
  ASSUME NEW S, NEW s \in Seq(S), s # <<>>
  PROVE  /\ Head(s) = s[1] /\ 1 \in 1..Len(s)
         /\ Tail(s) \in Seq(S) /\ Len(Tail(s)) = Len(s) - 1
         /\ \A i \in 1..Len(Tail(s)) : i+1 \in 1..Len(s) /\ Tail(s)[i] = s[i+1]
         /\ ToSet(s) = {Head(s)} \union ToSet(Tail(s))
<1>1. /\ Head(s) = s[1] /\ 1 \in 1..Len(s)
      /\ Tail(s) \in Seq(S) /\ Len(Tail(s)) = Len(s) - 1 /\ Len(s) \in Nat
      /\ \A i \in 1..Len(Tail(s)) : i+1 \in 1..Len(s) /\ Tail(s)[i] = s[i+1]
  OBVIOUS
<1>2. \A i \in 1..Len(s) : i = 1 \/ (i-1 \in 1..Len(Tail(s)) /\ Tail(s)[i-1] = s[i])
  BY <1>1
<1>3. /\ ToSet(s) = {s[i] : i \in 1..Len(s)}
      /\ ToSet(Tail(s)) = {Tail(s)[i] : i \in 1..Len(Tail(s))}
  BY <1>1, InToSet
<1>4. ToSet(s) \subseteq {Head(s)} \union ToSet(Tail(s))
  BY <1>1, <1>2, <1>3, SMTT(30)
<1>5. {Head(s)} \union ToSet(Tail(s)) \subseteq ToSet(s)
  BY <1>1, <1>3
<1> QED
  BY <1>1, <1>4, <1>5

-----------------------------------------------------------------------------
(* The copies.                                                             *)

DeliveryTypes ==
    /\ nextInput \in 1..(MaxInputs + 1)
    /\ inflight \in 0..MaxInputs
    /\ queue \in Seq(Inputs) /\ Len(queue) <= QueueSize
    /\ draining \subseteq Inputs
    /\ current \in 0..MaxInputs
    /\ phase \in {"none", "input", "named"}
    /\ heap \subseteq Inputs
    /\ opened \in 1..(MaxInputs + 1)
    /\ emitted \in Seq(Inputs)

\* The copies that have left the live queue.
Behind == draining \union {current} \union ToSet(emitted)

\* What is behind is older than the queue, the queue older than the copy in flight,
\* and that older than the next input.
Aged ==
    /\ \A e \in heap \union ToSet(emitted) : e < nextInput
    /\ inflight # 0 => \A e \in ToSet(queue) \union Behind : e < inflight
    /\ \A i \in 1..Len(queue) :
         /\ \A j \in 1..Len(queue) : i < j => queue[i] < queue[j]
         /\ \A e \in Behind : e < queue[i]
    /\ EmittedInOrder

Kept ==
    /\ heap = Held(inflight) \union ToSet(queue) \union draining \union Held(current)
    /\ current \notin draining
    /\ phase = "none" <=> current = 0
    /\ current # 0 => current \in ToSet(emitted)

Owned == DeliveryTypes /\ Aged /\ Kept

\* Nothing is in flight, queued or emitted before the first start().
LEMMA OwnedInit == DeliveryInit => Owned
<1> SUFFICES ASSUME DeliveryInit PROVE Owned
  OBVIOUS
<1> QED
  BY DeliveryAssumption, ToSetEmpty
     DEF DeliveryInit, Owned, DeliveryTypes, Aged, Kept, Behind, Held, EmittedInOrder

\* Every step keeps the copies in order and owned.
LEMMA OwnedNext == Owned /\ [DeliveryNext]_allVars => Owned'
<1> SUFFICES ASSUME Owned, [DeliveryNext]_allVars PROVE Owned'
  OBVIOUS
<1>c. MaxInputs \in Nat /\ QueueSize \in Nat \ {0}
  BY DeliveryAssumption
<1>t. /\ nextInput \in Nat /\ inflight \in Nat /\ current \in Nat
      /\ queue \in Seq(Inputs) /\ emitted \in Seq(Inputs)
      /\ ToSet(queue) \subseteq Inputs /\ ToSet(emitted) \subseteq Inputs
      /\ Inputs \subseteq Nat /\ 0 \notin Inputs
      /\ Behind \subseteq Nat
  <2>1. Inputs \subseteq Nat /\ 0 \notin Inputs
    BY <1>c DEF Inputs
  <2>2. queue \in Seq(Inputs) /\ emitted \in Seq(Inputs)
    BY DEF Owned, DeliveryTypes
  <2>3. nextInput \in Nat /\ inflight \in Nat /\ current \in Nat /\ draining \subseteq Inputs
    BY <1>c DEF Owned, DeliveryTypes
  <2>4. ToSet(queue) \subseteq Inputs /\ ToSet(emitted) \subseteq Inputs
    BY <2>2, InToSet
  <2> QED
    BY <2>1, <2>2, <2>3, <2>4 DEF Behind
<1>q. Len(queue) \in Nat /\ ToSet(queue) = {queue[i] : i \in 1..Len(queue)}
  BY <1>t, InToSet
<1>0. CASE UNCHANGED deliveryVars
  BY <1>0 DEF deliveryVars, loopVars, Owned, DeliveryTypes, Aged, Kept, Behind, EmittedInOrder
<1>1. ASSUME NEW created \in BOOLEAN, NEW passed \in BOOLEAN, StartOpens(created, passed)
      PROVE  Owned'
  <2>1. /\ opened' = nextInput /\ nextInput' = nextInput /\ inflight' = inflight
        /\ UNCHANGED loopVars
    BY <1>1 DEF StartOpens
  <2> QED
    BY <2>1 DEF loopVars, Owned, DeliveryTypes, Aged, Kept, Behind, EmittedInOrder
<1>2. CASE Release \/ Exit
  <2>1. /\ queue' = <<>> /\ draining' = draining \union ToSet(queue)
        /\ nextInput' = nextInput /\ inflight' = inflight /\ current' = current /\ phase' = phase
        /\ heap' = heap /\ opened' = opened /\ emitted' = emitted
    BY <1>2 DEF Release, Exit
  <2>2. ToSet(queue') = {} /\ Len(queue') = 0 /\ queue' \in Seq(Inputs)
    BY <2>1, ToSetEmpty
  <2>3. DeliveryTypes'
    <3>1. Len(queue') <= QueueSize
      BY <1>c, <2>2
    <3>2. draining' \subseteq Inputs
      BY <1>t, <2>1 DEF Owned, DeliveryTypes
    <3> QED
      BY <2>1, <2>2, <3>1, <3>2 DEF Owned, DeliveryTypes
  <2>4. Behind' = Behind \union ToSet(queue)
    BY <2>1 DEF Behind
  <2>5. Aged'
    BY <2>1, <2>2, <2>4 DEF Owned, Aged, EmittedInOrder
  <2>6. current \notin ToSet(queue)
    <3>1. \A i \in 1..Len(queue) : current < queue[i]
      BY DEF Owned, Aged, Behind
    <3> QED
      BY <1>t, <1>q, <3>1
  <2>7. Kept'
    BY <2>1, <2>2, <2>6 DEF Owned, Kept
  <2> QED
    BY <2>3, <2>5, <2>7 DEF Owned
<1>3. CASE DispatchCopy
  <2>1. /\ inflight = 0 /\ nextInput <= MaxInputs /\ nextInput' = nextInput + 1
        /\ queue' = queue /\ draining' = draining /\ current' = current /\ phase' = phase
        /\ opened' = opened /\ emitted' = emitted
        /\ \/ inflight' = inflight /\ heap' = heap
           \/ inflight' = nextInput /\ heap' = heap \union {nextInput}
    BY <1>3 DEF DispatchCopy
  <2>2. nextInput \in Inputs /\ nextInput' \in 1..(MaxInputs+1)
    BY <1>c, <2>1 DEF Inputs, Owned, DeliveryTypes
  <2>3. DeliveryTypes'
    <3>1. inflight' \in 0..MaxInputs
      BY <1>c, <2>1, <2>2 DEF Owned, DeliveryTypes, Inputs
    <3>2. heap' \subseteq Inputs
      <4>1. heap' \subseteq heap \union {nextInput} /\ heap \subseteq Inputs
        BY <2>1 DEF Owned, DeliveryTypes
      <4> QED
        BY <2>2, <4>1
    <3> QED
      BY <2>1, <2>2, <3>1, <3>2 DEF Owned, DeliveryTypes
  <2>4. \A e \in ToSet(queue) \union Behind : e < nextInput
    BY <1>t, <2>2 DEF Owned, Aged, Kept, Behind, Held, Inputs
  <2>5. Behind' = Behind
    BY <2>1 DEF Behind
  <2>6. \A e \in heap' \union ToSet(emitted') : e < nextInput'
    <3>1. \A e \in heap' \union ToSet(emitted') : e \in heap \union ToSet(emitted) \/ e = nextInput
      BY <2>1
    <3>2. \A e \in heap \union ToSet(emitted) : e \in Nat /\ e < nextInput
      BY <1>t DEF Owned, DeliveryTypes, Aged
    <3> QED
      BY <1>t, <2>1, <3>1, <3>2
  <2>7. Aged'
    BY <2>1, <2>4, <2>5, <2>6 DEF Owned, Aged, EmittedInOrder
  <2>8. Kept'
    BY <2>1, <2>2, <1>t DEF Owned, Kept, Held
  <2> QED
    BY <2>3, <2>7, <2>8 DEF Owned
<1>4. CASE DispatchQueued
  <2>1. /\ inflight # 0 /\ Len(queue) < QueueSize /\ queue' = Append(queue, inflight) /\ inflight' = 0
        /\ nextInput' = nextInput /\ draining' = draining /\ current' = current /\ phase' = phase
        /\ heap' = heap /\ opened' = opened /\ emitted' = emitted
    BY <1>4 DEF DispatchQueued
  <2>2. inflight \in Inputs
    BY <1>c, <2>1 DEF Owned, DeliveryTypes, Inputs
  <2>3. /\ ToSet(queue') = ToSet(queue) \union {inflight}
        /\ queue' \in Seq(Inputs) /\ Len(queue') = Len(queue) + 1
        /\ queue'[Len(queue) + 1] = inflight
        /\ \A i \in 1..Len(queue) : queue'[i] = queue[i]
        /\ Len(queue) \in Nat
    BY <1>t, <2>1, <2>2, ToSetAppend
  <2>4. DeliveryTypes'
    BY <1>c, <2>1, <2>3 DEF Owned, DeliveryTypes
  <2>5. Behind' = Behind
    BY <2>1 DEF Behind
  <2>6. \A e \in ToSet(queue) \union Behind : e < inflight
    BY <2>1 DEF Owned, Aged
  <2>7. ASSUME NEW i \in 1..Len(queue')
        PROVE  /\ \A j \in 1..Len(queue') : i < j => queue'[i] < queue'[j]
               /\ \A e \in Behind : e < queue'[i]
    <3>1. CASE i = Len(queue) + 1
      BY <2>3, <2>6, <3>1
    <3>2. CASE i \in 1..Len(queue)
      <4>1. queue'[i] = queue[i] /\ queue[i] \in ToSet(queue)
        BY <1>t, <2>3, <3>2, InToSet
      <4>2. \A e \in Behind : e < queue'[i]
        BY <3>2, <4>1 DEF Owned, Aged
      <4>3. ASSUME NEW j \in 1..Len(queue'), i < j PROVE queue'[i] < queue'[j]
        <5>1. CASE j = Len(queue) + 1
          BY <2>3, <2>6, <4>1, <5>1
        <5>2. CASE j \in 1..Len(queue)
          BY <2>3, <3>2, <4>1, <4>3, <5>2 DEF Owned, Aged
        <5> QED
          BY <2>3, <5>1, <5>2
      <4> QED
        BY <4>2, <4>3
    <3> QED
      BY <2>3, <3>1, <3>2
  <2>8. Aged'
    BY <2>1, <2>5, <2>7 DEF Owned, Aged, EmittedInOrder
  <2>9. Kept'
    BY <2>1, <2>3 DEF Owned, Kept, Held
  <2> QED
    BY <2>4, <2>8, <2>9 DEF Owned
<1>5. CASE DispatchClosing
  <2>1. /\ inflight # 0 /\ heap' = heap \ {inflight} /\ inflight' = 0
        /\ nextInput' = nextInput /\ queue' = queue /\ draining' = draining /\ current' = current
        /\ phase' = phase /\ opened' = opened /\ emitted' = emitted
    BY <1>5 DEF DispatchClosing
  <2>2. DeliveryTypes'
    BY <1>c, <2>1 DEF Owned, DeliveryTypes
  <2>3. Behind' = Behind
    BY <2>1 DEF Behind
  <2>4. Aged'
    BY <2>1, <2>3 DEF Owned, Aged, EmittedInOrder
  <2>5. inflight \notin ToSet(queue) \union draining \union Held(current)
    <3>1. \A e \in ToSet(queue) \union Behind : e < inflight
      BY <2>1 DEF Owned, Aged
    <3>2. ~(inflight < inflight)
      BY <1>t
    <3> QED
      BY <3>1, <3>2 DEF Behind, Held
  <2>6. Kept'
    BY <2>1, <2>5 DEF Owned, Kept, Held
  <2> QED
    BY <2>2, <2>4, <2>6 DEF Owned
<1>6. CASE CallbackBegins
  <2>1. /\ phase = "none" /\ queue # <<>>
        /\ current' = Head(queue) /\ queue' = Tail(queue) /\ phase' = "input"
        /\ emitted' = Append(emitted, Head(queue))
        /\ nextInput' = nextInput /\ inflight' = inflight /\ draining' = draining /\ heap' = heap
        /\ opened' = opened
    BY <1>6 DEF CallbackBegins
  <2>2. /\ Head(queue) = queue[1] /\ 1 \in 1..Len(queue)
        /\ queue' \in Seq(Inputs) /\ Len(queue') = Len(queue) - 1
        /\ \A i \in 1..Len(queue') : i+1 \in 1..Len(queue) /\ queue'[i] = queue[i+1]
        /\ ToSet(queue) = {Head(queue)} \union ToSet(queue')
    BY <1>t, <2>1, ToSetTail
  <2>3. Head(queue) \in Inputs /\ Head(queue) \in ToSet(queue)
    BY <1>t, <2>2
  <2>4. /\ ToSet(emitted') = ToSet(emitted) \union {Head(queue)}
        /\ emitted' \in Seq(Inputs) /\ Len(emitted') = Len(emitted) + 1
        /\ emitted'[Len(emitted) + 1] = Head(queue)
        /\ \A i \in 1..Len(emitted) : emitted'[i] = emitted[i]
        /\ Len(emitted) \in Nat
    BY <1>t, <2>1, <2>3, ToSetAppend
  <2>5. DeliveryTypes'
    BY <1>c, <1>t, <2>1, <2>2, <2>3, <2>4 DEF Owned, DeliveryTypes, Inputs
  <2>6. current = 0 /\ Behind' \subseteq Behind \union {Head(queue)}
    BY <2>1, <2>4 DEF Owned, Kept, Behind
  <2>7. EmittedInOrder'
    <3>1. \A e \in ToSet(emitted) : e < Head(queue)
      BY <2>2 DEF Owned, Aged, Behind
    <3>2. \A i \in 1..Len(emitted) : emitted[i] < Head(queue)
      BY <1>t, <3>1, InToSet
    <3> QED
      BY <2>4, <3>2, SMTT(30) DEF Owned, Aged, EmittedInOrder
  <2>8. ASSUME NEW i \in 1..Len(queue')
        PROVE  /\ \A j \in 1..Len(queue') : i < j => queue'[i] < queue'[j]
               /\ \A e \in Behind' : e < queue'[i]
    <3>1. i+1 \in 1..Len(queue) /\ queue'[i] = queue[i+1]
      BY <2>2
    <3>2. \A e \in Behind : e < queue'[i]
      BY <3>1 DEF Owned, Aged
    <3>3. Head(queue) < queue'[i]
      BY <2>2, <3>1 DEF Owned, Aged
    <3>4. ASSUME NEW j \in 1..Len(queue'), i < j PROVE queue'[i] < queue'[j]
      <4>1. j+1 \in 1..Len(queue) /\ queue'[j] = queue[j+1] /\ i+1 < j+1
        BY <2>2, <3>4
      <4> QED
        BY <3>1, <4>1 DEF Owned, Aged
    <3> QED
      BY <2>6, <3>2, <3>3, <3>4
  <2>9. Aged'
    <3>1. \A e \in heap' \union ToSet(emitted') : e < nextInput'
      BY <2>1, <2>3, <2>4 DEF Owned, Aged, Kept
    <3>2. inflight' # 0 => \A e \in ToSet(queue') \union Behind' : e < inflight'
      BY <2>1, <2>2, <2>6 DEF Owned, Aged
    <3> QED
      BY <2>7, <2>8, <3>1, <3>2 DEF Aged
  <2>10. Kept'
    <3>1. Head(queue) \notin draining
      BY <1>t, <2>2, <2>3 DEF Owned, Aged, Behind
    <3>2. Head(queue) # 0
      BY <1>t, <2>3
    <3> QED
      BY <2>1, <2>2, <2>4, <2>6, <3>1, <3>2 DEF Owned, Kept, Held
  <2> QED
    BY <2>5, <2>9, <2>10 DEF Owned
<1>7. CASE EmitNamed
  <2>1. /\ phase = "input" /\ phase' = "named"
        /\ nextInput' = nextInput /\ inflight' = inflight /\ queue' = queue /\ draining' = draining
        /\ current' = current /\ heap' = heap /\ opened' = opened /\ emitted' = emitted
    BY <1>7 DEF EmitNamed
  <2> QED
    BY <2>1 DEF Owned, DeliveryTypes, Aged, Kept, Behind, EmittedInOrder
<1>8. CASE CallbackEnds
  <2>1. /\ phase # "none" /\ phase' = "none" /\ heap' = heap \ {current} /\ current' = 0
        /\ nextInput' = nextInput /\ inflight' = inflight /\ queue' = queue /\ draining' = draining
        /\ opened' = opened /\ emitted' = emitted
    BY <1>8 DEF CallbackEnds
  <2>2. DeliveryTypes'
    BY <1>c, <2>1 DEF Owned, DeliveryTypes
  <2>3. current # 0 /\ current \notin draining
    BY <2>1 DEF Owned, Kept
  <2>4. Aged'
    <3>1. \A e \in Inputs : 0 < e
      BY DEF Inputs
    <3>2. \A i \in 1..Len(queue) : 0 < queue[i]
      BY <1>t, <1>q, <3>1
    <3>3. inflight # 0 => 0 < inflight
      BY <1>t
    <3>4. Behind' \subseteq Behind \union {0}
      BY <2>1 DEF Behind
    <3> QED
      BY <2>1, <3>2, <3>3, <3>4 DEF Owned, Aged, EmittedInOrder
  <2>5. current \notin ToSet(queue) /\ current # inflight
    <3>1. \A i \in 1..Len(queue) : current < queue[i]
      BY DEF Owned, Aged, Behind
    <3>2. current \notin ToSet(queue)
      BY <1>t, <3>1, InToSet
    <3> QED
      BY <1>t, <2>3, <3>2 DEF Owned, Aged, Behind
  <2>6. Kept'
    BY <1>t, <2>1, <2>3, <2>5 DEF Owned, Kept, Held, DeliveryTypes
  <2> QED
    BY <2>2, <2>4, <2>6 DEF Owned
<1>9. CASE DrainOne
  <2>1. PICK e \in draining :
          /\ draining' = draining \ {e} /\ heap' = heap \ {e}
          /\ nextInput' = nextInput /\ inflight' = inflight /\ queue' = queue /\ current' = current
          /\ phase' = phase /\ opened' = opened /\ emitted' = emitted
    BY <1>9 DEF DrainOne
  <2>2. DeliveryTypes'
    BY <1>c, <2>1 DEF Owned, DeliveryTypes
  <2>3. Behind' \subseteq Behind
    BY <2>1 DEF Behind
  <2>4. Aged'
    BY <2>1, <2>3 DEF Owned, Aged, EmittedInOrder
  <2>5. e \in Nat /\ e # 0 /\ e \in Behind
    BY <1>t DEF Owned, DeliveryTypes, Behind
  <2>6. e \notin ToSet(queue) /\ e # inflight /\ e # current
    <3>1. \A i \in 1..Len(queue) : e < queue[i]
      BY <2>5 DEF Owned, Aged
    <3>2. e \notin ToSet(queue)
      BY <1>t, <2>5, <3>1, InToSet
    <3> QED
      BY <1>t, <2>5, <3>2 DEF Owned, Aged, Kept
  <2>7. Kept'
    BY <2>1, <2>6 DEF Owned, Kept, Held
  <2> QED
    BY <2>2, <2>4, <2>7 DEF Owned
<1>10. CASE UNCHANGED allVars
  BY <1>0, <1>10 DEF allVars
<1> QED
  BY <1>0, <1>1, <1>2, <1>3, <1>4, <1>5, <1>6, <1>7, <1>8, <1>9, <1>10
     DEF DeliveryNext, Dispatch, WorkerStep, LoopEndsBetweenInputs, DispatchQueueFull, ExitCompletes

\* An increasing queue has as many elements as places.
LEMMA NoneTwice ==
  ASSUME Owned
  PROVE  IsFiniteSet(ToSet(queue)) /\ Cardinality(ToSet(queue)) = Len(queue)
<1>1. /\ Len(queue) \in Nat /\ ToSet(queue) = {queue[i] : i \in 1..Len(queue)}
      /\ queue \in Seq(Inputs)
  BY InToSet DEF Owned, DeliveryTypes
<1>2. \A i, j \in 1..Len(queue) : queue[i] \in Nat /\ (i < j => queue[i] < queue[j])
  <2>1. \A i \in 1..Len(queue) : queue[i] \in ToSet(queue)
    BY <1>1
  <2>2. ToSet(queue) \subseteq Inputs
    BY <1>1, InToSet
  <2>3. Inputs \subseteq Nat
    BY DEF Inputs
  <2>4. \A i, j \in 1..Len(queue) : i < j => queue[i] < queue[j]
    BY DEF Owned, Aged
  <2> QED
    BY <2>1, <2>2, <2>3, <2>4
<1>3. \A i, j \in 1..Len(queue) : queue[i] = queue[j] => i = j
  BY <1>1, <1>2
<1> DEFINE f == [i \in 1..Len(queue) |-> queue[i]]
<1>4. f \in [1..Len(queue) -> ToSet(queue)]
  BY <1>1
<1>5. f \in Injection(1..Len(queue), ToSet(queue))
  BY <1>3, <1>4 DEF Injection, IsInjective
<1>6. f \in Surjection(1..Len(queue), ToSet(queue))
  BY <1>1, <1>4 DEF Surjection
<1>7. ExistsBijection(1..Len(queue), ToSet(queue))
  BY <1>5, <1>6 DEF ExistsBijection, Bijection
<1>8. IsFiniteSet(1..Len(queue)) /\ Cardinality(1..Len(queue)) = Len(queue)
  <2> DEFINE n == Len(queue)
  <2>1. n \in Nat /\ 1 \in Int /\ n \in Int
    BY <1>1
  <2> HIDE DEF n
  <2>2. IsFiniteSet(1..n) /\ Cardinality(1..n) = IF 1 > n THEN 0 ELSE n - 1 + 1
    BY <2>1, FS_Interval
  <2>3. Cardinality(1..n) = n
    BY <2>1, <2>2
  <2> QED
    BY <2>2, <2>3 DEF n
<1> QED
  BY <1>7, <1>8, FS_Bijection

\* Every copy has exactly one owner until it is freed, whatever the size of the queue,
\* the listeners and the two threads do (addon.c:14, 23, 169).
THEOREM OneOwner == DeliverySpec => []EveryCopyOwnedOnce
<1>1. Owned => EveryCopyOwnedOnce
  <2> SUFFICES ASSUME Owned PROVE EveryCopyOwnedOnce
    OBVIOUS
  <2>0. MaxInputs \in Nat
    BY DeliveryAssumption
  <2>1. heap = Held(inflight) \union ToSet(queue) \union draining \union Held(current)
    BY DEF Owned, Kept
  <2>2. /\ inflight \in Nat /\ current \in Nat
        /\ ToSet(queue) \subseteq Nat /\ draining \subseteq Nat
        /\ Len(queue) \in Nat /\ ToSet(queue) = {queue[i] : i \in 1..Len(queue)}
    <3>1. queue \in Seq(Inputs) /\ Inputs \subseteq Nat
      BY <2>0 DEF Owned, DeliveryTypes, Inputs
    <3>2. ToSet(queue) \subseteq Inputs
      BY <3>1, InToSet
    <3>3. Len(queue) \in Nat /\ ToSet(queue) = {queue[i] : i \in 1..Len(queue)}
      BY <3>1, InToSet
    <3>4. inflight \in Nat /\ current \in Nat /\ draining \subseteq Inputs
      BY <2>0 DEF Owned, DeliveryTypes
    <3> QED
      BY <3>1, <3>2, <3>3, <3>4
  <2>3. inflight # 0 => inflight \notin ToSet(queue) \union draining \union Held(current)
    <3>1. inflight # 0 => \A e \in ToSet(queue) \union Behind : e < inflight
      BY DEF Owned, Aged
    <3>2. ~(inflight < inflight)
      BY <2>2
    <3> QED
      BY <3>1, <3>2 DEF Behind, Held
  <2>4. \A e \in draining \union {current} : e \notin ToSet(queue)
    <3>1. \A e \in draining \union {current} : e \in Nat /\ \A i \in 1..Len(queue) : e < queue[i]
      BY <2>2 DEF Owned, Aged, Behind
    <3> QED
      BY <2>2, <3>1
  <2>5. current \notin draining
    BY DEF Owned, Kept
  <2>6. /\ IsFiniteSet(Held(inflight)) /\ IsFiniteSet(Held(current))
    BY FS_EmptySet, FS_Singleton DEF Held
  <2>7. IsFiniteSet(draining)
    <3>1. IsFiniteSet(Inputs)
      BY <2>0, FS_Interval DEF Inputs
    <3> QED
      BY <3>1, FS_Subset DEF Owned, DeliveryTypes
  <2>8. IsFiniteSet(ToSet(queue)) /\ Cardinality(ToSet(queue)) = Len(queue)
    BY NoneTwice
  <2> DEFINE A == Held(inflight)
             B == A \union ToSet(queue)
             C == B \union draining
  <2>9. IsFiniteSet(B) /\ Cardinality(B) = Cardinality(A) + Len(queue)
    <3>1. A \intersect ToSet(queue) = {}
      BY <2>3 DEF Held
    <3>2. IsFiniteSet(B) /\ Cardinality(B) = Cardinality(A) + Cardinality(ToSet(queue)) - 0
      BY <2>6, <2>8, <3>1, FS_Union, FS_EmptySet
    <3>3. Cardinality(A) \in Nat
      BY <2>6, FS_CardinalityType
    <3>4. Cardinality(B) = Cardinality(A) + Len(queue) - 0
      BY <2>8, <3>2
    <3> HIDE DEF A, B
    <3> QED
      BY <2>2, <3>2, <3>3, <3>4
  <2>10. IsFiniteSet(C) /\ Cardinality(C) = Cardinality(B) + Cardinality(draining)
    <3>1. B \intersect draining = {}
      BY <2>3, <2>4 DEF Held
    <3>2. IsFiniteSet(C) /\ Cardinality(C) = Cardinality(B) + Cardinality(draining) - 0
      BY <2>7, <2>9, <3>1, FS_Union, FS_EmptySet
    <3>3. Cardinality(B) \in Nat /\ Cardinality(draining) \in Nat
      BY <2>7, <2>9, FS_CardinalityType
    <3> QED
      BY <3>2, <3>3
  <2>11. Cardinality(heap) = Cardinality(C) + Cardinality(Held(current))
    <3>1. C \intersect Held(current) = {}
      BY <2>3, <2>4, <2>5 DEF Held
    <3>2. Cardinality(heap) = Cardinality(C) + Cardinality(Held(current)) - 0
      BY <2>1, <2>6, <2>10, <3>1, FS_Union, FS_EmptySet
    <3>3. Cardinality(C) \in Nat /\ Cardinality(Held(current)) \in Nat
      BY <2>6, <2>10, FS_CardinalityType
    <3> QED
      BY <3>2, <3>3
  <2> QED
    BY <2>1, <2>9, <2>10, <2>11 DEF EveryCopyOwnedOnce
<1> QED
  BY <1>1, OwnedInit, OwnedNext, PTL DEF DeliverySpec

\* 'input' listeners see events in the order the hook saw them and none twice, for
\* every size of the queue (addon.c:20, index.ts:206).
THEOREM EmissionInOrder == DeliverySpec => []EmittedInOrder
<1>1. Owned => EmittedInOrder
  BY DEF Owned, Aged
<1> QED
  BY <1>1, OwnedInit, OwnedNext, PTL DEF DeliverySpec

-----------------------------------------------------------------------------
(* Sessions.                                                               *)

\* The process has, or is about to have, no JavaScript any more.
Leaving == mainPc \in {"exiting", "dead"}

\* What the steps of the two threads leave alone, as far as delivery depends on it.
LEMMA WorkerKeeps ==
  ASSUME TypeOK, WorkerStep
  PROVE  /\ TypeOK'
         /\ threadsafeFn' = threadsafeFn
         /\ Leaving => Leaving'
         /\ Lifecycle => /\ hookPc = "loop" => hookPc' = "loop"
                         /\ Unstarted' \/ BeforeThread' => Unstarted \/ BeforeThread
<1>c. CreateThread =>
        /\ mainPc = "create" /\ mainPc' = "cond_wait" /\ hookPc' = "init" /\ quit' = FALSE
        /\ isWorkerRunning' = isWorkerRunning /\ threadsafeFn' = threadsafeFn /\ status' = status
        /\ reply' = reply /\ threadStatus' = threadStatus
        /\ running' = running /\ control' = control /\ waitSet' = waitSet
  BY DEF CreateThread, MainTo, syncVars
<1> USE DEF TypeOK, MainPcs, HookPcs, MutexStates, Replies, AfterUnlock, Leaving, Lifecycle,
            CallsMatchFlag, InStop, ThreadScope, Unstarted, BeforeThread, Reporting,
            vars, mainVars, hookVars, syncVars
<1>1. CASE ThrowingCall
  <2>1. CASE StartAlreadyRunning
    BY <2>1 DEF StartAlreadyRunning
  <2>2. CASE StartBadArgument
    BY <2>2 DEF StartBadArgument
  <2>3. CASE StopNotRunning
    BY <2>3 DEF StopNotRunning
  <2> QED
    BY <1>1, <2>1, <2>2, <2>3 DEF ThrowingCall
<1>2. CASE StopCall
  BY <1>2 DEF StopCall, MainTo
<1>3. CASE MainStep
  <2>1. CASE LockControl
    BY <2>1 DEF LockControl, MainTo
  <2>2. CASE CreateThread
    <3>1. Lifecycle => hookPc # "loop"
      BY <2>2 DEF CreateThread, MainTo
    <3>2. Lifecycle => (Unstarted' \/ BeforeThread' => Unstarted \/ BeforeThread)
      BY <2>2 DEF CreateThread, MainTo
    <3> HIDE DEF Lifecycle, CallsMatchFlag, InStop, ThreadScope, Unstarted, BeforeThread, Reporting
    <3>3. mainPc = "create" /\ threadsafeFn' = threadsafeFn
      BY <2>2, <1>c
    <3>4. TypeOK'
      BY <2>2, <1>c
    <3>5. ~Leaving
      BY <3>3
    <3> HIDE DEF TypeOK, Leaving
    <3> QED
      BY <3>1, <3>2, <3>3, <3>4, <3>5
  <2>3. CASE CreateThreadFails
    BY <2>3 DEF CreateThreadFails, MainTo
  <2>4. CASE CondWait
    BY <2>4 DEF CondWait, MainTo
  <2>5. CASE CondReturn
    BY <2>5 DEF CondReturn, MainTo
  <2>6. CASE TryLockSucceeds
    BY <2>6 DEF TryLockSucceeds, MainTo
  <2>7. CASE TryLockFails
    BY <2>7 DEF TryLockFails, MainTo
  <2>8. CASE JoinFailed
    BY <2>8 DEF JoinFailed, MainTo
  <2>9. CASE UnlockControl
    BY <2>9 DEF UnlockControl, MainTo
  <2>10. CASE StartSucceeds
    BY <2>10 DEF StartSucceeds, MainTo
  <2>11. CASE StartFailsAbort
    BY <2>11 DEF StartFailsAbort, MainTo
  <2>12. CASE HookStop
    BY <2>12 DEF HookStop, MainTo
  <2>13. CASE HookStopFails
    BY <2>13 DEF HookStopFails, MainTo
  <2>14. CASE JoinStopped
    BY <2>14 DEF JoinStopped, MainTo
  <2> QED
    BY <1>3, <2>1, <2>2, <2>3, <2>4, <2>5, <2>6, <2>7, <2>8, <2>9, <2>10, <2>11, <2>12, <2>13, <2>14
    DEF MainStep
<1>4. CASE HookStep
  <2>1. CASE RunFails
    BY <2>1 DEF RunFails, HookTo
  <2>2. CASE RunEnabled
    BY <2>2 DEF RunEnabled, HookTo
  <2>3. CASE EnabledLockRunning
    BY <2>3 DEF EnabledLockRunning, HookTo
  <2>4. CASE EnabledLockControl
    BY <2>4 DEF EnabledLockControl, HookTo
  <2>5. CASE EnabledSignal
    BY <2>5 DEF EnabledSignal, HookTo
  <2>6. CASE EnabledUnlockControl
    BY <2>6 DEF EnabledUnlockControl, HookTo
  <2>7. CASE DisabledLockControl
    BY <2>7 DEF DisabledLockControl, HookTo
  <2>8. CASE DisabledUnlockRunning
    BY <2>8 DEF DisabledUnlockRunning, HookTo
  <2>9. CASE RunReturns
    BY <2>9 DEF RunReturns, HookTo
  <2>10. CASE FinalSignal
    BY <2>10 DEF FinalSignal, HookTo
  <2>11. CASE FinalUnlock
    BY <2>11 DEF FinalUnlock, HookTo
  <2> QED
    BY <1>4, <2>1, <2>2, <2>3, <2>4, <2>5, <2>6, <2>7, <2>8, <2>9, <2>10, <2>11
    DEF HookStep
<1>5. CASE SpuriousWakeup
  BY <1>5 DEF SpuriousWakeup
<1>6. CASE ProcessGone
  BY <1>6 DEF ProcessGone
<1> QED
  BY <1>1, <1>2, <1>3, <1>4, <1>5, <1>6 DEF WorkerStep

\* While there is JavaScript, copies are made only by a hook thread in its loop, a
\* function without a hook thread has none queued, and none is of an earlier session.
Attended ==
    /\ TypeOK
    /\ opened <= nextInput
    /\ ~Leaving =>
         /\ Lifecycle
         /\ inflight # 0 => hookPc = "loop"
         /\ Unstarted \/ BeforeThread => queue = <<>>
         /\ \A e \in ToSet(queue) \union Held(inflight) : opened <= e

\* It holds before the first start() ...
LEMMA AttendedInit == DeliveryInit => Attended
<1> SUFFICES ASSUME DeliveryInit PROVE Attended
  OBVIOUS
<1>1. Lifecycle
  BY LifecycleInit DEF DeliveryInit
<1> QED
  BY <1>1, ToSetEmpty DEF DeliveryInit, Attended, Lifecycle, Held

\* ... and every step keeps it.
LEMMA AttendedNext == Owned /\ Attended /\ [DeliveryNext]_allVars => Attended'
<1> SUFFICES ASSUME Owned, Attended, [DeliveryNext]_allVars PROVE Attended'
  OBVIOUS
<1>t. /\ nextInput \in Nat /\ opened \in Nat /\ inflight \in Nat
      /\ queue \in Seq(Inputs) /\ ToSet(queue) \subseteq Nat
  <2>1. Inputs \subseteq Nat /\ MaxInputs \in Nat
    BY DeliveryAssumption DEF Inputs
  <2>2. queue \in Seq(Inputs)
    BY DEF Owned, DeliveryTypes
  <2>3. ToSet(queue) \subseteq Inputs
    BY <2>2, InToSet
  <2>4. nextInput \in Nat /\ opened \in Nat /\ inflight \in Nat
    BY <2>1 DEF Owned, DeliveryTypes
  <2> QED
    BY <2>1, <2>2, <2>3, <2>4
<1>s. UNCHANGED deliveryVars => /\ opened' = opened /\ nextInput' = nextInput
                                /\ inflight' = inflight /\ queue' = queue
  BY DEF deliveryVars, loopVars
<1>u. UNCHANGED vars => (Lifecycle => Lifecycle') /\ (TypeOK => TypeOK') /\ (Leaving' <=> Leaving)
                        /\ hookPc' = hookPc
                        /\ (Unstarted' <=> Unstarted) /\ (BeforeThread' <=> BeforeThread)
  <2>1. UNCHANGED vars => (Lifecycle => Lifecycle')
    BY LifecycleNext
  <2> QED
    BY <2>1 DEF vars, mainVars, hookVars, syncVars, TypeOK, Leaving, Unstarted, BeforeThread
<1>1. CASE WorkerStep
  <2>1. /\ TypeOK'
        /\ Leaving => Leaving'
        /\ Lifecycle => /\ hookPc = "loop" => hookPc' = "loop"
                        /\ Unstarted' \/ BeforeThread' => Unstarted \/ BeforeThread
    BY <1>1, WorkerKeeps DEF Attended
  <2>2. Lifecycle => Lifecycle'
    BY <1>1, LifecycleNext DEF WorkerStep, Next
  <2>3. UNCHANGED deliveryVars
    BY <1>1 DEF WorkerStep
  <2> QED
    BY <1>s, <2>1, <2>2, <2>3 DEF Attended, Held
<1>2. ASSUME NEW created \in BOOLEAN, NEW passed \in BOOLEAN, StartOpens(created, passed)
      PROVE  Attended'
  <2>1. /\ opened' = nextInput /\ nextInput' = nextInput /\ inflight' = inflight /\ queue' = queue
        /\ mainPc = "idle" /\ ~isWorkerRunning
    BY <1>2 DEF StartOpens, StartCreate, loopVars
  <2>2. Lifecycle /\ Unstarted
    BY <2>1 DEF Attended, Leaving, Unstarted
  <2>3. Lifecycle'
    BY <1>2, <2>2, LifecycleNext DEF StartOpens, Next
  <2>4. queue = <<>> /\ inflight = 0
    BY <2>1, <2>2 DEF Attended, Leaving, Lifecycle, ThreadScope
  <2> QED
    BY <1>t, <2>1, <2>3, <2>4, ToSetEmpty DEF Attended, Lifecycle, Held
<1>3. CASE LoopEndsBetweenInputs
  <2>1. inflight = 0 /\ LoopEnds /\ UNCHANGED deliveryVars
    BY <1>3 DEF LoopEndsBetweenInputs
  <2>2. Lifecycle => Lifecycle'
    BY <2>1, LifecycleNext DEF Next
  <2>3. /\ mainPc' = mainPc /\ isWorkerRunning' = isWorkerRunning
        /\ TypeOK'
    BY <2>1 DEF LoopEnds, HookTo, Attended, TypeOK, HookPcs, mainVars, syncVars
  <2> QED
    BY <1>s, <2>1, <2>2, <2>3 DEF Attended, Leaving, Unstarted, BeforeThread, Held
<1>4. CASE Release
  <2>1. /\ ReleaseStep /\ queue' = <<>>
        /\ opened' = opened /\ nextInput' = nextInput /\ inflight' = inflight
    BY <1>4 DEF Release
  <2>2. ~Leaving /\ hookPc' = hookPc
    BY <2>1 DEF ReleaseStep, StartFails, StopReturns, MainTo, Leaving, hookVars
  <2>3. Lifecycle'
    BY <2>1, <2>2, LifecycleNext DEF Attended, Next
  <2> QED
    BY <2>1, <2>2, <2>3, ToSetEmpty DEF Attended, Lifecycle
<1>5. CASE DispatchCopy
  <2>1. /\ hookPc = "loop" /\ UNCHANGED vars /\ inflight = 0
        /\ opened' = opened /\ nextInput' = nextInput + 1 /\ queue' = queue
        /\ inflight' \in {0, nextInput}
    BY <1>5 DEF DispatchCopy
  <2> QED
    BY <1>t, <1>u, <2>1 DEF Attended, Held
<1>6. CASE DispatchQueued
  <2>1. /\ inflight # 0 /\ UNCHANGED vars /\ mainPc \notin {"exiting", "dead"}
        /\ opened' = opened /\ nextInput' = nextInput
        /\ queue' = Append(queue, inflight) /\ inflight' = 0
    BY <1>6 DEF DispatchQueued
  <2>2. inflight \in Inputs
    BY <2>1, DeliveryAssumption DEF Owned, DeliveryTypes, Inputs
  <2>3. ToSet(queue') = ToSet(queue) \union {inflight}
    BY <1>t, <2>1, <2>2, ToSetAppend
  <2>4. Lifecycle /\ hookPc = "loop" /\ \A e \in ToSet(queue) \union {inflight} : opened <= e
    BY <2>1 DEF Attended, Leaving, Held
  <2>5. ~Unstarted /\ ~BeforeThread
    BY <2>4 DEF Lifecycle, ThreadScope
  <2> QED
    BY <1>u, <2>1, <2>3, <2>4, <2>5 DEF Attended, Held
<1>7. CASE DispatchClosing
  <2>1. TypeOK' /\ Leaving'
    BY <1>7 DEF DispatchClosing, Attended, TypeOK, Leaving, hookVars, syncVars
  <2> QED
    BY <1>7, <2>1 DEF DispatchClosing, Attended
<1>8. CASE DispatchQueueFull \/ Exit \/ ExitCompletes
  <2>1. /\ mainPc' \in {"exiting", "dead"}
        /\ UNCHANGED <<isWorkerRunning, threadsafeFn, status, reply, hookVars, syncVars>>
        /\ opened' = opened /\ nextInput' = nextInput
    BY <1>8 DEF DispatchQueueFull, Exit, ExitCompletes, MainTo, deliveryVars
  <2>2. TypeOK' /\ Leaving'
    BY <2>1 DEF Attended, TypeOK, MainPcs, Leaving, hookVars, syncVars
  <2> QED
    BY <2>1, <2>2 DEF Attended
<1>9. CASE CallbackBegins
  <2>1. /\ UNCHANGED vars /\ queue # <<>> /\ queue' = Tail(queue)
        /\ opened' = opened /\ nextInput' = nextInput /\ inflight' = inflight
        /\ mainPc = "idle"
    BY <1>9 DEF CallbackBegins
  <2>2. ToSet(queue') \subseteq ToSet(queue)
    BY <1>t, <2>1, ToSetTail
  <2> QED
    BY <1>u, <2>1, <2>2 DEF Attended, Leaving, Held
<1>10. CASE EmitNamed \/ CallbackEnds \/ DrainOne
  <2>1. /\ UNCHANGED vars
        /\ queue' = queue /\ opened' = opened /\ nextInput' = nextInput /\ inflight' = inflight
    BY <1>10 DEF EmitNamed, CallbackEnds, DrainOne
  <2> QED
    BY <1>u, <2>1 DEF Attended, Held
<1>11. CASE UNCHANGED allVars
  BY <1>11, <1>s, <1>u DEF allVars, Attended, Held
<1> QED
  BY <1>1, <1>2, <1>3, <1>4, <1>5, <1>6, <1>7, <1>8, <1>9, <1>10, <1>11 DEF DeliveryNext, Dispatch

\* An input that is being handled is the last one emitted; its session goes on, or has ended
\* inside its handler.
Handled ==
    /\ interrupted \in 0..MaxInputs
    /\ phase # "none" =>
         /\ current = Last(emitted)
         /\ (isWorkerRunning /\ current >= opened) \/ interrupted = current

\* Only stop() ends a session.
LEMMA WorkerStepKeepsRunning == WorkerStep \/ LoopEnds => (isWorkerRunning => isWorkerRunning')
<1> SUFFICES ASSUME WorkerStep \/ LoopEnds, isWorkerRunning PROVE isWorkerRunning'
  OBVIOUS
<1>1. CASE ThrowingCall \/ StopCall \/ SpuriousWakeup \/ ProcessGone \/ LoopEnds
  BY <1>1 DEF ThrowingCall, StartAlreadyRunning, StartBadArgument, StopNotRunning, StopCall,
              SpuriousWakeup, ProcessGone, LoopEnds, vars, mainVars
<1>2. CASE MainStep
  BY <1>2 DEF MainStep, LockControl, CreateThread, CreateThreadFails, CondWait, CondReturn,
              TryLockSucceeds, TryLockFails, JoinFailed, UnlockControl, StartSucceeds,
              StartFailsAbort, HookStop, HookStopFails, JoinStopped
<1>3. CASE HookStep
  BY <1>3 DEF HookStep, RunFails, RunEnabled, EnabledLockRunning, EnabledLockControl,
              EnabledSignal, EnabledUnlockControl, DisabledLockControl, DisabledUnlockRunning,
              RunReturns, FinalSignal, FinalUnlock, mainVars
<1> QED
  BY <1>1, <1>2, <1>3 DEF WorkerStep

\* Every step keeps it: what a callback begins with is of the session that runs, and a session
\* that ends or is replaced is marked.
LEMMA HandledNext == Owned /\ Attended /\ Handled /\ [DeliveryNext]_allVars => Handled'
<1> SUFFICES ASSUME Owned, Attended, Handled, [DeliveryNext]_allVars PROVE Handled'
  OBVIOUS
<1>1. CASE WorkerStep \/ LoopEndsBetweenInputs
  <2>1. /\ opened' = opened /\ phase' = phase /\ current' = current /\ emitted' = emitted
        /\ interrupted' = interrupted
    BY <1>1 DEF WorkerStep, LoopEndsBetweenInputs, deliveryVars, loopVars
  <2>2. isWorkerRunning => isWorkerRunning'
    BY <1>1, WorkerStepKeepsRunning DEF LoopEndsBetweenInputs
  <2> QED
    BY <2>1, <2>2 DEF Handled
<1>2. ASSUME NEW created \in BOOLEAN, NEW passed \in BOOLEAN, StartOpens(created, passed)
      PROVE  Handled'
  BY <1>2 DEF StartOpens, StartCreate, loopVars, Handled
<1>3. CASE Release
  <2>1. current \in 0..MaxInputs
    BY DEF Owned, DeliveryTypes
  <2> QED
    BY <1>3, <2>1 DEF Release, Handled
<1>4. CASE DispatchCopy \/ DispatchQueued \/ DispatchClosing \/ DispatchQueueFull \/ DrainOne
  BY <1>4 DEF DispatchCopy, DispatchQueued, DispatchClosing, DispatchQueueFull, DrainOne,
              vars, mainVars, deliveryVars, loopVars, Handled
<1>5. CASE Exit \/ ExitCompletes \/ UNCHANGED allVars
  BY <1>5 DEF Exit, ExitCompletes, allVars, vars, mainVars, deliveryVars, loopVars, Handled
<1>6. CASE CallbackBegins
  <2>1. /\ mainPc = "idle" /\ queue # <<>> /\ emitted' = Append(emitted, Head(queue))
        /\ current' = Head(queue) /\ opened' = opened /\ interrupted' = interrupted
        /\ isWorkerRunning' = isWorkerRunning
    BY <1>6 DEF CallbackBegins, vars, mainVars
  <2>2. queue \in Seq(Inputs) /\ emitted \in Seq(Inputs) /\ opened \in Nat /\ Inputs \subseteq Nat
    BY DeliveryAssumption DEF Owned, DeliveryTypes, Inputs
  <2>3. Head(queue) \in ToSet(queue) /\ Head(queue) \in Inputs
    BY <2>1, <2>2, ToSetTail, InToSet
  <2>4. Last(emitted') = Head(queue)
    BY <2>1, <2>2, <2>3, ToSetAppend DEF Last
  <2>5. ~Unstarted /\ opened <= Head(queue)
    BY <2>1, <2>3 DEF Attended, Leaving
  <2> QED
    BY <2>1, <2>2, <2>3, <2>4, <2>5 DEF Handled, Unstarted
<1>7. CASE EmitNamed
  BY <1>7 DEF EmitNamed, vars, mainVars, Handled
<1>8. CASE CallbackEnds
  BY <1>8, DeliveryAssumption DEF CallbackEnds, Handled
<1> QED
  BY <1>1, <1>2, <1>3, <1>4, <1>5, <1>6, <1>7, <1>8 DEF DeliveryNext, Dispatch

\* It holds before the first start() too.
LEMMA HandledInit == DeliveryInit => Handled
  BY DeliveryAssumption DEF DeliveryInit, Handled

\* Every variable of the add-on keeps its type, and the queue its bound.
THEOREM DeliveryTypeCorrect == DeliverySpec => []DeliveryTypeOK
<1>1. Owned /\ Attended /\ Handled => DeliveryTypeOK
  BY DEF Owned, DeliveryTypes, Attended, Handled, DeliveryTypeOK
<1> QED
  BY <1>1, OwnedInit, OwnedNext, AttendedInit, AttendedNext, HandledInit, HandledNext, PTL
     DEF DeliverySpec

\* What OnlyTheCurrentSession says of a step.
OfTheSession ==
    /\ emitted' # emitted => isWorkerRunning /\ Last(emitted') >= opened
    /\ phase' = "named" /\ phase # "named" =>
         /\ current = Last(emitted)
         /\ (isWorkerRunning /\ current >= opened) \/ interrupted = current

\* Under either name, listeners hear of inputs of the session that runs only - but once more,
\* under its own name, of the input whose 'input' listeners have ended its session
\* (index.ts:206-228, addon.c:248-251).
THEOREM NoStrayEvents == DeliverySpec => OnlyTheCurrentSession
<1>1. Owned /\ Attended /\ Handled /\ [DeliveryNext]_allVars => [OfTheSession]_allVars
  <2> SUFFICES ASSUME Owned, Attended, Handled, [DeliveryNext]_allVars PROVE OfTheSession
    OBVIOUS
  <2>1. CASE CallbackBegins
    <3>1. /\ phase' = "input" /\ isWorkerRunning' = isWorkerRunning /\ opened' = opened
          /\ current' = Head(queue) /\ mainPc = "idle" /\ queue # <<>>
      BY <2>1 DEF CallbackBegins, vars, mainVars
    <3>2. ~Unstarted /\ \A e \in ToSet(queue) : opened <= e
      BY <3>1 DEF Attended, Leaving
    <3>3. queue \in Seq(Inputs) /\ opened \in Nat /\ Inputs \subseteq Nat
      BY DeliveryAssumption DEF Owned, DeliveryTypes, Inputs
    <3>4. Head(queue) \in ToSet(queue) /\ Head(queue) \in Nat
      BY <3>1, <3>3, ToSetTail, InToSet
    <3>5. Handled'
      BY HandledNext
    <3>6. Last(emitted') = Head(queue)
      BY <3>1, <3>5 DEF Handled
    <3> QED
      BY <3>1, <3>2, <3>3, <3>4, <3>6 DEF OfTheSession, Unstarted
  <2>2. CASE EmitNamed
    BY <2>2 DEF EmitNamed, Handled, OfTheSession
  <2>3. CASE CallbackEnds
    BY <2>3 DEF CallbackEnds, OfTheSession
  <2>4. CASE ~CallbackBegins /\ ~EmitNamed /\ ~CallbackEnds
    <3>1. emitted' = emitted /\ phase' = phase
      BY <2>4 DEF DeliveryNext, Dispatch, WorkerStep, StartOpens, LoopEndsBetweenInputs, Release,
             DispatchCopy, DispatchQueued, DispatchClosing, DispatchQueueFull, DrainOne,
             Exit, ExitCompletes, allVars, deliveryVars, loopVars
    <3> QED
      BY <3>1 DEF OfTheSession
  <2> QED
    BY <2>1, <2>2, <2>3, <2>4
<1>2. DeliverySpec => [][OfTheSession]_allVars
  BY <1>1, OwnedInit, OwnedNext, AttendedInit, AttendedNext, HandledInit, HandledNext, PTL
     DEF DeliverySpec
<1> QED
  BY <1>2 DEF OnlyTheCurrentSession, OfTheSession

\* As long as the function of the last start() lives, each input since is a copy or has
\* been emitted; what released functions still hold is older.
InSession ==
    threadsafeFn = "live" /\ ~Leaving =>
      /\ \A e \in Inputs : opened <= e /\ e < nextInput => e \in heap \union ToSet(emitted)
      /\ \A e \in draining : e < opened

\* Every step keeps it.
LEMMA InSessionNext == Owned /\ Attended /\ InSession /\ [DeliveryNext]_allVars => InSession'
<1> SUFFICES ASSUME Owned, Attended, InSession, [DeliveryNext]_allVars PROVE InSession'
  OBVIOUS
<1>t. /\ nextInput \in Nat /\ opened \in Nat /\ Inputs \subseteq Nat
      /\ queue \in Seq(Inputs) /\ emitted \in Seq(Inputs) /\ draining \subseteq Inputs
  BY DeliveryAssumption DEF Owned, DeliveryTypes, Inputs
<1>s. UNCHANGED deliveryVars => /\ opened' = opened /\ nextInput' = nextInput
                                /\ draining' = draining /\ heap' = heap /\ emitted' = emitted
  BY DEF deliveryVars, loopVars
<1>u. UNCHANGED vars => threadsafeFn' = threadsafeFn /\ (Leaving' <=> Leaving)
  BY DEF vars, mainVars, Leaving
<1>1. CASE WorkerStep
  <2>1. threadsafeFn' = threadsafeFn /\ (Leaving => Leaving') /\ UNCHANGED deliveryVars
    BY <1>1, WorkerKeeps DEF Attended, WorkerStep
  <2> QED
    BY <1>s, <2>1 DEF InSession
<1>2. ASSUME NEW created \in BOOLEAN, NEW passed \in BOOLEAN, StartOpens(created, passed)
      PROVE  InSession'
  <2>1. /\ opened' = nextInput /\ nextInput' = nextInput /\ draining' = draining
        /\ heap' = heap /\ emitted' = emitted
    BY <1>2 DEF StartOpens, loopVars
  <2>2. \A e \in draining : e < nextInput
    BY DEF Owned, Aged, Kept
  <2> QED
    BY <1>t, <2>1, <2>2 DEF InSession
<1>3. CASE LoopEndsBetweenInputs
  <2>1. UNCHANGED deliveryVars /\ threadsafeFn' = threadsafeFn /\ mainPc' = mainPc
    BY <1>3 DEF LoopEndsBetweenInputs, LoopEnds, mainVars
  <2> QED
    BY <1>s, <2>1 DEF InSession, Leaving
<1>4. CASE Release \/ DispatchClosing
  <2>1. threadsafeFn' = "null"
    BY <1>4 DEF Release, ReleaseStep, StartFails, StopReturns, DispatchClosing
  <2> QED
    BY <2>1 DEF InSession
<1>5. CASE DispatchQueueFull \/ Exit \/ ExitCompletes
  <2>1. Leaving'
    BY <1>5 DEF DispatchQueueFull, Exit, ExitCompletes, MainTo, Leaving
  <2> QED
    BY <2>1 DEF InSession
<1>6. CASE DispatchCopy
  <2>1. /\ UNCHANGED vars /\ opened' = opened /\ nextInput' = nextInput + 1
        /\ draining' = draining /\ emitted' = emitted
        /\ threadsafeFn # "null" => heap' = heap \union {nextInput}
    BY <1>6 DEF DispatchCopy
  <2>2. \A e \in Inputs : e < nextInput + 1 => e < nextInput \/ e = nextInput
    BY <1>t
  <2> QED
    BY <1>u, <2>1, <2>2 DEF InSession
<1>7. CASE DispatchQueued \/ EmitNamed
  <2>1. /\ UNCHANGED vars /\ opened' = opened /\ nextInput' = nextInput
        /\ draining' = draining /\ heap' = heap /\ emitted' = emitted
    BY <1>7 DEF DispatchQueued, EmitNamed
  <2> QED
    BY <1>u, <2>1 DEF InSession
<1>8. CASE CallbackBegins
  <2>1. /\ UNCHANGED vars /\ opened' = opened /\ nextInput' = nextInput
        /\ draining' = draining /\ heap' = heap /\ emitted' = Append(emitted, Head(queue))
        /\ queue # <<>>
    BY <1>8 DEF CallbackBegins
  <2>2. ToSet(emitted) \subseteq ToSet(emitted')
    BY <1>t, <2>1, ToSetAppend, ToSetTail
  <2> QED
    BY <1>u, <2>1, <2>2 DEF InSession
<1>9. CASE CallbackEnds
  <2>1. /\ UNCHANGED vars /\ opened' = opened /\ nextInput' = nextInput /\ phase # "none"
        /\ draining' = draining /\ heap' = heap \ {current} /\ emitted' = emitted
    BY <1>9 DEF CallbackEnds
  <2>2. current \in ToSet(emitted)
    BY <2>1 DEF Owned, Kept
  <2> QED
    BY <1>u, <2>1, <2>2 DEF InSession
<1>10. CASE DrainOne
  <2>1. PICK d \in draining :
        /\ UNCHANGED vars /\ opened' = opened /\ nextInput' = nextInput
        /\ draining' = draining \ {d} /\ heap' = heap \ {d} /\ emitted' = emitted
    BY <1>10 DEF DrainOne
  <2>2. d < opened => ~(opened <= d)
    BY <1>t
  <2> QED
    BY <1>u, <2>1, <2>2 DEF InSession
<1>11. CASE UNCHANGED allVars
  BY <1>11, <1>s, <1>u DEF allVars, InSession
<1> QED
  BY <1>1, <1>2, <1>3, <1>4, <1>5, <1>6, <1>7, <1>8, <1>9, <1>10, <1>11 DEF DeliveryNext, Dispatch

\* From the return of start() to the call of stop() no input is lost (README.md:78).
THEOREM NothingLost == DeliverySpec => []NothingLostWhileRunning
<1>1. DeliveryInit => InSession
  BY DEF DeliveryInit, Init, InSession
<1>2. Owned /\ Attended /\ InSession => NothingLostWhileRunning
  <2> SUFFICES ASSUME Owned, Attended, InSession PROVE NothingLostWhileRunning
    OBVIOUS
  <2>1. \A e \in opened..(nextInput - 1) : e \in Inputs /\ opened <= e /\ e < nextInput
    BY DeliveryAssumption DEF Owned, DeliveryTypes, Inputs
  <2> QED
    BY <2>1 DEF InSession, Leaving, NothingLostWhileRunning
<1> QED
  BY <1>1, <1>2, OwnedInit, OwnedNext, AttendedInit, AttendedNext, InSessionNext, PTL
     DEF DeliverySpec

-----------------------------------------------------------------------------
(* The worker within the add-on.                                           *)

\* Until the process ends, delivery does nothing to the worker that it does not do itself;
\* the end comes in the event loop or with a full queue, and moves neither mutex.
LEMMA LivingSteps ==
  ASSUME ~Leaving, [DeliveryNext]_allVars
  PROVE  \/ [Next]_vars
         \/ /\ Leaving' /\ (mainPc' = "exiting" => mainPc = "idle")
            /\ UNCHANGED <<hookPc, running, control>>
<1>1. CASE WorkerStep \/ Release \/ LoopEndsBetweenInputs
  BY <1>1 DEF WorkerStep, Release, LoopEndsBetweenInputs, Next
<1>2. ASSUME NEW created \in BOOLEAN, NEW passed \in BOOLEAN, StartOpens(created, passed)
      PROVE  Next
  BY <1>2 DEF StartOpens, Next
<1>3. CASE DispatchQueueFull \/ Exit
  BY <1>3 DEF DispatchQueueFull, Exit, MainTo, Leaving, hookVars, syncVars
<1>4. CASE DispatchClosing \/ ExitCompletes
  BY <1>4 DEF DispatchClosing, ExitCompletes, MainTo, Leaving
<1>5. CASE DispatchCopy \/ DispatchQueued \/ CallbackBegins \/ EmitNamed \/ CallbackEnds \/ DrainOne
  BY <1>5 DEF DispatchCopy, DispatchQueued, CallbackBegins, EmitNamed, CallbackEnds, DrainOne
<1>6. CASE UNCHANGED allVars
  BY <1>6 DEF allVars
<1> QED
  BY <1>1, <1>2, <1>3, <1>4, <1>5, <1>6 DEF DeliveryNext, Dispatch

\* After that only the hook thread runs on, and only until the process is gone.
LEMMA LeavingSteps ==
  ASSUME Leaving, [DeliveryNext]_allVars
  PROVE  /\ mainPc' \in {mainPc, "dead"}
         /\ \/ HookStep \/ LoopEnds
            \/ UNCHANGED <<hookPc, running, control>>
<1>1. CASE WorkerStep
  <2>1. CASE ThrowingCall \/ StopCall
    BY <2>1 DEF ThrowingCall, StartAlreadyRunning, StartBadArgument, StopNotRunning, StopCall,
                MainTo, Leaving
  <2>2. CASE MainStep
    BY <2>2 DEF MainStep, LockControl, CreateThread, CreateThreadFails, CondWait, CondReturn,
                TryLockSucceeds, TryLockFails, JoinFailed, UnlockControl, StartSucceeds,
                StartFailsAbort, HookStop, HookStopFails, JoinStopped, MainTo, Leaving
  <2>3. CASE HookStep
    BY <2>3 DEF HookStep, RunFails, RunEnabled, EnabledLockRunning, EnabledLockControl,
                EnabledSignal, EnabledUnlockControl, DisabledLockControl, DisabledUnlockRunning,
                RunReturns, FinalSignal, FinalUnlock, mainVars
  <2>4. CASE SpuriousWakeup \/ ProcessGone
    BY <2>4 DEF SpuriousWakeup, ProcessGone, vars, mainVars, hookVars, syncVars
  <2> QED
    BY <1>1, <2>1, <2>2, <2>3, <2>4 DEF WorkerStep
<1>2. ASSUME NEW created \in BOOLEAN, NEW passed \in BOOLEAN, StartOpens(created, passed)
      PROVE  FALSE
  BY <1>2 DEF StartOpens, StartCreate, MainTo, Leaving
<1>3. CASE LoopEndsBetweenInputs
  BY <1>3 DEF LoopEndsBetweenInputs, LoopEnds, mainVars
<1>4. CASE Release
  BY <1>4 DEF Release, ReleaseStep, StartFails, StopReturns, MainTo, Leaving
<1>5. CASE DispatchQueueFull \/ DispatchClosing \/ Exit \/ ExitCompletes
  BY <1>5 DEF DispatchQueueFull, DispatchClosing, Exit, ExitCompletes, MainTo, Leaving, hookVars,
              syncVars
<1>6. CASE DispatchCopy \/ DispatchQueued \/ CallbackBegins \/ EmitNamed \/ CallbackEnds \/ DrainOne
  BY <1>6 DEF DispatchCopy, DispatchQueued, CallbackBegins, EmitNamed, CallbackEnds, DrainOne,
              vars, mainVars, hookVars, syncVars
<1>7. CASE UNCHANGED allVars
  BY <1>7 DEF allVars, vars, mainVars, hookVars, syncVars
<1> QED
  BY <1>1, <1>2, <1>3, <1>4, <1>5, <1>6, <1>7 DEF DeliveryNext, Dispatch

\* What HookWorkerProofs says of a worker that is alone, the whole add-on keeps: however
\* deliveries, calls from listeners and the end of the process interleave with the two
\* threads, a stop() leaves nothing behind ...
THEOREM DeliveryCleanSlate == DeliverySpec => []StoppedLeavesNothing
<1>1. Attended => StoppedLeavesNothing
  BY DEF Attended, Leaving, Lifecycle, StoppedLeavesNothing
<1> QED
  BY <1>1, OwnedInit, OwnedNext, AttendedInit, AttendedNext, PTL DEF DeliverySpec

\* ... threadsafe_fn is not written while the hook thread may read it ...
THEOREM DeliveryRaceFree == DeliverySpec => []ThreadsafeFnUnshared
<1>1. Attended => ThreadsafeFnUnshared
  BY DEF Attended, Leaving, Lifecycle, ThreadsafeFnUnshared, WritesThreadsafeFn, CallsMatchFlag,
         InStop, ThreadScope, Unstarted, Reporting
<1> QED
  BY <1>1, OwnedInit, OwnedNext, AttendedInit, AttendedNext, PTL DEF DeliverySpec

\* ... and hook_stop() does not meet a hook in set-up.
THEOREM DeliveryStopMeetsNoSetup == DeliverySpec => []StopAfterSetup
<1>1. Attended => StopAfterSetup
  BY DEF Attended, Leaving, Lifecycle, StopAfterSetup, SetupAwaited, Enabling
<1> QED
  BY <1>1, OwnedInit, OwnedNext, AttendedInit, AttendedNext, PTL DEF DeliverySpec

\* ... nor is there a new way for start() and stop() to deadlock with the hook thread, on
\* any platform and in any environment.
THEOREM DeliveryDeadlocks == DeliverySpec => []OnlyKnownDeadlocks
<1> DEFINE WaitsWhileAlive == ~Leaving => MayOwn /\ Awaited
<1>1. DeliveryInit => WaitsWhileAlive
  BY DEF DeliveryInit, Init, MayOwn, Awaited, Attached, Unstarted
<1>2. Attended /\ WaitsWhileAlive /\ [DeliveryNext]_allVars => WaitsWhileAlive'
  <2> SUFFICES ASSUME Attended, WaitsWhileAlive, [DeliveryNext]_allVars, ~Leaving'
               PROVE  MayOwn' /\ Awaited'
    OBVIOUS
  <2>1. ~Leaving
    BY LeavingSteps DEF Leaving
  <2>2. [Next]_vars /\ Lifecycle
    BY <2>1, LivingSteps DEF Attended
  <2> QED
    BY <2>1, <2>2, LifecycleNext, WaitsNext
<1>3. Attended /\ WaitsWhileAlive => OnlyKnownDeadlocks
  <2>1. Attended /\ ~Leaving => Lifecycle
    BY DEF Attended
  <2>2. Leaving => ~MainBlocked
    BY DEF Leaving, MainBlocked
  <2> QED
    BY <2>1, <2>2, WaitsAreMet DEF OnlyKnownDeadlocks
<1> QED
  BY <1>1, <1>2, <1>3, OwnedInit, OwnedNext, AttendedInit, AttendedNext, PTL DEF DeliverySpec

\* A process that exits may leave the running mutex with a JavaScript thread that is gone,
\* but then there is no hook thread.
OwnersWhileLeaving ==
    /\ ~Leaving => Ownership
    /\ mainPc = "exiting" => control # "main" /\ (running = "main" => hookPc = "none")

\* The mutexes within the add-on, one step.
LEMMA DeliveryOwners ==
  ASSUME HookMayFail = FALSE, Attended, Attended', OwnersWhileLeaving, [DeliveryNext]_allVars
  PROVE  OwnersWhileLeaving' /\ [OwnerUnlocks]_vars
<1>1. CASE ~Leaving
  <2>1. Lifecycle /\ Ownership
    BY <1>1 DEF Attended, OwnersWhileLeaving
  <2>2. CASE [Next]_vars
    <3>1. Lifecycle'
      BY <2>1, <2>2, LifecycleNext
    <3>2. Ownership' /\ OwnerUnlocks
      BY <2>1, <2>2, <3>1, OwnershipNext
    <3> QED
      BY <3>2 DEF OwnersWhileLeaving, Ownership, Reporting
  <2>3. CASE /\ Leaving' /\ (mainPc' = "exiting" => mainPc = "idle")
             /\ UNCHANGED <<hookPc, running, control>>
    BY <2>1, <2>3 DEF OwnersWhileLeaving, Ownership, OwnerUnlocks, Reporting
  <2> QED
    BY <1>1, <2>2, <2>3, LivingSteps
<1>2. CASE Leaving
  <2>1. Leaving' /\ mainPc' \in {mainPc, "dead"}
    BY <1>2, LeavingSteps DEF Leaving
  <2>2. CASE UNCHANGED <<hookPc, running, control>>
    BY <1>2, <2>1, <2>2 DEF OwnersWhileLeaving, OwnerUnlocks
  <2>3. CASE HookStep \/ LoopEnds
    <3>1. mainPc = "exiting" /\ hookPc # "none" /\ control # "main" /\ running # "main"
      BY <1>2, <2>3 DEF Leaving, OwnersWhileLeaving, HookStep, RunFails, RunEnabled,
         EnabledLockRunning, EnabledLockControl, EnabledSignal, EnabledUnlockControl,
         DisabledLockControl, DisabledUnlockRunning, RunReturns, FinalSignal, FinalUnlock,
         LoopEnds, HookTo
    <3>2. /\ hookPc' # hookPc
          /\ running' \in {running, "hook", "free"} /\ control' \in {control, "hook", "free"}
      BY <2>3, <3>1 DEF HookStep, RunFails, RunEnabled, EnabledLockRunning, EnabledLockControl,
         EnabledSignal, EnabledUnlockControl, DisabledLockControl, DisabledUnlockRunning,
         RunReturns, FinalSignal, FinalUnlock, LoopEnds, HookTo, AfterUnlock, syncVars
    <3> QED
      BY <2>1, <3>1, <3>2 DEF OwnersWhileLeaving, OwnerUnlocks
  <2> QED
    BY <1>2, <2>2, <2>3, LeavingSteps
<1> QED
  BY <1>1, <1>2

\* The mutexes within the add-on, in every state.
LEMMA DeliveryOwnersInvariant ==
  ASSUME HookMayFail = FALSE
  PROVE  DeliverySpec => [](Attended /\ OwnersWhileLeaving)
<1>1. DeliveryInit => OwnersWhileLeaving
  BY OwnershipInit DEF DeliveryInit, Init, OwnersWhileLeaving
<1>2. Attended /\ Attended' /\ OwnersWhileLeaving /\ [DeliveryNext]_allVars => OwnersWhileLeaving'
  BY DeliveryOwners
<1> QED
  BY <1>1, <1>2, OwnedInit, OwnedNext, AttendedInit, AttendedNext, PTL DEF DeliverySpec

\* With events, listeners and an exiting process around it, a mutex is still given back by
\* the thread that took it, unless hook_run() fails ...
THEOREM DeliveryGivesBack ==
  ASSUME HookMayFail = FALSE
  PROVE  DeliverySpec => OwnersUnlock
<1>1. Attended /\ Attended' /\ OwnersWhileLeaving /\ [DeliveryNext]_allVars => [OwnerUnlocks]_vars
  BY DeliveryOwners
<1>2. DeliverySpec => [][OwnerUnlocks]_vars
  BY <1>1, DeliveryOwnersInvariant, PTL DEF DeliverySpec
<1> QED
  BY <1>2 DEF OwnersUnlock, OwnerUnlocks

\* Once the process is leaving there is no JavaScript to destroy a mutex, and no hook thread
\* to which a destroyed one would matter.
EndedWhileLeaving ==
    /\ ~Leaving => MayOwn /\ Awaited /\ TakenForFailure /\ DestroyedStopped
    /\ "destroyed" \in {running, control} => hookPc = "none"

\* What the hook thread does alone destroys nothing.
LEMMA HookDestroysNothing ==
  ASSUME HookStep \/ LoopEnds
  PROVE  /\ hookPc # "none"
         /\ running' = "destroyed" => running = "destroyed"
         /\ control' = "destroyed" => control = "destroyed"
BY DEF HookStep, RunFails, RunEnabled, EnabledLockRunning, EnabledLockControl, EnabledSignal,
       EnabledUnlockControl, DisabledLockControl, DisabledUnlockRunning, RunReturns, FinalSignal,
       FinalUnlock, LoopEnds, HookTo, AfterUnlock, syncVars

\* The end of the mutexes within the add-on, one step.
LEMMA DeliveryDestroys ==
  ASSUME Attended, EndedWhileLeaving, [DeliveryNext]_allVars
  PROVE  EndedWhileLeaving' /\ [LastDestroys]_vars
<1>1. CASE ~Leaving
  <2>1. Lifecycle /\ MayOwn /\ Awaited /\ TakenForFailure /\ DestroyedStopped
    BY <1>1 DEF Attended, EndedWhileLeaving
  <2>2. CASE [Next]_vars
    <3>1. Lifecycle'
      BY <2>1, <2>2, LifecycleNext
    <3>2. MayOwn' /\ Awaited' /\ TakenForFailure'
      BY <2>1, <2>2, <3>1, WaitsNext, TakenNext
    <3>3. LastDestroys /\ DestroyedStopped'
      BY <2>1, <2>2, DestroyNext
    <3>4. "destroyed" \in {running', control'} => hookPc' = "none"
      BY <3>1, <3>3 DEF DestroyedStopped, Lifecycle, ThreadScope
    <3> QED
      BY <3>2, <3>3, <3>4 DEF EndedWhileLeaving
  <2>3. CASE Leaving' /\ UNCHANGED <<hookPc, running, control>>
    BY <2>3 DEF EndedWhileLeaving, LastDestroys
  <2> QED
    BY <1>1, <2>2, <2>3, LivingSteps
<1>2. CASE Leaving
  <2>1. Leaving'
    BY <1>2, LeavingSteps DEF Leaving
  <2>2. CASE UNCHANGED <<hookPc, running, control>>
    BY <2>1, <2>2 DEF EndedWhileLeaving, LastDestroys
  <2>3. CASE HookStep \/ LoopEnds
    <3>1. "destroyed" \notin {running', control'}
      BY <2>3, HookDestroysNothing DEF EndedWhileLeaving
    <3> QED
      BY <2>1, <3>1 DEF EndedWhileLeaving, LastDestroys
  <2> QED
    BY <1>2, <2>2, <2>3, LeavingSteps
<1> QED
  BY <1>1, <1>2

\* ... and, whatever fails, no mutex is destroyed that another thread may still use, nor one
\* that is held, but for the running mutex by the failed start() that holds it.
THEOREM DeliveryDestroysLast == DeliverySpec => DestroyedByTheLast
<1>1. DeliveryInit => EndedWhileLeaving
  BY DEF DeliveryInit, Init, EndedWhileLeaving, MayOwn, Awaited, Attached, TakenForFailure,
         DestroyedStopped, Unstarted
<1>2. Attended /\ EndedWhileLeaving /\ [DeliveryNext]_allVars
        => EndedWhileLeaving' /\ [LastDestroys]_vars
  BY DeliveryDestroys
<1>3. DeliverySpec => [][LastDestroys]_vars
  BY <1>1, <1>2, OwnedInit, OwnedNext, AttendedInit, AttendedNext, PTL DEF DeliverySpec
<1> QED
  BY <1>3 DEF DestroyedByTheLast, LastDestroys

\* If the loop ends only on request, the add-on as a whole implements HookSession: exits
\* and full queues are the session's end, all other deliveries are invisible to it.
THEOREM DeliveryImplementsSession ==
  ASSUME HookMayDie = FALSE
  PROVE  DeliverySpec => ImplementsSession
<1> DEFINE Truthful == ~Leaving => Attachment
<1>1. DeliveryInit => Truthful /\ Session!Init
  BY AttachmentInit DEF DeliveryInit, Init, Session!Init, InStop, JavaScriptGone
<1>2. Attended /\ Truthful /\ [DeliveryNext]_allVars => Truthful' /\ [Session!Next]_(Session!vars)
  <2> SUFFICES ASSUME Attended, Truthful, [DeliveryNext]_allVars
               PROVE  Truthful' /\ [Session!Next]_(Session!vars)
    OBVIOUS
  <2>1. CASE ~Leaving
    <3>1. Lifecycle /\ Attachment
      BY <2>1 DEF Attended
    <3>2. CASE [Next]_vars
      <4>1. Attachment'
        BY <3>1, <3>2, LifecycleNext, AttachmentNext
      <4> QED
        BY <3>1, <3>2, <4>1, SessionNext
    <3>3. CASE Leaving'
      <4>1. ~JavaScriptGone /\ JavaScriptGone'
        BY <2>1, <3>3 DEF Leaving, JavaScriptGone
      <4>2. Session!Vanish
        BY <4>1 DEF Session!Vanish
      <4> QED
        BY <3>3, <4>2 DEF Session!Next
    <3> QED
      BY <2>1, <3>2, <3>3, LivingSteps
  <2>2. CASE Leaving
    <3>1. Leaving'
      BY <2>2, LeavingSteps DEF Leaving
    <3>2. JavaScriptGone /\ JavaScriptGone'
      BY <2>2, <3>1 DEF Leaving, JavaScriptGone
    <3> QED
      BY <3>1, <3>2 DEF Session!vars
  <2> QED
    BY <2>1, <2>2
<1> QED
  BY <1>1, <1>2, OwnedInit, OwnedNext, AttendedInit, AttendedNext, PTL
     DEF DeliverySpec, ImplementsSession, Session!Spec

-----------------------------------------------------------------------------
(* Delivery as a channel.                                                  *)

\* Copies wait only in a function that lives.
Fed == ~Leaving => (inflight = 0 /\ queue = <<>>) \/ threadsafeFn = "live"

\* The end of JavaScript closes the channel, at whatever point it comes.
LEMMA EndCloses ==
  ASSUME Leaving', UNCHANGED <<nextInput, emitted>>
  PROVE  Fed' /\ Channel!Close
<1>1. ChannelOpen' = FALSE /\ Waiting' = <<>>
  BY DEF ChannelOpen, Waiting, JavaScriptGone, Leaving
<1> QED
  BY <1>1 DEF Fed, Channel!Close

\* What goes on beside the channel changes nothing in it.
LEMMA BesideChannel ==
  ASSUME Leaving' <=> Leaving, Fed, UNCHANGED <<threadsafeFn, nextInput, inflight, queue, emitted>>
  PROVE  Fed' /\ UNCHANGED Channel!vars
<1>1. JavaScriptGone' <=> JavaScriptGone
  BY DEF JavaScriptGone, Leaving
<1>2. ChannelOpen' = ChannelOpen
  BY <1>1 DEF ChannelOpen
<1>3. Waiting' = Waiting
  BY <1>1 DEF Waiting
<1> QED
  BY <1>2, <1>3 DEF Fed, Channel!vars

\* An input is seen, or missed when there is no function to hand it to.
LEMMA CopySees ==
  ASSUME Owned, TypeOK, Fed, DispatchCopy
  PROVE  Fed' /\ Channel!Next
<1>t. /\ nextInput \in Nat /\ nextInput # 0 /\ QueueSize \in Nat
      /\ queue \in Seq(Inputs) /\ Len(queue) <= QueueSize
      /\ threadsafeFn \in {"null", "live"}
  BY DeliveryAssumption DEF Owned, DeliveryTypes, TypeOK
<1>1. /\ mainPc' = mainPc /\ threadsafeFn' = threadsafeFn /\ inflight = 0
      /\ nextInput' = nextInput + 1 /\ queue' = queue /\ emitted' = emitted
      /\ inflight' = IF threadsafeFn = "null" THEN 0 ELSE nextInput
  BY DEF DispatchCopy, vars, mainVars
<1>2. (JavaScriptGone' <=> JavaScriptGone) /\ (Leaving' <=> Leaving) /\ (JavaScriptGone <=> Leaving)
  BY <1>1 DEF JavaScriptGone, Leaving
<1>3. Fed'
  BY <1>1, <1>2, <1>t DEF Fed
<1>4. ChannelOpen' = ChannelOpen
  BY <1>1, <1>2 DEF ChannelOpen
<1>5. CASE JavaScriptGone \/ threadsafeFn = "null"
  <2>1. ~ChannelOpen /\ Waiting' = Waiting
    BY <1>1, <1>2, <1>5 DEF ChannelOpen, Waiting
  <2>2. Channel!Miss
    BY <1>1, <1>4, <2>1 DEF Channel!Miss
  <2> QED
    BY <1>3, <2>2 DEF Channel!Next
<1>6. CASE ~JavaScriptGone /\ threadsafeFn = "live"
  <2>1. ChannelOpen /\ Waiting = queue /\ Waiting' = Append(queue, nextInput)
    BY <1>1, <1>2, <1>6, <1>t DEF ChannelOpen, Waiting
  <2>2. Len(Waiting) < QueueSize + 1
    BY <1>t, <2>1
  <2>3. Channel!See
    BY <1>1, <1>4, <2>1, <2>2 DEF Channel!See
  <2> QED
    BY <1>3, <2>3 DEF Channel!Next
<1> QED
  BY <1>5, <1>6, <1>t

\* The event that is emitted is the first that waits, also when the queue behind it is
\* empty but for the copy in flight.
LEMMA CallbackHears ==
  ASSUME Owned, Fed, CallbackBegins
  PROVE  Fed' /\ Channel!Hear
<1>t. queue \in Seq(Inputs) /\ inflight \in Nat
  BY DeliveryAssumption DEF Owned, DeliveryTypes, Inputs
<1>1. /\ mainPc = "idle" /\ mainPc' = "idle" /\ threadsafeFn' = threadsafeFn
      /\ queue # <<>> /\ queue' = Tail(queue) /\ emitted' = Append(emitted, Head(queue))
      /\ inflight' = inflight /\ nextInput' = nextInput
  BY DEF CallbackBegins, vars, mainVars
<1>2. ~JavaScriptGone /\ ~JavaScriptGone' /\ ~Leaving /\ ~Leaving'
  BY <1>1 DEF JavaScriptGone, Leaving
<1>3. threadsafeFn = "live"
  BY <1>1, <1>2 DEF Fed
<1>4. Fed' /\ ChannelOpen /\ ChannelOpen'
  BY <1>1, <1>2, <1>3 DEF Fed, ChannelOpen
<1>5. CASE inflight = 0
  <2>1. Waiting = queue /\ Waiting' = Tail(queue)
    BY <1>1, <1>2, <1>5 DEF Waiting
  <2> QED
    BY <1>1, <1>4, <2>1 DEF Channel!Hear
<1>6. CASE inflight # 0
  <2>1. Waiting = Append(queue, inflight) /\ Waiting' = Append(Tail(queue), inflight)
    BY <1>1, <1>2, <1>6 DEF Waiting
  <2>2. /\ Append(queue, inflight) # <<>>
        /\ Head(Append(queue, inflight)) = Head(queue)
        /\ Tail(Append(queue, inflight)) = Append(Tail(queue), inflight)
    <3>1. inflight \in Nat /\ queue \in Seq(Nat)
      BY <1>t, DeliveryAssumption DEF Inputs
    <3>2. Append(queue, inflight) # <<>> /\ Head(Append(queue, inflight)) = Head(queue)
      BY <1>1, <3>1
    <3>3. Tail(Append(queue, inflight)) = Append(Tail(queue), inflight)
      BY <1>1, <3>1, SMTT(30)
    <3> QED
      BY <3>2, <3>3
  <2> QED
    BY <1>1, <1>4, <2>1, <2>2 DEF Channel!Hear
<1> QED
  BY <1>5, <1>6

\* Each step of the add-on is a step of the channel, or one beside it.
LEMMA ChannelNext ==
  ASSUME Owned, Attended, Fed, [DeliveryNext]_allVars
  PROVE  Fed' /\ [Channel!Next]_(Channel!vars)
<1>s. UNCHANGED deliveryVars => UNCHANGED <<nextInput, inflight, queue, emitted>>
  BY DEF deliveryVars, loopVars
<1>c. Channel!Close => Channel!Next
  BY DEF Channel!Next
<1>1. CASE WorkerStep
  <2>1. /\ UNCHANGED <<threadsafeFn, nextInput, inflight, queue, emitted>>
        /\ Leaving => Leaving'
    BY <1>1, <1>s, WorkerKeeps DEF Attended, WorkerStep
  <2> QED
    BY <1>c, <2>1, EndCloses, BesideChannel
<1>2. ASSUME NEW created \in BOOLEAN, NEW passed \in BOOLEAN, StartOpens(created, passed)
      PROVE  Fed' /\ [Channel!Next]_(Channel!vars)
  <2>1. /\ UNCHANGED <<nextInput, inflight, queue, emitted>> /\ ~Leaving /\ ~Leaving'
        /\ threadsafeFn' = IF created THEN "live" ELSE threadsafeFn
    BY <1>2 DEF StartOpens, StartCreate, Leaving, loopVars
  <2>2. CASE created
    <3>1. ChannelOpen' /\ Waiting' = Waiting
      BY <2>1, <2>2 DEF ChannelOpen, Waiting, JavaScriptGone, Leaving
    <3>2. Fed'
      BY <2>1, <2>2 DEF Fed
    <3> QED
      BY <2>1, <3>1, <3>2 DEF Channel!Next, Channel!Open
  <2>3. CASE ~created
    BY <2>1, <2>3, BesideChannel
  <2> QED
    BY <2>2, <2>3
<1>3. CASE LoopEndsBetweenInputs
  <2>1. UNCHANGED <<threadsafeFn, nextInput, inflight, queue, emitted>> /\ (Leaving' <=> Leaving)
    BY <1>3, <1>s DEF LoopEndsBetweenInputs, LoopEnds, mainVars, Leaving
  <2> QED
    BY <2>1, BesideChannel
<1>4. CASE Release
  <2>1. /\ mainPc \in {"started", "stopped"} /\ mainPc' = "idle" /\ threadsafeFn' = "null"
        /\ mainPc = "started" => status # "success"
        /\ queue' = <<>> /\ UNCHANGED <<inflight, nextInput, emitted>>
    BY <1>4 DEF Release, ReleaseStep, StartFails, StopReturns, MainTo
  <2>2. inflight = 0
    BY <2>1 DEF Attended, Leaving, Lifecycle, ThreadScope, Reporting
  <2>3. ~ChannelOpen' /\ Waiting' = <<>>
    BY <2>1, <2>2 DEF ChannelOpen, Waiting, JavaScriptGone
  <2>4. Fed'
    BY <2>1, <2>2 DEF Fed
  <2>5. Channel!Close
    BY <2>1, <2>3 DEF Channel!Close, ChannelOpen
  <2> QED
    BY <1>c, <2>4, <2>5
<1>5. CASE DispatchQueueFull \/ DispatchClosing \/ Exit \/ ExitCompletes
  <2>1. Leaving' /\ UNCHANGED <<nextInput, emitted>>
    BY <1>5, <1>s DEF DispatchQueueFull, DispatchClosing, Exit, ExitCompletes, MainTo, Leaving
  <2> QED
    BY <1>c, <2>1, EndCloses
<1>6. CASE DispatchCopy
  BY <1>6, CopySees DEF Attended
<1>7. CASE DispatchQueued
  <2>1. /\ mainPc' = mainPc /\ threadsafeFn' = threadsafeFn /\ ~Leaving /\ ~Leaving'
        /\ inflight # 0 /\ inflight' = 0 /\ queue' = Append(queue, inflight)
        /\ UNCHANGED <<nextInput, emitted>>
    BY <1>7 DEF DispatchQueued, vars, mainVars, Leaving
  <2>2. Waiting' = Waiting /\ ChannelOpen' = ChannelOpen
    BY <2>1 DEF Waiting, ChannelOpen, JavaScriptGone
  <2>3. Fed'
    BY <2>1 DEF Fed
  <2> QED
    BY <2>1, <2>2, <2>3 DEF Channel!vars
<1>8. CASE CallbackBegins
  BY <1>8, CallbackHears DEF Channel!Next
<1>9. CASE EmitNamed \/ CallbackEnds \/ DrainOne \/ UNCHANGED allVars
  <2>1. UNCHANGED <<threadsafeFn, nextInput, inflight, queue, emitted>> /\ (Leaving' <=> Leaving)
    BY <1>9, <1>s DEF EmitNamed, CallbackEnds, DrainOne, allVars, vars, mainVars, Leaving
  <2> QED
    BY <2>1, BesideChannel
<1> QED
  BY <1>1, <1>2, <1>3, <1>4, <1>5, <1>6, <1>7, <1>8, <1>9 DEF DeliveryNext, Dispatch

\* For every size of the queue and in every environment, what the add-on delivers is what
\* EventChannel promises: nothing out of order, nothing twice, nothing left out while the
\* function lives, and no more than a full queue and one copy waiting.
THEOREM DeliveryImplementsChannel == DeliverySpec => ImplementsChannel
<1>1. DeliveryInit => Fed /\ Channel!Init
  BY DEF DeliveryInit, Init, Fed, Channel!Init, ChannelOpen, Waiting, JavaScriptGone
<1>2. Owned /\ Attended /\ Fed /\ [DeliveryNext]_allVars => Fed' /\ [Channel!Next]_(Channel!vars)
  BY ChannelNext
<1> QED
  BY <1>1, <1>2, OwnedInit, OwnedNext, AttendedInit, AttendedNext, PTL
     DEF DeliverySpec, ImplementsChannel, Channel!Spec
=============================================================================
