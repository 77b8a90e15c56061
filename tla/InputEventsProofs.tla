------------------------- MODULE InputEventsProofs -------------------------
(***************************************************************************)
(* What the proofs about the X11 and the macOS hook share: how a click     *)
(* count follows the run of presses that it counts.                        *)
(***************************************************************************)
EXTENDS InputEvents, TLAPS

TimedPress == [button : Nat, time : Nat]

\* The last press ends a run of n presses and of no more.
CountsRun(presses, time, n) ==
  /\ n \in 1..Len(presses)
  /\ IsRun(presses, time, n)
  /\ \A k \in n+1 .. Len(presses) : ~IsRun(presses, time, k)

\* A run of n presses is a run of n - 1.
LEMMA RunShortens ==
  ASSUME NEW P \in Seq(TimedPress), NEW T \in Nat, NEW n \in Nat, n >= 1, IsRun(P, T, n)
  PROVE  IsRun(P, T, n-1)
<1> DEFINE L == Len(P)
<1> SUFFICES ASSUME NEW i \in (L - (n-1) + 1)..L
             PROVE  /\ P[i].button = P[L].button
                    /\ i > L - (n-1) + 1 => P[i].time <= P[i-1].time + T
  BY DEF IsRun
<1>1. L \in Nat
  OBVIOUS
<1>2. i \in (L - n + 1)..L /\ (i > L - (n-1) + 1 => i > L - n + 1)
  BY <1>1
<1> HIDE DEF L
<1> QED
  BY <1>2 DEF IsRun, L

\* RunLength is the only length that the last press can have.
LEMMA RunLengthIs ==
  ASSUME NEW P \in Seq(TimedPress), NEW T \in Nat, NEW n, CountsRun(P, T, n)
  PROVE  RunLength(P, T) = n
<1> DEFINE Ends(m) == /\ IsRun(P, T, m)
                      /\ \A k \in m+1 .. Len(P) : ~IsRun(P, T, k)
<1>1. n \in 1..Len(P) /\ Ends(n)
  BY DEF CountsRun
<1>2. ASSUME NEW m \in 1..Len(P), Ends(m) PROVE m = n
  <2>1. ~(m < n) /\ ~(n < m)
    <3>1. m < n => n \in m+1 .. Len(P)
      BY <1>1
    <3>2. n < m => m \in n+1 .. Len(P)
      BY <1>1
    <3> QED
      BY <1>1, <1>2, <3>1, <3>2
  <2> QED
    BY <1>1, <2>1
<1>3. RunLength(P, T) = CHOOSE m \in 1..Len(P) : Ends(m)
  BY DEF RunLength
<1> HIDE DEF Ends
<1> QED
  BY <1>1, <1>2, <1>3

\* Q is P with p behind it, and without its first press if that makes more than limit.
IsNewest(Q, P, p, limit) ==
  /\ Q \in Seq(TimedPress) /\ Len(Q) \in 1..limit
  /\ Len(Q) = IF Len(P) = limit THEN limit ELSE Len(P) + 1
  /\ Q[Len(Q)] = p
  /\ \A j \in 1 .. Len(Q)-1 : Q[j] = P[j + Len(P) + 1 - Len(Q)]

\* The newest presses with one more: the same from the end, but for that one.
LEMMA NewestPresses ==
  ASSUME NEW P \in Seq(TimedPress), NEW limit \in Nat \ {0}, Len(P) <= limit, NEW p \in TimedPress
  PROVE  IsNewest(LastFew(Append(P, p), limit), P, p, limit)
<1> DEFINE A == Append(P, p)
<1>1. A \in Seq(TimedPress) /\ Len(A) = Len(P) + 1 /\ A[Len(A)] = p /\ \A j \in 1..Len(P) : A[j] = P[j]
  OBVIOUS
<1>2. CASE Len(P) = limit
  <2>1. LastFew(A, limit) = Tail(A)
    BY <1>1, <1>2 DEF LastFew
  <2>2. /\ Tail(A) \in Seq(TimedPress) /\ Len(Tail(A)) = Len(P)
        /\ \A j \in 1..Len(P) : Tail(A)[j] = A[j+1]
    BY <1>1
  <2>3. Tail(A)[Len(P)] = p /\ \A j \in 1 .. Len(P)-1 : Tail(A)[j] = P[j+1]
    BY <1>1, <1>2, <2>2
  <2> DEFINE Q == Tail(A)
             n == Len(P)
  <2>4. n \in Nat /\ n = limit /\ n >= 1 /\ Len(Q) = n /\ Q[n] = p
    BY <1>2, <2>2, <2>3
  <2>5. \A j \in 1 .. n-1 : Q[j] = P[j+1] /\ j + n + 1 - n = j + 1
    BY <2>3, <2>4
  <2> HIDE DEF Q, n
  <2>6. /\ Len(Q) \in 1..limit /\ Q[Len(Q)] = p
        /\ \A j \in 1 .. Len(Q)-1 : Q[j] = P[j + n + 1 - Len(Q)]
    BY <2>4, <2>5
  <2> QED
    BY <1>2, <2>1, <2>2, <2>6 DEF Q, n, IsNewest
<1>3. CASE Len(P) # limit
  <2>1. LastFew(A, limit) = A
    BY <1>1, <1>3 DEF LastFew
  <2> QED
    BY <1>1, <1>3, <2>1 DEF IsNewest
<1> QED
  BY <1>2, <1>3

\* A press ends a run of k if the one before it ended a run of k - 1 which it continues.
LEMMA RunContinues ==
  ASSUME NEW P \in Seq(TimedPress), NEW limit \in Nat \ {0}, Len(P) <= limit, NEW p \in TimedPress,
         NEW T \in Nat, NEW k \in 2 .. Len(LastFew(Append(P, p), limit))
  PROVE  IsRun(LastFew(Append(P, p), limit), T, k) <=>
           /\ IsRun(P, T, k-1)
           /\ p.button = P[Len(P)].button
           /\ p.time <= P[Len(P)].time + T
<1> DEFINE Q == LastFew(Append(P, p), limit)
           L == Len(P)
           m == Len(Q)
           d == L + 1 - m
<1>1. /\ Q \in Seq(TimedPress) /\ m \in 1..limit /\ m = IF L = limit THEN limit ELSE L + 1
      /\ Q[m] = p /\ \A j \in 1 .. m-1 : Q[j] = P[j + L + 1 - m]
  <2>1. IsNewest(Q, P, p, limit)
    BY NewestPresses
  <2> HIDE DEF Q
  <2> QED
    BY <2>1 DEF IsNewest
<1>2. L \in Nat /\ m \in Nat /\ d \in {0, 1} /\ m = L + 1 - d /\ k \in 2..m /\ L >= 1
  BY <1>1
<1>3. \A j \in 1 .. m-1 : Q[j] = P[j + d]
  <2>1. L \in Nat /\ m \in Nat
    BY <1>1
  <2> HIDE DEF L, m, Q
  <2>2. \A j \in Nat : j + L + 1 - m = j + (L + 1 - m)
    BY <2>1
  <2>3. \A j \in 1 .. m-1 : j \in Nat
    OBVIOUS
  <2> QED
    BY <1>1, <2>2, <2>3
<1> HIDE DEF Q, L, m, d
<1>4. Q[m-1] = P[L]
  <2>1. m-1 \in 1 .. m-1 /\ m-1 + d = L
    BY <1>2
  <2> QED
    BY <1>3, <2>1
<1>5. ASSUME IsRun(Q, T, k)
      PROVE  IsRun(P, T, k-1) /\ p.button = P[L].button /\ p.time <= P[L].time + T
  <2>1. \A i \in (m - k + 1)..m : /\ Q[i].button = p.button
                                  /\ i > m - k + 1 => Q[i].time <= Q[i-1].time + T
    BY <1>1, <1>5 DEF IsRun, m
  <2>2. Q[m-1] = P[L] /\ m - 1 \in (m - k + 1)..m /\ m \in (m - k + 1)..m /\ m > m - k + 1
    BY <1>2, <1>4
  <2>3. p.button = P[L].button /\ p.time <= P[L].time + T
    BY <1>1, <2>1, <2>2
  <2>4. ASSUME NEW i \in (L - (k-1) + 1)..L
        PROVE  /\ P[i].button = P[L].button
               /\ i > L - (k-1) + 1 => P[i].time <= P[i-1].time + T
    <3>1. i - d \in (m - k + 1) .. m-1 /\ i - d \in 1 .. m-1
      BY <1>2
    <3>2. Q[i - d] = P[i]
      BY <1>2, <1>3, <3>1
    <3>3. P[i].button = P[L].button
      BY <1>2, <2>1, <2>3, <3>1, <3>2
    <3>4. ASSUME i > L - (k-1) + 1 PROVE P[i].time <= P[i-1].time + T
      <4>1. i - d - 1 \in 1 .. m-1 /\ i - d > m - k + 1
        BY <1>2, <3>1, <3>4
      <4>2. Q[i - d - 1] = P[i-1]
        BY <1>2, <1>3, <4>1
      <4> QED
        BY <1>2, <2>1, <3>1, <3>2, <4>1, <4>2
    <3> QED
      BY <3>3, <3>4
  <2> QED
    BY <2>3, <2>4 DEF IsRun, L
<1>6. ASSUME IsRun(P, T, k-1), p.button = P[L].button, p.time <= P[L].time + T
      PROVE  IsRun(Q, T, k)
  <2>1. \A i \in (L - (k-1) + 1)..L : /\ P[i].button = P[L].button
                                      /\ i > L - (k-1) + 1 => P[i].time <= P[i-1].time + T
    BY <1>6 DEF IsRun, L
  <2>2. ASSUME NEW i \in (m - k + 1)..m
        PROVE  /\ Q[i].button = p.button
               /\ i > m - k + 1 => Q[i].time <= Q[i-1].time + T
    <3>1. CASE i = m
      <4>1. Q[i] = p /\ Q[i-1] = P[L]
        BY <1>1, <1>4, <3>1
      <4> QED
        BY <1>6, <4>1
    <3>2. CASE i # m
      <4>1. i \in 1 .. m-1 /\ i + d \in (L - (k-1) + 1)..L
        BY <1>2, <3>2
      <4>2. Q[i] = P[i + d]
        BY <1>3, <4>1
      <4>3. Q[i].button = p.button
        BY <1>6, <2>1, <4>1, <4>2
      <4>4. ASSUME i > m - k + 1 PROVE Q[i].time <= Q[i-1].time + T
        <5>1. i - 1 \in 1 .. m-1 /\ i + d > L - (k-1) + 1 /\ (i - 1) + d = (i + d) - 1
          BY <1>2, <4>1, <4>4
        <5>2. Q[i-1] = P[(i + d) - 1]
          BY <1>3, <5>1
        <5> QED
          BY <2>1, <4>1, <4>2, <5>1, <5>2
      <4> QED
        BY <4>3, <4>4
    <3> QED
      BY <3>1, <3>2
  <2> QED
    BY <1>1, <2>2 DEF IsRun, m
<1> QED
  BY <1>5, <1>6 DEF Q, L

\* A press that no run can take up ends a run of one.
LEMMA RunStarts ==
  ASSUME NEW P \in Seq(TimedPress), NEW limit \in Nat \ {0}, Len(P) <= limit, NEW p \in TimedPress,
         NEW T \in Nat,
         P # <<>> => p.button # P[Len(P)].button \/ p.time > P[Len(P)].time + T
  PROVE  CountsRun(LastFew(Append(P, p), limit), T, 1)
<1> DEFINE Q == LastFew(Append(P, p), limit)
<1>1. Len(Q) \in 1..limit /\ Len(Q) \in Nat
      /\ (Len(Q) > 1 => Len(P) > 0)
  <2>1. IsNewest(Q, P, p, limit)
    BY NewestPresses
  <2>2. Len(Q) \in 1..limit /\ Len(Q) = IF Len(P) = limit THEN limit ELSE Len(P) + 1
    BY <2>1 DEF IsNewest
  <2> QED
    BY <2>2
<1>2. IsRun(Q, T, 1)
  <2>1. \A i \in (Len(Q) - 1 + 1)..Len(Q) : i = Len(Q) /\ ~(i > Len(Q) - 1 + 1)
    BY <1>1
  <2> QED
    BY <2>1 DEF IsRun
<1>3. ASSUME NEW k \in 2..Len(Q) PROVE ~IsRun(Q, T, k)
  <2>1. P # <<>> /\ P[Len(P)] \in TimedPress
    BY <1>1
  <2> QED
    BY <2>1, RunContinues DEF TimedPress
<1> QED
  BY <1>1, <1>2, <1>3 DEF CountsRun

\* A press of the same button in time makes the run longer by one, up to the limit.
LEMMA RunGrows ==
  ASSUME NEW P \in Seq(TimedPress), NEW limit \in Nat \ {0}, Len(P) <= limit, NEW p \in TimedPress,
         NEW T \in Nat, NEW n, CountsRun(P, T, n),
         p.button = P[Len(P)].button, p.time <= P[Len(P)].time + T
  PROVE  CountsRun(LastFew(Append(P, p), limit), T, IF n < limit THEN n + 1 ELSE n)
<1> DEFINE Q == LastFew(Append(P, p), limit)
           L == Len(P)
           m == Len(Q)
           c == IF n < limit THEN n + 1 ELSE n
<1>1. /\ L \in Nat /\ n \in 1..L /\ IsRun(P, T, n)
      /\ \A k \in n+1 .. L : ~IsRun(P, T, k)
  BY DEF CountsRun
<1>2. m \in 1..limit /\ m = IF L = limit THEN limit ELSE L + 1
  BY NewestPresses DEF IsNewest
<1>3. \A k \in 2..m : IsRun(Q, T, k) <=> IsRun(P, T, k-1)
  BY RunContinues
<1>4. c \in 1..m /\ (c = 1 => limit = 1)
  BY <1>1, <1>2
<1> HIDE DEF Q, m
<1>5. IsRun(Q, T, c)
  <2>1. CASE c = 1
    <3>1. m = 1
      BY <1>2, <1>4, <2>1
    <3>2. \A i \in (m - 1 + 1)..m : i = m /\ ~(i > m - 1 + 1)
      BY <3>1
    <3> QED
      BY <2>1, <3>2 DEF IsRun, m
  <2>2. CASE c # 1
    <3>1. c \in 2..m /\ (c - 1 = n \/ c - 1 = n - 1)
      BY <1>1, <1>2, <1>4, <2>2
    <3>2. IsRun(P, T, n) /\ IsRun(P, T, n-1)
      BY <1>1, RunShortens
    <3>3. IsRun(P, T, c-1)
      BY <3>1, <3>2
    <3> QED
      BY <1>3, <3>1, <3>3
  <2> QED
    BY <2>1, <2>2
<1>6. ASSUME NEW k \in c+1 .. m PROVE ~IsRun(Q, T, k)
  <2>1. k \in 2..m /\ k - 1 \in n+1 .. L
    BY <1>1, <1>2, <1>4
  <2> QED
    BY <1>1, <1>3, <2>1
<1> QED
  BY <1>4, <1>5, <1>6 DEF CountsRun, m, Q

\* A click count goes with the presses: the last of them is the one it remembers, and
\* if that is of a button with a number and the count has not been reset, the count is
\* the length of the run that the press ends.
FollowsRun(click, presses, time) ==
  /\ click.button # 0 => presses # <<>>
  /\ presses # <<>> => presses[Len(presses)] = [button |-> click.button, time |-> click.time]
  /\ click.button # 0 /\ click.count # 0 => CountsRun(presses, time, click.count)

\* The next press is counted right, if a count that has been reset is too late to go on.
LEMMA PressFollowsRun ==
  ASSUME NEW P \in Seq(TimedPress), NEW limit \in Nat \ {0}, Len(P) <= limit, NEW T \in Nat,
         NEW click \in [count : Nat, time : Nat, button : Nat], FollowsRun(click, P, T),
         NEW b \in Nat, NEW t \in Nat,
         click.button # 0 /\ click.count = 0 => t > click.time + T,
         NEW next,
         next = IF b = click.button /\ ~(t > click.time + T)
                THEN [count  |-> IF click.count < limit THEN click.count + 1 ELSE click.count,
                      time   |-> t,
                      button |-> b]
                ELSE [count |-> 1, time |-> t, button |-> b]
  PROVE  /\ FollowsRun(next, LastFew(Append(P, [button |-> b, time |-> t]), limit), T)
         /\ next.count # 0
<1> DEFINE p == [button |-> b, time |-> t]
           Q == LastFew(Append(P, p), limit)
<1>1. p \in TimedPress /\ p.button = b /\ p.time = t
  BY DEF TimedPress
<1>2. Q # <<>> /\ Q[Len(Q)] = p
  <2>1. Len(Q) \in 1..limit /\ Q[Len(Q)] = p
    BY <1>1, NewestPresses DEF IsNewest
  <2> QED
    BY <2>1
<1>3. next.button = b /\ next.time = t /\ next.count \in Nat \ {0}
  OBVIOUS
<1>4. ASSUME b # 0 PROVE CountsRun(Q, T, next.count)
  <2>1. CASE b = click.button /\ ~(t > click.time + T)
    <3>1. /\ P # <<>> /\ P[Len(P)] = [button |-> click.button, time |-> click.time]
          /\ CountsRun(P, T, click.count)
      BY <1>4, <2>1 DEF FollowsRun
    <3>2. p.button = P[Len(P)].button /\ p.time <= P[Len(P)].time + T
      BY <1>1, <2>1, <3>1
    <3>3. next.count = IF click.count < limit THEN click.count + 1 ELSE click.count
      BY <2>1
    <3> HIDE DEF p
    <3> QED
      BY <1>1, <3>1, <3>2, <3>3, RunGrows
  <2>2. CASE ~(b = click.button /\ ~(t > click.time + T))
    <3>1. P # <<>> => p.button # P[Len(P)].button \/ p.time > P[Len(P)].time + T
      BY <1>1, <2>2 DEF FollowsRun
    <3>2. next.count = 1
      BY <2>2
    <3> HIDE DEF p
    <3> QED
      BY <1>1, <3>1, <3>2, RunStarts
  <2> QED
    BY <2>1, <2>2
<1> QED
  BY <1>2, <1>3, <1>4 DEF FollowsRun

\* What such a count says is the number that the click should have.
LEMMA CountIsRunLength ==
  ASSUME NEW P \in Seq(TimedPress), NEW T \in Nat, NEW click, FollowsRun(click, P, T),
         click.button # 0, click.count # 0
  PROVE  click.count = RunLength(P, T)
BY RunLengthIs DEF FollowsRun

\* The presses of a hook, with its own bounds, are presses.
LEMMA PressesAreTimed ==
  ASSUME NEW S \in SUBSET TimedPress, NEW P \in Seq(S)
  PROVE  P \in Seq(TimedPress)
OBVIOUS
=============================================================================
