-------------------------- MODULE RtspPuller_proofs --------------------------
(* Types, the backoff and the retry bound of RtspPuller, for all timeouts. *)
EXTENDS RtspPuller, WellFoundedInduction, TLAPS

\* The sum that bounds an outage is reached in two legs: the keepalive period while
\* the dead session is read, and the backoff behind it.
OutageByPhase ==
    /\ pc = "receiving" => outage = 0
    /\ pc = "backing_off" => outage <= KEEPALIVE_SECS
    /\ pc = "connecting" => outage <= KEEPALIVE_SECS + MAX_BACKOFF

IInv == TypeOK /\ OutageByPhase

\* Every step keeps the types; the backoff stays between its bounds.
LEMMA TypeStep == TypeOK /\ [Next]_vars => TypeOK'
<1> SUFFICES ASSUME TypeOK, [Next]_vars PROVE TypeOK'
  OBVIOUS
<1> USE PullerTimes DEF TypeOK, AtMost, Sessions, Codecs, task, world, clock
<1>1. CASE ReceiveRtp \/ ReceiveRtcp
  BY <1>1 DEF ReceiveRtp, ReceiveRtcp
<1>2. CASE Fail \/ Drop
  BY <1>2 DEF Fail, Drop
<1>3. CASE KeepaliveElapses
  BY <1>3 DEF KeepaliveElapses, Pass
<1>4. CASE BackOff
  BY <1>4 DEF BackOff, Pass
<1>5. CASE ReconnectOk \/ ReconnectFails
  BY <1>5 DEF ReconnectOk, ReconnectFails
<1>6. CASE Environment
  BY <1>6 DEF Environment, SessionBreaks, SessionHeals, CameraGoesDown, CameraComesUp, Change
<1>7. CASE UNCHANGED vars
  BY <1>7 DEF vars
<1> QED
  BY <1>1, <1>2, <1>3, <1>4, <1>5, <1>6, <1>7 DEF Next

\* Every leg of an outage keeps to its bound.
LEMMA OutageStep == IInv /\ [Next]_vars => OutageByPhase'
<1> SUFFICES ASSUME IInv, [Next]_vars PROVE OutageByPhase'
  OBVIOUS
<1> USE PullerTimes DEF IInv, TypeOK, OutageByPhase, AtMost, task, world, clock
<1>1. CASE ReceiveRtp \/ ReceiveRtcp
  BY <1>1 DEF ReceiveRtp, ReceiveRtcp
<1>2. CASE Fail \/ Drop
  BY <1>2 DEF Fail, Drop
<1>3. CASE KeepaliveElapses
  BY <1>3 DEF KeepaliveElapses, Pass
<1>4. CASE BackOff
  BY <1>4 DEF BackOff, Pass
<1>5. CASE ReconnectOk \/ ReconnectFails
  BY <1>5 DEF ReconnectOk, ReconnectFails
<1>6. CASE Environment
  BY <1>6 DEF Environment, SessionBreaks, SessionHeals, CameraGoesDown, CameraComesUp, Change
<1>7. CASE UNCHANGED vars
  BY <1>7 DEF vars
<1> QED
  BY <1>1, <1>2, <1>3, <1>4, <1>5, <1>6, <1>7 DEF Next

\* The inductive invariant: the types, and what each phase allows an outage to last.
THEOREM Invariance == Spec => []IInv
<1>1. Init => IInv
  BY PullerTimes DEF Init, IInv, TypeOK, OutageByPhase, Sessions, Codecs
<1>2. IInv /\ [Next]_vars => IInv'
  BY TypeStep, OutageStep DEF IInv
<1> QED
  BY <1>1, <1>2, PTL DEF Spec

\* Every variable keeps its type; in particular the backoff never leaves its range.
THEOREM TypeCorrect == Spec => []TypeOK
BY Invariance, PTL DEF IInv

\* The camera is tried again within one keepalive period and one capped backoff.
THEOREM RetryBound == Spec => []RetryIsBounded
<1>1. IInv => RetryIsBounded
  BY DEF IInv, OutageByPhase, RetryIsBounded
<1> QED
  BY Invariance, <1>1, PTL

-----------------------------------------------------------------------------
(* The backoff *)

\* The order of the natural numbers as a relation.
Less == OpToRel(<, Nat)

\* A set that has 0 and, with a number below n, the next one, reaches n.
LEMMA Reaches ==
  ASSUME NEW n \in Nat, NEW T, 0 \in T, \A i \in 0 .. n - 1 : i \in T => i + 1 \in T
  PROVE  \A i \in 0 .. n : i \in T
<1> DEFINE Missed == {i \in 0 .. n : i \notin T}
<1> SUFFICES ASSUME Missed # {} PROVE FALSE
  OBVIOUS
<1>0. IsWellFoundedOn(Less, Nat)
  BY NatLessThanWellFounded DEF Less
<1>1. Missed \subseteq Nat
  OBVIOUS
<1>2. PICK m \in Missed : \A j \in Missed : ~ (<<j, m>> \in Less)
  BY <1>0, <1>1, WFMin
<1>3. \A j \in Missed : ~ (j < m)
  BY <1>1, <1>2 DEF Less, OpToRel
<1>4. m # 0 /\ m \in 0 .. n
  BY <1>2
<1>5. m - 1 \in 0 .. n - 1 /\ m - 1 \notin Missed /\ m = (m - 1) + 1
  BY <1>3, <1>4
<1>6. m - 1 \in T
  BY <1>5
<1>7. m \in T
  BY <1>5, <1>6
<1> QED
  BY <1>2, <1>7

\* Doubled is what its definition says, and natural.
LEMMA DoubledIs ==
  /\ Doubled[0] = MIN_BACKOFF
  /\ \A n \in 1 .. MaxFailures + 1 : Doubled[n] = 2 * Doubled[n - 1]
  /\ \A n \in 0 .. MaxFailures + 1 : Doubled[n] \in Nat
<1> DEFINE IsDoubled(g, k) == g = [n \in 0 .. k |-> IF n = 0 THEN MIN_BACKOFF ELSE 2 * g[n - 1]]
           Known == {k \in Nat : \E g : IsDoubled(g, k)}
           last == MaxFailures + 1
<1>1. last \in Nat /\ MIN_BACKOFF \in Nat
  BY PullerTimes
<1>2. 0 \in Known
  <2>1. IsDoubled([n \in 0 .. 0 |-> MIN_BACKOFF], 0)
    OBVIOUS
  <2> QED
    BY <2>1
<1>3. ASSUME NEW k \in 0 .. last - 1, k \in Known PROVE k + 1 \in Known
  <2>1. PICK g : IsDoubled(g, k)
    BY <1>3
  <2> DEFINE h == [n \in 0 .. k + 1 |-> IF n = k + 1 THEN 2 * g[k] ELSE g[n]]
  <2>2. ASSUME NEW n \in 0 .. k + 1 PROVE h[n] = IF n = 0 THEN MIN_BACKOFF ELSE 2 * h[n - 1]
    <3>1. CASE n = k + 1
      <4>1. h[n] = 2 * g[k] /\ n - 1 = k /\ h[n - 1] = g[k] /\ n # 0
        BY <1>1, <3>1
      <4> QED
        BY <4>1
    <3>2. CASE n # k + 1
      <4>1. n \in 0 .. k /\ h[n] = g[n] /\ (n # 0 => h[n - 1] = g[n - 1])
        BY <1>1, <3>2
      <4>2. g[n] = IF n = 0 THEN MIN_BACKOFF ELSE 2 * g[n - 1]
        BY <2>1, <4>1
      <4> QED
        BY <4>1, <4>2
    <3> QED
      BY <3>1, <3>2
  <2> HIDE DEF h
  <2>3. IsDoubled(h, k + 1)
    <3>1. h = [n \in 0 .. k + 1 |-> h[n]]
      BY DEF h
    <3> QED
      BY <2>2, <3>1
  <2> QED
    BY <1>1, <2>3
<1>4. last \in Known
  <2> HIDE DEF Known
  <2> QED
    BY <1>1, <1>2, <1>3, Reaches
<1>5. IsDoubled(Doubled, last)
  BY <1>4 DEF Doubled
<1>6. \A n \in 0 .. last : Doubled[n] = IF n = 0 THEN MIN_BACKOFF ELSE 2 * Doubled[n - 1]
  BY <1>5
<1> DEFINE Natural == {n \in 0 .. last : Doubled[n] \in Nat}
<1>7. 0 \in Natural /\ \A n \in 0 .. last - 1 : n \in Natural => n + 1 \in Natural
  <2>1. 0 \in Natural
    BY <1>1, <1>6
  <2>2. ASSUME NEW n \in 0 .. last - 1, n \in Natural PROVE n + 1 \in Natural
    <3>1. n + 1 \in 0 .. last /\ n + 1 # 0 /\ (n + 1) - 1 = n /\ Doubled[n] \in Nat
      BY <1>1, <2>2
    <3>2. Doubled[n + 1] = 2 * Doubled[n]
      BY <1>6, <3>1
    <3> QED
      BY <3>1, <3>2
  <2> QED
    BY <2>1, <2>2
<1>8. \A n \in 0 .. last : n \in Natural
  <2> HIDE DEF Natural
  <2> QED
    BY <1>1, <1>7, Reaches
<1> QED
  BY <1>1, <1>6, <1>8

\* Doubling and capping again gives the next power, capped.
LEMMA CappedDouble ==
  ASSUME NEW d \in Nat, NEW m \in Nat
  PROVE  AtMost(2 * AtMost(d, m), m) = AtMost(2 * d, m)
BY DEF AtMost

\* A failed attempt is counted where its backoff was doubled before.
LEMMA BackoffStep == TypeOK /\ BackoffIsExponential /\ [Next]_vars => BackoffIsExponential'
<1> SUFFICES ASSUME TypeOK, BackoffIsExponential, [Next]_vars PROVE BackoffIsExponential'
  OBVIOUS
<1> USE PullerTimes DEF BackoffIsExponential, TypeOK, task, world, clock
<1>1. CASE ReceiveRtp \/ ReceiveRtcp
  BY <1>1 DEF ReceiveRtp, ReceiveRtcp
<1>2. CASE Fail \/ Drop
  BY <1>2 DEF Fail, Drop
<1>3. CASE KeepaliveElapses
  BY <1>3 DEF KeepaliveElapses
<1>4. CASE BackOff
  <2>1. /\ pc = "backing_off" /\ pc' = "connecting" /\ failures' = failures
        /\ backoff' = AtMost(2 * backoff, MAX_BACKOFF)
    BY <1>4 DEF BackOff
  <2>2. failures \in 0 .. MaxFailures /\ backoff = AtMost(Doubled[failures], MAX_BACKOFF)
    BY <2>1
  <2>3. Doubled[failures] \in Nat /\ Doubled[failures + 1] = 2 * Doubled[failures]
    BY <2>2, DoubledIs
  <2> QED
    BY <2>1, <2>2, <2>3, CappedDouble
<1>5. CASE ReconnectOk
  <2>1. pc' = "receiving" /\ failures' = 0 /\ backoff' = MIN_BACKOFF
    BY <1>5 DEF ReconnectOk
  <2> QED
    BY <2>1, DoubledIs DEF AtMost
<1>6. CASE ReconnectFails
  <2>1. pc = "connecting" /\ pc' = "receiving" /\ failures' = failures + 1 /\ backoff' = backoff
    BY <1>6 DEF ReconnectFails
  <2> QED
    BY <2>1
<1>7. CASE Environment
  <2>1. UNCHANGED <<pc, backoff, failures>>
    BY <1>7 DEF Environment, SessionBreaks, SessionHeals, CameraGoesDown, CameraComesUp
  <2> QED
    BY <2>1
<1>8. CASE UNCHANGED vars
  BY <1>8 DEF vars
<1> QED
  BY <1>1, <1>2, <1>3, <1>4, <1>5, <1>6, <1>7, <1>8 DEF Next

\* Whatever camera and network do, the backoff is MIN_BACKOFF doubled once for every
\* attempt since the last success, and capped.
THEOREM Backoff == Spec => []BackoffIsExponential
<1>1. Init => BackoffIsExponential
  BY PullerTimes, DoubledIs DEF Init, BackoffIsExponential, AtMost
<1> QED
  BY <1>1, TypeCorrect, BackoffStep, PTL DEF Spec

=============================================================================
