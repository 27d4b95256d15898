------------------------------- MODULE Recursion -------------------------------
(***************************************************************************)
(* What the proofs about folds and recursive functions rest on.  That such *)
(* a function exists, and that it keeps what its steps keep, is proved     *)
(* from sets of numbers that have a least element.  A step is a function,  *)
(* G, since a lemma cannot have an operator as a parameter.                *)
(***************************************************************************)
EXTENDS Integers, SequencesExt, WellFoundedInduction, SequenceTheorems, TLAPS

\* The order of the natural numbers as a relation.
Less == OpToRel(<, Nat)

\* Any nonempty set of natural numbers has a least one.
LEMMA Least ==
  ASSUME NEW I \in SUBSET Nat, I # {}
  PROVE  \E i \in I : \A j \in I : i <= j
<1>1. IsWellFoundedOn(Less, Nat)
  BY NatLessThanWellFounded DEF Less
<1>2. PICK i \in I : \A j \in I : ~ (<<j, i>> \in Less)
  BY <1>1, WFMin
<1>3. \A j \in I : ~ (j < i)
  BY <1>2 DEF Less, OpToRel
<1> QED
  BY <1>2, <1>3

\* The least of some numbers.
LEMMA LeastIsMin ==
  ASSUME NEW I \in SUBSET Nat, I # {}
  PROVE  Min(I) \in I /\ \A j \in I : Min(I) <= j
<1>1. PICK i \in I : \A j \in I : i <= j
  BY Least
<1> QED
  BY <1>1 DEF Min

\* Induction, for a set instead of a formula.
LEMMA Upward ==
  ASSUME NEW I, 0 \in I, \A n \in Nat : n \in I => n + 1 \in I
  PROVE  \A n \in Nat : n \in I
<1> SUFFICES ASSUME Nat \ I # {} PROVE FALSE
  OBVIOUS
<1>1. PICK i \in Nat \ I : \A j \in Nat \ I : i <= j
  <2>1. Nat \ I \in SUBSET Nat
    OBVIOUS
  <2> QED
    BY <2>1, Least
<1>2. i # 0 /\ i - 1 \in Nat
  BY <1>1
<1>3. i - 1 \in I
  BY <1>1, <1>2
<1>4. (i - 1) + 1 \in I
  BY <1>2, <1>3
<1>5. (i - 1) + 1 = i
  BY <1>2
<1> QED
  BY <1>1, <1>4, <1>5

\* Induction from a bound downwards.
LEMMA Downward ==
  ASSUME NEW M \in Nat, NEW R,
         \A t \in 0 .. M : (\A u \in 0 .. M : u > t => u \in R) => t \in R
  PROVE  \A t \in 0 .. M : t \in R
<1> DEFINE Bad == {k \in Nat : k <= M /\ M - k \notin R}
<1> SUFFICES ASSUME NEW t \in 0 .. M, t \notin R PROVE FALSE
  OBVIOUS
<1>1. M - t \in Bad
  <2>1. M - t \in Nat /\ M - t <= M /\ M - (M - t) = t
    OBVIOUS
  <2> QED
    BY <2>1
<1>2. PICK k \in Bad : \A j \in Bad : k <= j
  <2>1. Bad \in SUBSET Nat /\ Bad # {}
    BY <1>1
  <2> HIDE DEF Bad
  <2> QED
    BY <2>1, Least
<1>3. k \in Nat /\ k <= M /\ M - k \in 0 .. M /\ M - k \notin R
  OBVIOUS
<1>4. PICK u \in 0 .. M : u > M - k /\ u \notin R
  BY <1>3
<1>5. M - u \in Bad /\ M - u < k
  <2>1. M - u \in Nat /\ M - u <= M /\ M - (M - u) = u /\ M - u < k
    BY <1>3, <1>4
  <2> QED
    BY <1>4, <2>1
<1>6. k <= M - u
  BY <1>2, <1>5
<1> QED
  BY <1>3, <1>4, <1>5, <1>6

\* The greatest of some positions.
LEMMA Greatest ==
  ASSUME NEW n \in Nat, NEW S \in SUBSET (1 .. n), S # {}
  PROVE  Max(S) \in S /\ \A j \in S : j <= Max(S)
<1> DEFINE D == {k \in Nat : k <= n /\ n - k \in S}
<1>1. PICK j \in S : TRUE
  OBVIOUS
<1>2. n - j \in D
  <2>1. n - j \in Nat /\ n - j <= n /\ n - (n - j) = j
    BY <1>1
  <2> QED
    BY <1>1, <2>1
<1>3. PICK k \in D : \A i \in D : k <= i
  <2>1. D \in SUBSET Nat /\ D # {}
    BY <1>2
  <2> HIDE DEF D
  <2> QED
    BY <2>1, Least
<1>4. n - k \in S
  OBVIOUS
<1>5. ASSUME NEW i \in S PROVE n - k >= i
  <2>1. n - i \in Nat /\ n - i <= n /\ n - (n - i) = i
    BY <1>5
  <2>2. n - i \in D
    BY <1>5, <2>1
  <2> QED
    BY <1>3, <1>4, <1>5, <2>1, <2>2
<1>6. Max(S) \in S /\ \A i \in S : Max(S) >= i
  BY <1>4, <1>5 DEF Max
<1> QED
  BY <1>6

\* The greatest of the first positions, and what is left without it.
LEMMA GreatestOfFirst ==
  ASSUME NEW n \in Nat
  PROVE  /\ Max(1 .. n + 1) = n + 1
         /\ (1 .. n + 1) \ {n + 1} = 1 .. n
         /\ 1 .. n + 1 # {}
<1> DEFINE S == 1 .. n + 1
<1>1. n + 1 \in S /\ S # {} /\ S \in SUBSET (1 .. n + 1)
  OBVIOUS
<1>2. Max(S) \in S /\ \A j \in S : j <= Max(S)
  <2>1. n + 1 \in Nat
    OBVIOUS
  <2> HIDE DEF S
  <2> QED
    BY <1>1, <2>1, Greatest
<1> QED
  BY <1>1, <1>2

\* A recursion over sets of numbers that takes the greatest last, as folds do.
Folded(h, X, base, N, G) ==
    /\ h \in [SUBSET (1 .. N) -> X]
    /\ \A S \in SUBSET (1 .. N) : h[S] = IF S = {} THEN base ELSE G[<<h[S \ {Max(S)}], Max(S)>>]

\* It exists, for every step that stays in X.
LEMMA FoldExists ==
  ASSUME NEW X, NEW base \in X, NEW N \in Nat, NEW G \in [X \X (1 .. N) -> X]
  PROVE  \E h : Folded(h, X, base, N, G)
<1> DEFINE Works(h, n) ==
             \A S \in SUBSET (1 .. n) : h[S] = IF S = {} THEN base ELSE G[<<h[S \ {Max(S)}], Max(S)>>]
           Has(n) == \E h \in [SUBSET (1 .. n) -> X] : Works(h, n)
           I == {n \in Nat : n <= N => Has(n)}
<1>1. 0 \in I
  <2> DEFINE h == [S \in SUBSET (1 .. 0) |-> base]
  <2>1. h \in [SUBSET (1 .. 0) -> X]
    OBVIOUS
  <2>2. \A S \in SUBSET (1 .. 0) : S = {} /\ h[S] = base
    OBVIOUS
  <2>3. Works(h, 0)
    BY <2>2
  <2> HIDE DEF h, Works
  <2> QED
    BY <2>1, <2>3
<1>2. ASSUME NEW n \in Nat, n \in I PROVE n + 1 \in I
  <2> SUFFICES ASSUME n + 1 <= N PROVE Has(n + 1)
    <3> HIDE DEF Has
    <3> QED
      OBVIOUS
  <2>0. n + 1 \in Nat /\ n + 1 \in 1 .. N /\ n <= N
    OBVIOUS
  <2>1. PICK g \in [SUBSET (1 .. n) -> X] : Works(g, n)
    <3>1. Has(n)
      <4> HIDE DEF Has
      <4> QED
        BY <1>2, <2>0
    <3> QED
      BY <3>1
  <2> DEFINE less(S) == S \ {n + 1}
             h == [S \in SUBSET (1 .. n + 1) |->
                     IF n + 1 \in S THEN G[<<g[less(S)], n + 1>>] ELSE g[S]]
  <2>2. \A S \in SUBSET (1 .. n + 1) :
          /\ less(S) \in SUBSET (1 .. n)
          /\ n + 1 \notin S => S \in SUBSET (1 .. n)
    OBVIOUS
  <2>3. n + 1 \in 1 .. N
    OBVIOUS
  <2>4. h \in [SUBSET (1 .. n + 1) -> X]
    <3>1. ASSUME NEW S \in SUBSET (1 .. n + 1)
          PROVE  (IF n + 1 \in S THEN G[<<g[less(S)], n + 1>>] ELSE g[S]) \in X
      <4>1. CASE n + 1 \in S
        <5>1. g[less(S)] \in X
          BY <2>1, <2>2
        <5> QED
          BY <2>3, <4>1, <5>1
      <4>2. CASE n + 1 \notin S
        BY <2>1, <2>2, <4>2
      <4> QED
        BY <4>1, <4>2
    <3> QED
      BY <3>1
  <2>5. ASSUME NEW S \in SUBSET (1 .. n + 1)
        PROVE  h[S] = IF S = {} THEN base ELSE G[<<h[S \ {Max(S)}], Max(S)>>]
    <3>1. CASE S = {}
      <4>1. S \in SUBSET (1 .. n) /\ n + 1 \notin S
        BY <3>1
      <4>2. g[S] = base
        BY <2>1, <3>1, <4>1
      <4> QED
        BY <3>1, <4>1, <4>2
    <3>2. CASE n + 1 \in S
      <4>1. Max(S) \in S /\ \A j \in S : j <= Max(S)
        <5>1. S # {}
          BY <3>2
        <5> QED
          BY <2>0, <5>1, Greatest
      <4>2. Max(S) = n + 1
        <5>1. Max(S) \in 1 .. n + 1 /\ n + 1 <= Max(S)
          BY <3>2, <4>1
        <5> QED
          BY <5>1
      <4>3. less(S) \in SUBSET (1 .. n + 1) /\ n + 1 \notin less(S)
        BY <2>2
      <4>4. h[less(S)] = g[less(S)]
        BY <4>3
      <4> QED
        BY <3>2, <4>2, <4>4
    <3>3. CASE S # {} /\ n + 1 \notin S
      <4>1. S \in SUBSET (1 .. n)
        BY <2>2, <3>3
      <4>2. Max(S) \in S
        BY <3>3, <4>1, Greatest
      <4>3. S \ {Max(S)} \in SUBSET (1 .. n) /\ n + 1 \notin S \ {Max(S)}
        BY <3>3, <4>1
      <4>4. S \ {Max(S)} \in SUBSET (1 .. n + 1)
        OBVIOUS
      <4>5. h[S \ {Max(S)}] = g[S \ {Max(S)}] /\ h[S] = g[S]
        BY <3>3, <4>3, <4>4
      <4>6. g[S] = G[<<g[S \ {Max(S)}], Max(S)>>]
        BY <2>1, <3>3, <4>1
      <4> QED
        BY <3>3, <4>5, <4>6
    <3> QED
      BY <3>1, <3>2, <3>3
  <2>6. Works(h, n + 1)
    BY <2>5
  <2> HIDE DEF h, Works
  <2> QED
    BY <2>4, <2>6
<1>3. N \in I
  <2> HIDE DEF I
  <2> QED
    BY <1>1, <1>2, Upward
<1>4. Has(N)
  <2> HIDE DEF Has
  <2> QED
    BY <1>3
<1> QED
  BY <1>4 DEF Folded

\* What every step keeps, holds from where it once held.
LEMMA StaysFrom ==
  ASSUME NEW X, NEW N \in Nat, NEW m \in 0 .. N, NEW w, w[m] \in X,
         \A n \in m .. N - 1 : w[n] \in X => w[n + 1] \in X
  PROVE  \A n \in m .. N : w[n] \in X
<1> DEFINE I == {k \in Nat : m + k <= N => w[m + k] \in X}
<1>1. m \in Nat /\ m + 0 = m
  OBVIOUS
<1>2. 0 \in I
  BY <1>1
<1>3. ASSUME NEW k \in Nat, k \in I PROVE k + 1 \in I
  <2> SUFFICES ASSUME m + (k + 1) <= N PROVE w[m + (k + 1)] \in X
    OBVIOUS
  <2>1. m + k \in m .. N - 1 /\ m + k <= N /\ (m + k) + 1 = m + (k + 1)
    BY <1>1
  <2>2. w[m + k] \in X
    BY <1>3, <2>1
  <2>3. w[(m + k) + 1] \in X
    BY <2>1, <2>2
  <2> QED
    BY <2>1, <2>3
<1>4. \A k \in Nat : k \in I
  <2> HIDE DEF I
  <2> QED
    BY <1>2, <1>3, Upward
<1> SUFFICES ASSUME NEW n \in m .. N PROVE w[n] \in X
  OBVIOUS
<1>5. n - m \in Nat /\ m + (n - m) = n /\ n <= N
  BY <1>1
<1>6. n - m \in I
  BY <1>4, <1>5
<1> QED
  BY <1>5, <1>6

\* What every step keeps, a fold keeps all the way.
LEMMA FoldStaysIn ==
  ASSUME NEW X, NEW N \in Nat, NEW h, h[{}] \in X,
         \A n \in 0 .. N - 1 : h[1 .. n] \in X => h[1 .. n + 1] \in X
  PROVE  \A n \in 0 .. N : h[1 .. n] \in X
<1> DEFINE I == {n \in Nat : n <= N => h[1 .. n] \in X}
<1>1. 0 \in I
  <2>1. 1 .. 0 = {}
    OBVIOUS
  <2> QED
    BY <2>1
<1>2. ASSUME NEW n \in Nat, n \in I PROVE n + 1 \in I
  BY <1>2
<1>3. \A n \in Nat : n \in I
  <2> HIDE DEF I
  <2> QED
    BY <1>1, <1>2, Upward
<1> QED
  BY <1>3

\* So it does to its end.
LEMMA FoldKeeps ==
  ASSUME NEW X, NEW N \in Nat, NEW h, h[{}] \in X,
         \A n \in 0 .. N - 1 : h[1 .. n] \in X => h[1 .. n + 1] \in X
  PROVE  h[1 .. N] \in X
<1>1. \A n \in 0 .. N : h[1 .. n] \in X
  BY FoldStaysIn
<1> QED
  BY <1>1

\* A recursion over the numbers up to N, as FlattenSeq's.
Counted(h, X, N, first, G) ==
    /\ h \in [1 .. N -> X]
    /\ \A i \in 1 .. N : h[i] = IF i = 1 THEN first ELSE G[<<h[i - 1], i>>]

\* It exists.
LEMMA CountingExists ==
  ASSUME NEW X, NEW N \in Nat, NEW first \in X, NEW G \in [X \X (1 .. N) -> X]
  PROVE  \E h : Counted(h, X, N, first, G)
<1> DEFINE Works(h, n) == \A i \in 1 .. n : h[i] = IF i = 1 THEN first ELSE G[<<h[i - 1], i>>]
           Has(n) == \E h \in [1 .. n -> X] : Works(h, n)
           I == {n \in Nat : n <= N => Has(n)}
<1>1. 0 \in I
  <2>1. Works([i \in 1 .. 0 |-> first], 0) /\ [i \in 1 .. 0 |-> first] \in [1 .. 0 -> X]
    OBVIOUS
  <2>2. Has(0)
    BY <2>1
  <2> HIDE DEF Has
  <2> QED
    BY <2>2
<1>2. ASSUME NEW n \in Nat, n \in I PROVE n + 1 \in I
  <2> SUFFICES ASSUME n + 1 <= N PROVE Has(n + 1)
    <3> HIDE DEF Has
    <3> QED
      OBVIOUS
  <2>1. n + 1 \in 1 .. N /\ n <= N
    OBVIOUS
  <2>2. PICK g \in [1 .. n -> X] : Works(g, n)
    <3>1. Has(n)
      <4> HIDE DEF Has
      <4> QED
        BY <1>2, <2>1
    <3> QED
      BY <3>1
  <2> DEFINE last == IF n + 1 = 1 THEN first ELSE G[<<g[n], n + 1>>]
             h == [i \in 1 .. n + 1 |-> IF i = n + 1 THEN last ELSE g[i]]
  <2>3. last \in X
    <3>1. n # 0 => g[n] \in X
      BY <2>2
    <3> QED
      BY <2>1, <3>1
  <2> HIDE DEF last
  <2>4. h \in [1 .. n + 1 -> X]
    BY <2>2, <2>3
  <2>5. ASSUME NEW i \in 1 .. n + 1
        PROVE  h[i] = IF i = 1 THEN first ELSE G[<<h[i - 1], i>>]
    <3>1. CASE i = n + 1
      <4>1. i # 1 => (i - 1 = n /\ n \in 1 .. n /\ h[n] = g[n])
        BY <3>1
      <4>2. h[i] = last
        BY <3>1
      <4> QED
        BY <3>1, <4>1, <4>2 DEF last
    <3>2. CASE i # n + 1
      <4>1. i \in 1 .. n /\ h[i] = g[i]
        BY <3>2
      <4>2. i # 1 => (i - 1 \in 1 .. n /\ h[i - 1] = g[i - 1])
        BY <3>2
      <4>3. g[i] = IF i = 1 THEN first ELSE G[<<g[i - 1], i>>]
        BY <2>2, <4>1
      <4> QED
        BY <4>1, <4>2, <4>3
    <3> QED
      BY <3>1, <3>2
  <2>6. Works(h, n + 1)
    BY <2>5
  <2> HIDE DEF h, Works
  <2> QED
    BY <2>4, <2>6
<1>3. N \in I
  <2> HIDE DEF I
  <2> QED
    BY <1>1, <1>2, Upward
<1>4. Has(N)
  <2> HIDE DEF Has
  <2> QED
    BY <1>3
<1> QED
  BY <1>4 DEF Counted

\* A recursion over the numbers from 0 to N.
Grown(h, X, base, N, G) ==
    /\ h \in [0 .. N -> X]
    /\ \A n \in 0 .. N : h[n] = IF n = 0 THEN base ELSE G[<<h[n - 1], n>>]

\* It exists: it is a fold over the first numbers.
LEMMA GrowthExists ==
  ASSUME NEW X, NEW base \in X, NEW N \in Nat, NEW G \in [X \X (1 .. N) -> X]
  PROVE  \E h : Grown(h, X, base, N, G)
<1>1. PICK g : Folded(g, X, base, N, G)
  BY FoldExists
<1>2. /\ g \in [SUBSET (1 .. N) -> X]
      /\ \A S \in SUBSET (1 .. N) : g[S] = IF S = {} THEN base ELSE G[<<g[S \ {Max(S)}], Max(S)>>]
  BY <1>1 DEF Folded
<1> DEFINE h == [n \in 0 .. N |-> g[1 .. n]]
<1>3. \A n \in 0 .. N : 1 .. n \in SUBSET (1 .. N)
  OBVIOUS
<1>4. h \in [0 .. N -> X]
  BY <1>2, <1>3
<1>5. ASSUME NEW n \in 0 .. N PROVE h[n] = IF n = 0 THEN base ELSE G[<<h[n - 1], n>>]
  <2>1. CASE n = 0
    <3>1. 1 .. n = {}
      BY <2>1
    <3>2. g[1 .. n] = base
      BY <1>2, <1>3, <3>1
    <3> QED
      BY <2>1, <3>2
  <2>2. CASE n # 0
    <3>1. n - 1 \in Nat /\ n - 1 \in 0 .. N /\ (n - 1) + 1 = n
      BY <2>2
    <3>2. Max(1 .. n) = n /\ (1 .. n) \ {n} = 1 .. n - 1 /\ 1 .. n # {}
      BY <3>1, GreatestOfFirst
    <3>3. g[1 .. n] = G[<<g[(1 .. n) \ {Max(1 .. n)}], Max(1 .. n)>>]
      BY <1>2, <1>3, <3>2
    <3>4. g[1 .. n] = G[<<g[1 .. n - 1], n>>]
      BY <3>2, <3>3
    <3>5. h[n] = g[1 .. n] /\ h[n - 1] = g[1 .. n - 1]
      BY <3>1
    <3> HIDE DEF h
    <3> QED
      BY <2>2, <3>4, <3>5
  <2> QED
    BY <2>1, <2>2
<1> HIDE DEF h
<1>6. Grown(h, X, base, N, G)
  BY <1>4, <1>5 DEF Grown
<1> QED
  BY <1>6

\* A recursion to greater numbers that ends somewhere: where it does, base has its value, and
\* elsewhere it depends on the value further up.
Ascends(h, X, ends, base, up, G) ==
    /\ h \in [Nat -> X]
    /\ \A t \in Nat : h[t] = IF t \in ends THEN base[t] ELSE G[<<t, h[up[t]]>>]

EndsBelow(M, ends, up) == \A t \in Nat : t \notin ends => t < M /\ t < up[t]

\* It exists if it ends from some number on at the latest.
LEMMA AscentExists ==
  ASSUME NEW X, NEW M \in Nat, NEW ends \in SUBSET Nat, NEW base \in [Nat -> X],
         NEW up \in [Nat -> Nat], NEW G \in [Nat \X X -> X],
         EndsBelow(M, ends, up)
  PROVE  \E h : Ascends(h, X, ends, base, up, G)
<1> USE DEF EndsBelow
<1> DEFINE Holds(h, t) == h[t] = IF t \in ends THEN base[t] ELSE G[<<t, h[up[t]]>>]
           Has(k) == \E h \in [Nat -> X] : \A t \in Nat : t + k >= M => Holds(h, t)
           I == {k \in Nat : Has(k)}
<1>1. 0 \in I
  <2>1. \A t \in Nat : t + 0 >= M => Holds(base, t)
    OBVIOUS
  <2>2. Has(0)
    BY <2>1
  <2> HIDE DEF Has
  <2> QED
    BY <2>2
<1>2. ASSUME NEW k \in Nat, k \in I PROVE k + 1 \in I
  <2>1. PICK g \in [Nat -> X] : \A t \in Nat : t + k >= M => Holds(g, t)
    <3>1. Has(k)
      <4> HIDE DEF Has
      <4> QED
        BY <1>2
    <3> QED
      BY <3>1
  <2>2. CASE k + 1 > M
    <3>1. \A t \in Nat : t + (k + 1) >= M => t + k >= M
      BY <2>2
    <3>2. Has(k + 1)
      <4> HIDE DEF Holds
      <4> QED
        BY <2>1, <3>1
    <3> HIDE DEF Has
    <3> QED
      BY <3>2
  <2>3. CASE k + 1 <= M
    <3> DEFINE m == M - (k + 1)
               value == IF m \in ends THEN base[m] ELSE G[<<m, g[up[m]]>>]
               h == [t \in Nat |-> IF t = m THEN value ELSE g[t]]
    <3>1. m \in Nat /\ m + (k + 1) = M
      BY <2>3
    <3> HIDE DEF m
    <3>2. value \in X
      BY <3>1
    <3> HIDE DEF value
    <3>3. h \in [Nat -> X]
      BY <3>2
    <3>4. ASSUME NEW t \in Nat, t + (k + 1) >= M PROVE Holds(h, t)
      <4>1. t >= m
        BY <3>1, <3>4
      <4>2. t \notin ends => up[t] # m /\ up[t] \in Nat
        BY <3>1, <4>1
      <4>3. t \notin ends => h[up[t]] = g[up[t]]
        BY <4>2
      <4>4. CASE t = m
        <5>1. h[t] = value
          BY <4>4
        <5> HIDE DEF h
        <5> QED
          BY <4>3, <4>4, <5>1 DEF value
      <4>5. CASE t # m
        <5>1. t + k >= M
          BY <3>1, <4>1, <4>5
        <5>2. Holds(g, t)
          BY <2>1, <5>1
        <5>3. h[t] = g[t]
          BY <4>5
        <5> HIDE DEF h
        <5> QED
          BY <4>3, <5>2, <5>3
      <4> QED
        BY <4>4, <4>5
    <3>5. Has(k + 1)
      <4> HIDE DEF h, Holds
      <4> QED
        BY <3>3, <3>4
    <3> HIDE DEF Has
    <3> QED
      BY <3>5
  <2> QED
    BY <2>2, <2>3
<1>3. M \in I
  <2> HIDE DEF I
  <2> QED
    BY <1>1, <1>2, Upward
<1>4. PICK h \in [Nat -> X] : \A t \in Nat : t + M >= M => Holds(h, t)
  <2>1. Has(M)
    <3> HIDE DEF Has
    <3> QED
      BY <1>3
  <2> QED
    BY <2>1
<1>5. \A t \in Nat : t + M >= M
  OBVIOUS
<1>6. \A t \in Nat : Holds(h, t)
  <2> HIDE DEF Holds
  <2> QED
    BY <1>4, <1>5
<1> QED
  BY <1>6 DEF Ascends

\* A sequence of sequences, put behind each other.
Flattened(h, ss, P) ==
    /\ h \in [1 .. Len(ss) -> Seq(P)]
    /\ \A i \in 1 .. Len(ss) : h[i] = IF i = 1 THEN ss[i] ELSE h[i - 1] \o ss[i]

\* Flattening joins the sequences one after the other.
LEMMA FlattenIs ==
  ASSUME NEW P, NEW ss \in Seq(Seq(P)), Len(ss) # 0
  PROVE  \E h : Flattened(h, ss, P) /\ FlattenSeq(ss) = h[Len(ss)]
<1> DEFINE N == Len(ss)
           X == Seq(P)
           Runs(h) == h = [i \in 1 .. N |-> IF i = 1 THEN ss[i] ELSE h[i - 1] \o ss[i]]
           h == CHOOSE h : Runs(h)
           G == [y \in X \X (1 .. N) |-> y[1] \o ss[y[2]]]
<1>1. N \in Nat /\ 1 \in 1 .. N /\ N \in 1 .. N /\ \A i \in 1 .. N : ss[i] \in X
  OBVIOUS
<1>2. FlattenSeq(ss) = h[N]
  BY DEF FlattenSeq
<1>3. G \in [X \X (1 .. N) -> X]
  <2>1. \A y \in X \X (1 .. N) : y[1] \o ss[y[2]] \in X
    <3> SUFFICES ASSUME NEW y \in X \X (1 .. N) PROVE y[1] \o ss[y[2]] \in X
      OBVIOUS
    <3>1. y[1] \in Seq(P) /\ ss[y[2]] \in Seq(P)
      BY <1>1
    <3> QED
      BY <3>1, ConcatProperties
  <2> QED
    BY <2>1
<1>p. PICK g : Counted(g, X, N, ss[1], G)
  <2>1. ss[1] \in X
    BY <1>1
  <2> HIDE DEF N, X, G
  <2> QED
    BY <1>1, <1>3, <2>1, CountingExists
<1>4. g \in [1 .. N -> X] /\ \A i \in 1 .. N : g[i] = IF i = 1 THEN ss[1] ELSE G[<<g[i - 1], i>>]
  <2> HIDE DEF N, X, G
  <2> QED
    BY <1>p DEF Counted
<1>5. ASSUME NEW i \in 1 .. N PROVE g[i] = IF i = 1 THEN ss[i] ELSE g[i - 1] \o ss[i]
  <2>1. CASE i = 1
    BY <1>4, <2>1
  <2>2. CASE i # 1
    <3>1. i - 1 \in 1 .. N
      BY <1>1, <2>2
    <3> DEFINE x == g[i - 1]
    <3>2. x \in X /\ g[i] = G[<<x, i>>]
      BY <1>4, <2>2, <3>1
    <3> HIDE DEF x
    <3>3. G[<<x, i>>] = x \o ss[i]
      BY <3>2
    <3> QED
      BY <2>2, <3>2, <3>3 DEF x
  <2> QED
    BY <2>1, <2>2
<1>6. Runs(g)
  <2>1. g = [i \in 1 .. N |-> g[i]]
    BY <1>4
  <2> HIDE DEF N, X
  <2> QED
    BY <1>5, <2>1
<1>7. Runs(h)
  <2> HIDE DEF Runs
  <2> QED
    BY <1>6
<1> HIDE DEF h
<1> DEFINE I == {n \in Nat : n + 1 <= N => h[n + 1] \in X}
<1>8. 0 \in I
  BY <1>1, <1>7
<1>9. ASSUME NEW n \in Nat, n \in I PROVE n + 1 \in I
  <2> SUFFICES ASSUME (n + 1) + 1 <= N PROVE h[(n + 1) + 1] \in X
    OBVIOUS
  <2>1. h[n + 1] \in X /\ (n + 1) + 1 \in 1 .. N /\ (n + 1) + 1 # 1 /\ ((n + 1) + 1) - 1 = n + 1
    BY <1>1, <1>9
  <2>2. h[(n + 1) + 1] = h[n + 1] \o ss[(n + 1) + 1]
    BY <1>7, <2>1
  <2> QED
    BY <1>1, <2>1, <2>2, ConcatProperties
<1>10. \A n \in Nat : n \in I
  <2> HIDE DEF I
  <2> QED
    BY <1>8, <1>9, Upward
<1>11. ASSUME NEW i \in 1 .. N PROVE h[i] \in X
  <2>1. i - 1 \in Nat /\ (i - 1) + 1 = i /\ i <= N
    BY <1>1
  <2>2. i - 1 \in I
    <3> HIDE DEF I
    <3> QED
      BY <1>10, <2>1
  <2> QED
    BY <2>1, <2>2
<1>12. h \in [1 .. N -> X]
  BY <1>7, <1>11
<1>13. \A i \in 1 .. N : h[i] = IF i = 1 THEN ss[i] ELSE h[i - 1] \o ss[i]
  BY <1>7
<1>14. Flattened(h, ss, P)
  BY <1>12, <1>13 DEF Flattened
<1> QED
  BY <1>2, <1>14

\* Two that begin alike are alike as far as they do.
LEMMA FlattenedAlike ==
  ASSUME NEW P, NEW Q, NEW ss, NEW tt, NEW g, NEW h, Flattened(g, ss, P), Flattened(h, tt, Q),
         Len(ss) \in Nat, Len(tt) \in Nat,
         NEW n \in Nat, n # 0, n <= Len(ss), n <= Len(tt), \A i \in 1 .. n : ss[i] = tt[i]
  PROVE  g[n] = h[n]
<1> DEFINE I == {k \in Nat : k + 1 <= n => g[k + 1] = h[k + 1]}
<1>1. /\ \A i \in 1 .. n : g[i] = IF i = 1 THEN ss[i] ELSE g[i - 1] \o ss[i]
      /\ \A i \in 1 .. n : h[i] = IF i = 1 THEN tt[i] ELSE h[i - 1] \o tt[i]
  <2>1. \A i \in 1 .. n : i \in 1 .. Len(ss) /\ i \in 1 .. Len(tt)
    OBVIOUS
  <2> QED
    BY <2>1 DEF Flattened
<1>2. 0 \in I
  BY <1>1
<1>3. ASSUME NEW k \in Nat, k \in I PROVE k + 1 \in I
  <2> SUFFICES ASSUME (k + 1) + 1 <= n PROVE g[(k + 1) + 1] = h[(k + 1) + 1]
    OBVIOUS
  <2>1. /\ g[k + 1] = h[k + 1] /\ (k + 1) + 1 \in 1 .. n
        /\ (k + 1) + 1 # 1 /\ ((k + 1) + 1) - 1 = k + 1
    BY <1>3
  <2>2. /\ g[(k + 1) + 1] = g[k + 1] \o ss[(k + 1) + 1]
        /\ h[(k + 1) + 1] = h[k + 1] \o tt[(k + 1) + 1]
    BY <1>1, <2>1
  <2> QED
    BY <2>1, <2>2
<1>4. n - 1 \in I
  <2>1. n - 1 \in Nat
    OBVIOUS
  <2> HIDE DEF I
  <2> QED
    BY <1>2, <1>3, <2>1, Upward
<1>5. (n - 1) + 1 = n
  OBVIOUS
<1> QED
  BY <1>4, <1>5

================================================================================
