--------------------------- MODULE Sequential_proofs ---------------------------
(***************************************************************************)
(* What the sequential algorithms are relied upon, for every input: the    *)
(* limit of CreateLimiter and the hint of its refusals, for every rate and *)
(* every resolution of time; the normalisation of answers of any length;   *)
(* the FLV header, for every output and every way the pipe cuts it; and    *)
(* DTLS fragments, for every message and every order they arrive in.       *)
(***************************************************************************)
EXTENDS CreateLimiter, AnswerSdp, FlvHeader, FragmentBuffer, Recursion, FiniteSetTheorems,
        FunctionTheorems, SequenceTheorems, TLAPS

--------------------------------------------------------------------------------
(* The creation limiter *)

\* The types the proof needs.
Types ==
    /\ rate \in Nat /\ now \in Nat /\ last_create \in Nat
    /\ refusal \in [at : Nat, retry : Int]

\* Until somebody gets through, the last refusal was computed from last_create as it
\* still is; somebody who gets through does so later than the refusal.
HintIsFresh ==
    /\ last_create <= now /\ refusal.at <= now
    /\ refusal # NoRefusal /\ last_create <= refusal.at =>
          /\ rate > 0
          /\ refusal.at - last_create < MinInterval
          /\ refusal.retry = RetryIn(refusal.at - last_create)

IInv == Types /\ HintIsFresh

\* The interval between two requests is a number of ticks.
LEMMA IntervalIsNat == ASSUME rate \in Nat, rate > 0 PROVE MinInterval \in Nat
BY LimiterConstants DEF MinInterval, MINUTE

\* Rounding up: one more than the quotient is enough.
LEMMA RoundedUp ==
    ASSUME NEW a \in Int, NEW b \in Nat \ {0}
    PROVE  a \div b \in Int /\ (a \div b + 1) * b > a
<1>1. a \div b \in Int /\ a % b \in 0 .. b - 1 /\ a = b * (a \div b) + (a % b)
  OBVIOUS
<1>2. (a \div b + 1) * b = b * (a \div b) + b
  BY <1>1
<1> QED
  BY <1>1, <1>2

\* A refusal tells its client to wait long enough.
LEMMA FreshHintSuffices == IInv => RetryHintSuffices
<1> SUFFICES ASSUME IInv, refusal # NoRefusal, last_create <= refusal.at,
                    now >= refusal.at + refusal.retry * SECOND
             PROVE  now - last_create >= MinInterval
  BY DEF RetryHintSuffices
<1> DEFINE left == MinInterval - (refusal.at - last_create)
<1>1. rate > 0 /\ refusal.retry = left \div SECOND + 1
  BY DEF IInv, HintIsFresh, RetryIn
<1>2. MinInterval \in Nat /\ left \in Int /\ SECOND \in Nat \ {0}
  BY <1>1, IntervalIsNat, LimiterConstants DEF IInv, Types
<1>3. left \div SECOND \in Int /\ (left \div SECOND + 1) * SECOND > left
  BY <1>2, RoundedUp
<1>4. refusal.retry * SECOND > left /\ refusal.retry * SECOND \in Int
  BY <1>1, <1>2, <1>3
<1> QED
  BY <1>2, <1>4 DEF IInv, Types

\* No step makes the hint stale without letting somebody through.
LEMMA Preserved == IInv /\ [Next]_vars => IInv'
<1> SUFFICES ASSUME IInv, [Next]_vars PROVE IInv'
  OBVIOUS
<1> USE LimiterConstants DEF IInv, Types, HintIsFresh, RetryIn, MinInterval
<1>1. CASE Tick
  BY <1>1 DEF Tick
<1>2. CASE Refuse
  <2>1. MinInterval \in Nat /\ now - last_create \in Nat
    BY <1>2, IntervalIsNat DEF Refuse
  <2>2. RetryIn(now - last_create) \in Int
    BY <2>1, RoundedUp DEF RetryIn
  <2>3. /\ refusal' = [at |-> now, retry |-> RetryIn(now - last_create)]
        /\ UNCHANGED <<rate, now, last_create>> /\ rate > 0 /\ now - last_create < MinInterval
    BY <1>2 DEF Refuse
  <2> QED
    BY <2>2, <2>3
<1>3. ASSUME NEW valid \in BOOLEAN, Admit(valid) PROVE IInv'
  <2>1. /\ UNCHANGED <<rate, now, refusal>>
        /\ last_create' = IF rate > 0 THEN now ELSE last_create
        /\ rate > 0 => now - last_create >= MinInterval
    BY <1>3 DEF Admit
  <2>2. CASE rate > 0
    <3>1. MinInterval \in Nat
      BY <2>2, IntervalIsNat
    <3> QED
      BY <2>1, <2>2, <3>1
  <2>3. CASE rate = 0
    BY <2>1, <2>3
  <2> QED
    BY <2>2, <2>3
<1>4. CASE UNCHANGED vars
  BY <1>4 DEF vars
<1> QED
  BY <1>1, <1>2, <1>3, <1>4 DEF Next

\* A client that waits as long as it was told is not refused for the same creation.
THEOREM RetryHint == Spec => []RetryHintSuffices
<1>1. Init => IInv
  BY LimiterConstants DEF Init, IInv, Types, HintIsFresh, NoRefusal
<1> QED
  BY <1>1, Preserved, FreshHintSuffices, PTL DEF Spec

-----------------------------------------------------------------------------
(* The rate *)

\* Whoever got through did so an interval behind everybody before, and last_create is
\* not behind the last of them.
Spaced ==
    /\ passed \subseteq Nat
    /\ rate > 0 =>
          /\ \A u \in passed : u <= last_create
          /\ \A u, v \in passed : u < v => v - u >= MinInterval

\* The interval is a minute's share, rounded down to a tick.
LEMMA ShareOfMinute ==
  ASSUME rate \in Nat, rate > 0
  PROVE  MinInterval \in Nat /\ MINUTE \in Nat /\ MINUTE - rate < rate * MinInterval
<1>1. MINUTE \in Nat
  BY LimiterConstants DEF MINUTE
<1>2. /\ MINUTE \div rate \in Nat /\ MINUTE % rate \in 0 .. rate - 1
      /\ MINUTE = rate * (MINUTE \div rate) + (MINUTE % rate)
  BY <1>1
<1> QED
  BY <1>1, <1>2 DEF MinInterval

\* Numbers that lie q apart have different quotients by q.
LEMMA ApartDiffer ==
  ASSUME NEW a \in Nat, NEW b \in Nat, NEW q \in Nat \ {0}, b - a >= q
  PROVE  a \div q # b \div q
<1> DEFINE x == a \div q
           y == b \div q
<1>1. x \in Nat /\ y \in Nat /\ a % q \in 0 .. q - 1 /\ b % q \in 0 .. q - 1
  OBVIOUS
<1>2. a = q * x + (a % q) /\ b = q * y + (b % q)
  OBVIOUS
<1> HIDE DEF x, y
<1>3. x = y => b - a = (b % q) - (a % q)
  BY <1>1, <1>2
<1>4. x # y
  BY <1>1, <1>3
<1> QED
  BY <1>4 DEF x, y

\* A number below n * q has a quotient by q below n.
LEMMA QuotientBelow ==
  ASSUME NEW a \in Nat, NEW q \in Nat \ {0}, NEW n \in Nat, a < n * q
  PROVE  a \div q \in 0 .. n - 1
<1> DEFINE x == a \div q
<1>1. x \in Nat /\ a % q \in 0 .. q - 1 /\ a = q * x + (a % q)
  OBVIOUS
<1> HIDE DEF x
<1>2. x >= n => q * x >= n * q
  BY <1>1
<1>3. q * x <= a /\ n * q \in Nat /\ q * x \in Nat
  BY <1>1
<1>4. x < n
  BY <1>1, <1>2, <1>3
<1> QED
  BY <1>1, <1>4 DEF x

\* Times that lie an interval apart: each has a share of the minute for itself.
LEMMA SpacedHolds == Types /\ Spaced => RateHolds
<1> SUFFICES ASSUME Types, Spaced, rate > 0, NEW t \in passed
             PROVE  Cardinality({u \in passed : t <= u /\ u <= t + MINUTE - rate}) <= rate
  BY DEF RateHolds
<1> DEFINE W == {u \in passed : t <= u /\ u <= t + MINUTE - rate}
           q == MinInterval
           share == [u \in W |-> (u - t) \div q]
<1>1. rate \in Nat \ {0} /\ q \in Nat /\ MINUTE \in Nat /\ MINUTE - rate < rate * q
  BY ShareOfMinute DEF Types
<1>2. t \in Nat /\ passed \subseteq Nat /\ \A u, v \in passed : u < v => v - u >= q
  BY DEF Spaced
<1> HIDE DEF q
<1>3. CASE q = 0
  <2>1. rate * q = 0
    BY <1>1, <1>3
  <2>2. ASSUME NEW u \in W PROVE FALSE
    <3>1. u \in Nat /\ t <= u /\ u <= t + MINUTE - rate
      BY <1>2
    <3> QED
      BY <1>1, <1>2, <2>1, <3>1
  <2>3. W = {}
    BY <2>2
  <2> QED
    BY <1>1, <2>3, FS_EmptySet
<1>4. CASE q # 0
  <2>1. ASSUME NEW u \in W PROVE u - t \in Nat /\ u - t < rate * q /\ share[u] \in 0 .. rate - 1
    <3>1. u - t \in Nat /\ u - t < rate * q
      BY <1>1, <1>2
    <3> QED
      BY <1>1, <1>4, <3>1, QuotientBelow
  <2>2. ASSUME NEW u \in W, NEW v \in W, u < v PROVE share[u] # share[v]
    <3>1. u - t \in Nat /\ v - t \in Nat /\ (v - t) - (u - t) >= q
      BY <1>2, <2>1, <2>2
    <3> QED
      BY <1>1, <1>4, <3>1, ApartDiffer
  <2>3. share \in Injection(W, 0 .. rate - 1)
    <3>1. share \in [W -> 0 .. rate - 1]
      BY <2>1
    <3>2. \A u, v \in W : share[u] = share[v] => u = v
      <4> SUFFICES ASSUME NEW u \in W, NEW v \in W, u # v PROVE share[u] # share[v]
        OBVIOUS
      <4>1. u < v \/ v < u
        BY <1>2
      <4> QED
        BY <2>2, <4>1
    <3> QED
      BY <3>1, <3>2, Fun_IsInj
  <2>4. IsFiniteSet(0 .. rate - 1) /\ Cardinality(0 .. rate - 1) = rate
    BY <1>1, FS_Interval
  <2> HIDE DEF W, share
  <2>5. Cardinality(W) <= Cardinality(0 .. rate - 1)
    BY <2>3, <2>4, FS_Injection
  <2> QED
    BY <2>4, <2>5 DEF W
<1> QED
  BY <1>3, <1>4

\* Only Admit lets somebody through, an interval behind last_create or later.
LEMMA SpacedStep == IInv /\ Spaced /\ [Next]_vars => Spaced'
<1> SUFFICES ASSUME IInv, Spaced, [Next]_vars PROVE Spaced'
  OBVIOUS
<1>1. CASE Tick \/ Refuse \/ UNCHANGED vars
  BY <1>1 DEF Tick, Refuse, vars, Spaced, MinInterval
<1>2. ASSUME NEW valid \in BOOLEAN, Admit(valid) PROVE Spaced'
  <2>1. /\ UNCHANGED <<rate, now, refusal>>
        /\ rate > 0 => now - last_create >= MinInterval
        /\ last_create' = IF rate > 0 THEN now ELSE last_create
        /\ passed' = passed \/ passed' = passed \cup {now}
    BY <1>2 DEF Admit
  <2>2. now \in Nat /\ last_create \in Nat /\ rate \in Nat /\ last_create <= now /\ MinInterval' = MinInterval
    BY <2>1 DEF IInv, Types, HintIsFresh, MinInterval
  <2>3. passed' \subseteq Nat
    BY <2>1, <2>2 DEF Spaced
  <2>4. ASSUME rate > 0 PROVE \A u \in passed' : u <= last_create'
    <3>1. \A u \in passed : u <= last_create /\ u \in Nat
      BY <2>4 DEF Spaced
    <3>2. last_create' = now
      BY <2>1, <2>4
    <3> QED
      BY <2>1, <2>2, <3>1, <3>2
  <2>5. ASSUME rate > 0, NEW u \in passed', NEW v \in passed', u < v PROVE v - u >= MinInterval'
    <3>1. MinInterval \in Nat
      BY <2>2, <2>5, IntervalIsNat
    <3>2. \A w \in passed : w <= last_create /\ w \in Nat
      BY <2>5 DEF Spaced
    <3>3. CASE v \in passed
      <4>1. u \in passed
        BY <2>1, <2>2, <2>5, <3>2, <3>3
      <4> QED
        BY <2>2, <2>5, <3>3, <4>1 DEF Spaced
    <3>4. CASE v = now
      <4>1. u \in passed
        BY <2>1, <2>3, <2>5, <3>4
      <4> QED
        BY <2>1, <2>2, <2>5, <3>1, <3>2, <3>4, <4>1
    <3> QED
      BY <2>1, <2>5, <3>3, <3>4
  <2> QED
    BY <2>1, <2>3, <2>4, <2>5 DEF Spaced
<1> QED
  BY <1>1, <1>2 DEF Next

\* However requests are timed, no minute sees more than `rate' of them get through.
THEOREM Rate == Spec => []RateHolds
<1>1. Init => IInv /\ Spaced
  BY LimiterConstants DEF Init, IInv, Types, HintIsFresh, NoRefusal, Spaced
<1>2. IInv /\ Spaced => RateHolds
  BY SpacedHolds DEF IInv
<1> QED
  BY <1>1, <1>2, Preserved, SpacedStep, PTL DEF Spec

--------------------------------------------------------------------------------
(* The normalisation of answers *)

\* One line of the filter.
Filtered(kept, l) == IF l = EmptyLine THEN kept ELSE Append(kept, l)

\* What the filter has of the first n lines.
IsFiltered(D, input, n, kept) ==
    /\ kept \in Seq(D)
    /\ \A i \in 1 .. Len(kept) : kept[i] # EmptyLine
    /\ \A j \in 1 .. n : input[j] # EmptyLine => \E i \in 1 .. Len(kept) : kept[i] = input[j]
    /\ (\A j \in 1 .. n : input[j] # EmptyLine) =>
           Len(kept) = n /\ \A i \in 1 .. n : kept[i] = input[i]

\* One line more.
LEMMA FilterStep ==
  ASSUME NEW D, NEW input \in Seq(D), NEW n \in Nat, n + 1 <= Len(input), NEW kept,
         IsFiltered(D, input, n, kept)
  PROVE  IsFiltered(D, input, n + 1, Filtered(kept, input[n + 1]))
<1> DEFINE l == input[n + 1]
           k == Filtered(kept, l)
<1>0. kept \in Seq(D) /\ Len(kept) \in Nat /\ l \in D
  <2>1. n + 1 \in 1 .. Len(input)
    OBVIOUS
  <2> QED
    BY <2>1 DEF IsFiltered
<1>1. CASE l = EmptyLine
  <2>1. k = kept
    BY <1>1 DEF Filtered
  <2>2. \A j \in 1 .. n + 1 : input[j] # EmptyLine => j \in 1 .. n
    BY <1>1
  <2>3. n + 1 \in 1 .. n + 1 /\ input[n + 1] = EmptyLine
    BY <1>1
  <2> HIDE DEF l, k
  <2> QED
    BY <2>1, <2>2, <2>3 DEF IsFiltered, k, l
<1>2. CASE l # EmptyLine
  <2>1. k = Append(kept, l)
    BY <1>2 DEF Filtered
  <2> HIDE DEF k, l
  <2>2. /\ k \in Seq(D) /\ Len(k) = Len(kept) + 1
        /\ \A i \in 1 .. Len(kept) : k[i] = kept[i]
        /\ k[Len(kept) + 1] = l
    BY <1>0, <2>1, AppendProperties
  <2>3. \A i \in 1 .. Len(k) : i \in 1 .. Len(kept) \/ i = Len(kept) + 1
    BY <1>0, <2>2
  <2>4. \A i \in 1 .. Len(k) : k[i] # EmptyLine
    BY <1>2, <2>2, <2>3 DEF IsFiltered
  <2>5. ASSUME NEW j \in 1 .. n + 1, input[j] # EmptyLine
        PROVE  \E i \in 1 .. Len(k) : k[i] = input[j]
    <3>1. CASE j \in 1 .. n
      <4>1. PICK i \in 1 .. Len(kept) : kept[i] = input[j]
        BY <2>5, <3>1 DEF IsFiltered
      <4>2. i \in 1 .. Len(k) /\ k[i] = input[j]
        BY <1>0, <2>2, <4>1
      <4> QED
        BY <4>2
    <3>2. CASE j = n + 1
      <4>1. Len(kept) + 1 \in 1 .. Len(k)
        BY <1>0, <2>2
      <4> QED
        BY <2>2, <3>2, <4>1 DEF l
    <3> QED
      BY <3>1, <3>2
  <2>6. ASSUME \A j \in 1 .. n + 1 : input[j] # EmptyLine
        PROVE  Len(k) = n + 1 /\ \A i \in 1 .. n + 1 : k[i] = input[i]
    <3>1. Len(kept) = n /\ \A i \in 1 .. n : kept[i] = input[i]
      <4>1. \A j \in 1 .. n : j \in 1 .. n + 1
        OBVIOUS
      <4> QED
        BY <2>6, <4>1 DEF IsFiltered
    <3>2. \A i \in 1 .. n + 1 : i \in 1 .. n \/ i = n + 1
      OBVIOUS
    <3> QED
      BY <2>2, <3>1, <3>2 DEF l
  <2>7. IsFiltered(D, input, n + 1, k)
    BY <2>2, <2>4, <2>5, <2>6 DEF IsFiltered
  <2> QED
    BY <2>7 DEF k, l
<1> QED
  BY <1>1, <1>2

\* The filter keeps the lines that are not empty.
LEMMA NonEmptyIs ==
  ASSUME NEW D, NEW input \in Seq(D)
  PROVE  IsFiltered(D, input, Len(input), NonEmpty(input))
<1> DEFINE N == Len(input)
           X == Seq(D)
           Folds(h) == h = [s \in SUBSET (1 .. N) |->
                              IF s = {} THEN <<>>
                              ELSE IF input[Max(s)] = EmptyLine THEN h[s \ {Max(s)}]
                              ELSE Append(h[s \ {Max(s)}], input[Max(s)])]
           h == CHOOSE h : Folds(h)
           G == [y \in X \X (1 .. N) |-> Filtered(y[1], input[y[2]])]
<1>1. N \in Nat /\ DOMAIN input = 1 .. N /\ \A i \in 1 .. N : input[i] \in D
  OBVIOUS
<1>2. NonEmpty(input) = h[1 .. N]
  BY <1>1 DEF NonEmpty, FoldLeft, MapThenFoldSet
<1>3. G \in [X \X (1 .. N) -> X]
  <2>1. \A y \in X \X (1 .. N) : Filtered(y[1], input[y[2]]) \in X
    BY <1>1, AppendProperties DEF Filtered
  <2> QED
    BY <2>1
<1>4. \E g : Folds(g)
  <2>0. PICK g : Folded(g, X, <<>>, N, G)
    <3>1. <<>> \in X
      OBVIOUS
    <3> HIDE DEF N, X, G
    <3> QED
      BY <1>1, <1>3, <3>1, FoldExists
  <2>1. /\ g \in [SUBSET (1 .. N) -> X]
        /\ \A S \in SUBSET (1 .. N) : g[S] = IF S = {} THEN <<>> ELSE G[<<g[S \ {Max(S)}], Max(S)>>]
    <3> HIDE DEF N, X, G
    <3> QED
      BY <2>0 DEF Folded
  <2>2. ASSUME NEW S \in SUBSET (1 .. N)
        PROVE  g[S] = IF S = {} THEN <<>>
                      ELSE IF input[Max(S)] = EmptyLine THEN g[S \ {Max(S)}]
                      ELSE Append(g[S \ {Max(S)}], input[Max(S)])
    <3>1. CASE S = {}
      BY <2>1, <3>1
    <3>2. CASE S # {}
      <4>1. Max(S) \in 1 .. N
        BY <1>1, <3>2, Greatest
      <4>2. g[S \ {Max(S)}] \in X
        BY <2>1
      <4> DEFINE x == g[S \ {Max(S)}]
      <4>3. g[S] = G[<<x, Max(S)>>]
        BY <2>1, <3>2
      <4> HIDE DEF x, X
      <4>4. G[<<x, Max(S)>>] = Filtered(x, input[Max(S)])
        BY <4>1, <4>2 DEF x
      <4> QED
        BY <3>2, <4>3, <4>4 DEF x, Filtered
    <3> QED
      BY <3>1, <3>2
  <2>3. g = [S \in SUBSET (1 .. N) |-> g[S]]
    BY <2>1
  <2>4. Folds(g)
    <3> HIDE DEF X, G, N
    <3> QED
      BY <2>2, <2>3
  <2> QED
    BY <2>4
<1>5. Folds(h)
  <2> HIDE DEF Folds
  <2> QED
    BY <1>4
<1> HIDE DEF h
<1> DEFINE I == {n \in Nat : n <= N => IsFiltered(D, input, n, h[1 .. n])}
<1>6. 0 \in I
  <2>1. 1 .. 0 = {} /\ h[{}] = <<>>
    BY <1>5
  <2>2. IsFiltered(D, input, 0, <<>>)
    BY DEF IsFiltered
  <2> QED
    BY <2>1, <2>2
<1>7. ASSUME NEW n \in Nat, n \in I PROVE n + 1 \in I
  <2> SUFFICES ASSUME n + 1 <= N PROVE IsFiltered(D, input, n + 1, h[1 .. n + 1])
    OBVIOUS
  <2>1. 1 .. n + 1 \in SUBSET (1 .. N)
    BY <1>1
  <2>2. Max(1 .. n + 1) = n + 1 /\ (1 .. n + 1) \ {n + 1} = 1 .. n /\ 1 .. n + 1 # {}
    BY GreatestOfFirst
  <2>3. h[1 .. n + 1] = Filtered(h[1 .. n], input[n + 1])
    BY <1>5, <2>1, <2>2 DEF Filtered
  <2>4. IsFiltered(D, input, n, h[1 .. n])
    BY <1>1, <1>7
  <2> HIDE DEF Folds
  <2> QED
    BY <2>3, <2>4, FilterStep
<1>8. N \in I
  <2> HIDE DEF I
  <2> QED
    BY <1>1, <1>6, <1>7, Upward
<1> QED
  BY <1>1, <1>2, <1>8

\* Nothing is filtered from lines that are not empty.
LEMMA NonEmptyKeeps ==
  ASSUME NEW D, NEW s \in Seq(D), \A i \in 1 .. Len(s) : s[i] # EmptyLine
  PROVE  NonEmpty(s) = s
<1>1. IsFiltered(D, s, Len(s), NonEmpty(s))
  BY NonEmptyIs
<1> DEFINE t == NonEmpty(s)
<1>2. t \in Seq(D) /\ Len(t) = Len(s) /\ \A i \in 1 .. Len(s) : t[i] = s[i]
  BY <1>1 DEF IsFiltered
<1> HIDE DEF t
<1>3. t = s
  BY <1>2, SeqEqual
<1> QED
  BY <1>3 DEF t

\* The first line of a kind, or 0.
KindAt(lines, kind) == SelectInSeq(lines, LAMBDA l : l.kind = kind)

\* It is found where there is one.
LEMMA KindFound ==
  ASSUME NEW D, NEW lines \in Seq(D), NEW kind
  PROVE  \/ KindAt(lines, kind) = 0 /\ ~Has(lines, kind)
         \/ /\ KindAt(lines, kind) \in 1 .. Len(lines)
            /\ lines[KindAt(lines, kind)].kind = kind
            /\ \A j \in 1 .. KindAt(lines, kind) - 1 : lines[j].kind # kind
            /\ Has(lines, kind)
<1> DEFINE I == {i \in 1 .. Len(lines) : lines[i].kind = kind}
           k == KindAt(lines, kind)
<1>1. k = IF I # {} THEN Min(I) ELSE 0
  BY DEF SelectInSeq, KindAt
<1>2. DOMAIN lines = 1 .. Len(lines) /\ Len(lines) \in Nat
  OBVIOUS
<1>3. CASE I = {}
  <2>1. k = 0
    BY <1>1, <1>3
  <2>2. ~Has(lines, kind)
    BY <1>2, <1>3 DEF Has
  <2> QED
    BY <2>1, <2>2
<1>4. CASE I # {}
  <2>1. I \in SUBSET Nat
    OBVIOUS
  <2>2. Min(I) \in I /\ \A j \in I : Min(I) <= j
    <3> HIDE DEF I
    <3> QED
      BY <1>4, <2>1, LeastIsMin
  <2>3. k = Min(I)
    BY <1>1, <1>4
  <2> HIDE DEF k
  <2>4. k \in 1 .. Len(lines) /\ lines[k].kind = kind /\ \A j \in I : k <= j
    BY <2>2, <2>3
  <2>5. ASSUME NEW j \in 1 .. k - 1 PROVE lines[j].kind # kind
    BY <1>2, <2>4, <2>5
  <2>6. Has(lines, kind)
    BY <1>2, <2>4 DEF Has
  <2> QED
    BY <2>4, <2>5, <2>6 DEF k
<1> QED
  BY <1>3, <1>4

\* FirstOf finds the first line of a kind, or nothing where there is none.
LEMMA FirstOfIs ==
  ASSUME NEW D, NEW lines \in Seq(D), NEW kind
  PROVE  \/ ~Has(lines, kind) /\ FirstOf(lines, kind) = <<>>
         \/ /\ Has(lines, kind)
            /\ \E i \in 1 .. Len(lines) :
                   lines[i].kind = kind /\ FirstOf(lines, kind) = <<lines[i]>>
<1> DEFINE k == KindAt(lines, kind)
<1>1. FirstOf(lines, kind) = IF k = 0 THEN <<>> ELSE <<lines[k]>>
  BY DEF FirstOf, KindAt
<1>2. \/ k = 0 /\ ~Has(lines, kind)
      \/ k \in 1 .. Len(lines) /\ lines[k].kind = kind /\ Has(lines, kind)
  BY KindFound
<1> HIDE DEF k
<1>3. k \in 1 .. Len(lines) => k # 0
  OBVIOUS
<1> QED
  BY <1>1, <1>2, <1>3

\* The first media section begins at the first m= line, or at the end.
LEMMA FirstMediaIs ==
  ASSUME NEW D, NEW lines \in Seq(D)
  PROVE  /\ FirstMedia(lines) \in 1 .. Len(lines) + 1
         /\ \A j \in 1 .. FirstMedia(lines) - 1 : lines[j].kind # "m="
         /\ FirstMedia(lines) # Len(lines) + 1 => lines[FirstMedia(lines)].kind = "m="
<1> DEFINE k == KindAt(lines, "m=")
<1>1. FirstMedia(lines) = IF Has(lines, "m=") THEN k ELSE Len(lines) + 1
  BY DEF FirstMedia, KindAt
<1>2. \/ k = 0 /\ ~Has(lines, "m=")
      \/ /\ k \in 1 .. Len(lines) /\ lines[k].kind = "m="
         /\ \A j \in 1 .. k - 1 : lines[j].kind # "m="
         /\ Has(lines, "m=")
  BY KindFound
<1>3. Len(lines) \in Nat /\ DOMAIN lines = 1 .. Len(lines)
  OBVIOUS
<1> HIDE DEF k
<1>4. CASE Has(lines, "m=")
  BY <1>1, <1>2, <1>3, <1>4
<1>5. CASE ~Has(lines, "m=")
  <2>1. FirstMedia(lines) = Len(lines) + 1 /\ \A j \in 1 .. Len(lines) : lines[j].kind # "m="
    BY <1>1, <1>3, <1>5 DEF Has
  <2> QED
    BY <1>3, <2>1
<1> QED
  BY <1>4, <1>5

\* A sequence of lines cut in two: no media section before the cut, and one right
\* behind it, or nothing.
CutAt(lines, s, m) ==
    /\ lines = s \o m
    /\ ~Has(s, "m=")
    /\ m # <<>> => m[1].kind = "m="

\* An answer is its session section and its media section.
LEMMA PartsAreCut ==
  ASSUME NEW D, NEW lines \in Seq(D)
  PROVE  /\ SessionPart(lines) \in Seq(D) /\ MediaPart(lines) \in Seq(D)
         /\ Len(SessionPart(lines)) = FirstMedia(lines) - 1
         /\ CutAt(lines, SessionPart(lines), MediaPart(lines))
<1> DEFINE N == Len(lines)
           f == FirstMedia(lines)
           s == SubSeq(lines, 1, f - 1)
           m == SubSeq(lines, f, N)
<1>1. /\ N \in Nat /\ f \in 1 .. N + 1
      /\ \A j \in 1 .. f - 1 : lines[j].kind # "m="
      /\ f # N + 1 => lines[f].kind = "m="
  BY FirstMediaIs
<1> HIDE DEF f
<1>2. /\ s \in Seq(D) /\ Len(s) = f - 1
      /\ \A i \in 1 .. f - 1 : s[i] = lines[i]
  <2>1. \A i \in 1 .. f - 1 : lines[i] \in D
    BY <1>1
  <2>2. /\ s \in Seq(D) /\ Len(s) = IF 1 <= f - 1 THEN (f - 1) - 1 + 1 ELSE 0
        /\ \A i \in 1 .. (f - 1) - 1 + 1 : s[i] = lines[1 + i - 1]
    <3> 1 \in Int /\ f - 1 \in Int
      BY <1>1
    <3> QED
      BY <2>1, SubSeqProperties
  <2>3. \A i \in 1 .. f - 1 : i \in 1 .. (f - 1) - 1 + 1 /\ 1 + i - 1 = i
    BY <1>1
  <2> HIDE DEF s
  <2> QED
    BY <1>1, <2>2, <2>3
<1>3. /\ m \in Seq(D) /\ Len(m) = N - f + 1
      /\ \A i \in 1 .. N - f + 1 : m[i] = lines[f + i - 1]
  <2>1. \A i \in f .. N : lines[i] \in D
    BY <1>1
  <2>2. /\ m \in Seq(D) /\ Len(m) = IF f <= N THEN N - f + 1 ELSE 0
        /\ \A i \in 1 .. N - f + 1 : m[i] = lines[f + i - 1]
    <3> f \in Int /\ N \in Int
      BY <1>1
    <3> QED
      BY <2>1, SubSeqProperties
  <2> HIDE DEF m
  <2> QED
    BY <1>1, <2>2
<1> HIDE DEF s, m
<1> DEFINE sm == s \o m
<1>4. /\ sm \in Seq(D) /\ Len(sm) = Len(s) + Len(m)
      /\ \A i \in 1 .. Len(s) + Len(m) : sm[i] = IF i <= Len(s) THEN s[i] ELSE m[i - Len(s)]
  BY <1>2, <1>3, ConcatProperties
<1> HIDE DEF sm
<1>5. Len(sm) = N
  BY <1>1, <1>2, <1>3, <1>4
<1>6. ASSUME NEW i \in 1 .. N PROVE sm[i] = lines[i]
  <2>1. CASE i <= f - 1
    BY <1>1, <1>2, <1>4, <1>5, <2>1
  <2>2. CASE ~(i <= f - 1)
    <3> DEFINE n == i - (f - 1)
    <3>1. n \in 1 .. N - f + 1 /\ f + n - 1 = i
      <4> HIDE DEF N
      <4> QED
        BY <1>1, <2>2
    <3>2. sm[i] = m[i - Len(s)] /\ i - Len(s) = n
      BY <1>1, <1>2, <1>3, <1>4, <1>5, <2>2
    <3> HIDE DEF n
    <3> QED
      BY <1>3, <3>1, <3>2
  <2> QED
    BY <2>1, <2>2
<1>7. lines = sm
  BY <1>4, <1>5, <1>6, SeqEqual
<1>8. ~Has(s, "m=")
  BY <1>1, <1>2 DEF Has
<1>9. m # <<>> => m[1].kind = "m="
  <2> SUFFICES ASSUME m # <<>> PROVE m[1].kind = "m="
    OBVIOUS
  <2>1. Len(m) # 0
    BY <1>3, EmptySeq
  <2>2. 1 \in 1 .. N - f + 1 /\ f + 1 - 1 = f /\ f # N + 1
    BY <1>1, <1>3, <2>1
  <2> QED
    BY <1>1, <1>3, <2>2
<1>10. SessionPart(lines) = s /\ MediaPart(lines) = m
  BY DEF SessionPart, MediaPart, s, m, f
<1>11. CutAt(lines, s, m)
  BY <1>7, <1>8, <1>9 DEF CutAt, sm
<1> QED
  BY <1>2, <1>3, <1>10, <1>11 DEF f

\* What was put together is got back by cutting at the same place.
LEMMA TwoParts ==
  ASSUME NEW D, NEW s \in Seq(D), NEW m \in Seq(D)
  PROVE  /\ SubSeq(s \o m, 1, Len(s)) = s
         /\ SubSeq(s \o m, Len(s) + 1, Len(s \o m)) = m
<1> DEFINE l == s \o m
           a == Len(s)
           N == Len(l)
           t == SubSeq(l, 1, a)
           u == SubSeq(l, a + 1, N)
<1>1. /\ a \in Nat /\ N = a + Len(m) /\ Len(m) \in Nat
      /\ \A i \in 1 .. a : l[i] = s[i] /\ s[i] \in D
      /\ \A i \in 1 .. Len(m) : l[a + i] = m[i] /\ m[i] \in D
  <2>1. /\ N = a + Len(m)
        /\ \A i \in 1 .. a + Len(m) : l[i] = IF i <= a THEN s[i] ELSE m[i - a]
    BY ConcatProperties
  <2>2. a \in Nat /\ Len(m) \in Nat
    OBVIOUS
  <2> HIDE DEF l, a
  <2>3. \A i \in 1 .. a : i \in 1 .. a + Len(m) /\ i <= a
    BY <2>2
  <2>4. \A i \in 1 .. Len(m) : a + i \in 1 .. a + Len(m) /\ ~(a + i <= a) /\ (a + i) - a = i
    BY <2>2
  <2> USE DEF a
  <2> QED
    BY <2>1, <2>2, <2>3, <2>4
<1> HIDE DEF l, a, N
<1>2. t = s
  <2>1. \A i \in 1 .. a : l[i] \in D
    BY <1>1
  <2>2. /\ t \in Seq(D) /\ Len(t) = IF 1 <= a THEN a - 1 + 1 ELSE 0
        /\ \A i \in 1 .. a - 1 + 1 : t[i] = l[1 + i - 1]
    <3> 1 \in Int /\ a \in Int
      BY <1>1
    <3> QED
      BY <2>1, SubSeqProperties
  <2>3. \A i \in 1 .. a : i \in 1 .. a - 1 + 1 /\ 1 + i - 1 = i
    BY <1>1
  <2> HIDE DEF t
  <2>4. Len(t) = a /\ \A i \in 1 .. a : t[i] = s[i]
    BY <1>1, <2>2, <2>3
  <2> QED
    BY <2>2, <2>4, SeqEqual DEF a
<1>3. u = m
  <2>1. \A i \in a + 1 .. N : l[i] \in D
    <3> SUFFICES ASSUME NEW i \in a + 1 .. N PROVE l[i] \in D
      OBVIOUS
    <3>1. i - a \in 1 .. Len(m) /\ a + (i - a) = i
      BY <1>1
    <3> QED
      BY <1>1, <3>1
  <2>2. /\ u \in Seq(D) /\ Len(u) = IF a + 1 <= N THEN N - (a + 1) + 1 ELSE 0
        /\ \A i \in 1 .. N - (a + 1) + 1 : u[i] = l[(a + 1) + i - 1]
    <3> a + 1 \in Int /\ N \in Int
      BY <1>1
    <3> QED
      BY <2>1, SubSeqProperties
  <2>3. \A i \in 1 .. Len(m) : i \in 1 .. N - (a + 1) + 1 /\ (a + 1) + i - 1 = a + i
    BY <1>1
  <2> HIDE DEF u
  <2>4. Len(u) = Len(m) /\ \A i \in 1 .. Len(m) : u[i] = m[i]
    BY <1>1, <2>2, <2>3
  <2> QED
    BY <2>2, <2>4, SeqEqual
<1> QED
  BY <1>2, <1>3 DEF t, u, l, a, N

\* There is one such cut only.
LEMMA CutIsParts ==
  ASSUME NEW D, NEW s \in Seq(D), NEW m \in Seq(D), NEW lines, CutAt(lines, s, m)
  PROVE  /\ lines \in Seq(D) /\ Len(lines) = Len(s) + Len(m)
         /\ FirstMedia(lines) = Len(s) + 1
         /\ SessionPart(lines) = s /\ MediaPart(lines) = m
<1>1. /\ lines \in Seq(D) /\ Len(lines) = Len(s) + Len(m)
      /\ \A i \in 1 .. Len(s) + Len(m) : lines[i] = IF i <= Len(s) THEN s[i] ELSE m[i - Len(s)]
  BY ConcatProperties DEF CutAt
<1>2. Len(s) \in Nat /\ Len(m) \in Nat /\ DOMAIN s = 1 .. Len(s)
  OBVIOUS
<1> DEFINE f == FirstMedia(lines)
           N == Len(lines)
<1>3. /\ f \in 1 .. N + 1
      /\ \A j \in 1 .. f - 1 : lines[j].kind # "m="
      /\ f # N + 1 => lines[f].kind = "m="
  BY <1>1, FirstMediaIs
<1> HIDE DEF f
<1>4. f > Len(s)
  <2> SUFFICES ASSUME f <= Len(s) PROVE FALSE
    BY <1>1, <1>2, <1>3
  <2>1. f \in 1 .. Len(s) /\ lines[f] = s[f] /\ f # N + 1
    BY <1>1, <1>2, <1>3
  <2>2. s[f].kind = "m="
    BY <1>3, <2>1
  <2> QED
    BY <1>2, <2>1, <2>2 DEF CutAt, Has
<1>5. f = Len(s) + 1
  <2> SUFFICES ASSUME f > Len(s) + 1 PROVE FALSE
    BY <1>1, <1>2, <1>3, <1>4
  <2>1. Len(m) # 0 /\ Len(s) + 1 \in 1 .. f - 1 /\ Len(s) + 1 \in 1 .. Len(s) + Len(m)
    BY <1>1, <1>2, <1>3
  <2>2. ~(Len(s) + 1 <= Len(s)) /\ (Len(s) + 1) - Len(s) = 1
    BY <1>2
  <2>3. lines[Len(s) + 1] = m[1]
    BY <1>1, <2>1, <2>2
  <2>4. m # <<>>
    BY <2>1
  <2> QED
    BY <1>3, <2>1, <2>3, <2>4 DEF CutAt
<1>6. SubSeq(lines, 1, f - 1) = s /\ SubSeq(lines, f, N) = m
  <2>1. f - 1 = Len(s)
    BY <1>2, <1>5
  <2> QED
    BY <1>5, <2>1, TwoParts DEF CutAt
<1> QED
  BY <1>1, <1>5, <1>6 DEF f, SessionPart, MediaPart

\* What stands in two sequences stands in l, and nothing else.
HasBoth(l, a, b) ==
    /\ \A i \in 1 .. Len(l) :
           (\E j \in 1 .. Len(a) : l[i] = a[j]) \/ (\E j \in 1 .. Len(b) : l[i] = b[j])
    /\ \A j \in 1 .. Len(a) : \E i \in 1 .. Len(l) : l[i] = a[j]
    /\ \A j \in 1 .. Len(b) : \E i \in 1 .. Len(l) : l[i] = b[j]

\* So it is when they are put together.
LEMMA ConcatElements ==
  ASSUME NEW D, NEW a \in Seq(D), NEW b \in Seq(D)
  PROVE  HasBoth(a \o b, a, b)
<1> DEFINE l == a \o b
           A == Len(a)
           B == Len(b)
<1>1. /\ Len(l) = A + B
      /\ \A i \in 1 .. A + B : l[i] = IF i <= A THEN a[i] ELSE b[i - A]
  BY ConcatProperties
<1>2. A \in Nat /\ B \in Nat
  OBVIOUS
<1> HIDE DEF l, A, B
<1>3. ASSUME NEW i \in 1 .. Len(l)
      PROVE  (\E j \in 1 .. A : l[i] = a[j]) \/ (\E j \in 1 .. B : l[i] = b[j])
  <2>1. CASE i <= A
    BY <1>1, <1>2, <2>1
  <2>2. CASE ~(i <= A)
    <3>1. i - A \in 1 .. B /\ l[i] = b[i - A]
      BY <1>1, <1>2, <2>2
    <3> QED
      BY <3>1
  <2> QED
    BY <2>1, <2>2
<1>4. ASSUME NEW j \in 1 .. A PROVE \E i \in 1 .. Len(l) : l[i] = a[j]
  <2>1. j \in 1 .. A + B /\ j <= A
    BY <1>2
  <2> QED
    BY <1>1, <2>1
<1>5. ASSUME NEW j \in 1 .. B PROVE \E i \in 1 .. Len(l) : l[i] = b[j]
  <2>1. A + j \in 1 .. A + B /\ ~(A + j <= A) /\ (A + j) - A = j
    BY <1>2
  <2>2. l[A + j] = b[j]
    BY <1>1, <2>1
  <2> QED
    BY <1>1, <2>1, <2>2
<1> QED
  BY <1>3, <1>4, <1>5 DEF l, A, B, HasBoth

\* Joined lines have what one of the parts has.
LEMMA HasConcat ==
  ASSUME NEW D, NEW a \in Seq(D), NEW b \in Seq(D), NEW kind
  PROVE  Has(a \o b, kind) <=> Has(a, kind) \/ Has(b, kind)
<1> DEFINE l == a \o b
<1>1. l \in Seq(D)
  BY ConcatProperties
<1>2. HasBoth(l, a, b)
  BY ConcatElements
<1> HIDE DEF l
<1>3. DOMAIN a = 1 .. Len(a) /\ DOMAIN b = 1 .. Len(b) /\ DOMAIN l = 1 .. Len(l)
  BY <1>1
<1>4. ASSUME Has(l, kind) PROVE Has(a, kind) \/ Has(b, kind)
  <2>1. PICK i \in 1 .. Len(l) : l[i].kind = kind
    BY <1>3, <1>4 DEF Has
  <2>2. (\E j \in 1 .. Len(a) : l[i] = a[j]) \/ (\E j \in 1 .. Len(b) : l[i] = b[j])
    BY <1>2 DEF HasBoth
  <2> QED
    BY <1>3, <2>1, <2>2 DEF Has
<1>5. ASSUME Has(a, kind) PROVE Has(l, kind)
  <2>1. PICK j \in 1 .. Len(a) : a[j].kind = kind
    BY <1>3, <1>5 DEF Has
  <2>2. PICK i \in 1 .. Len(l) : l[i] = a[j]
    BY <1>2 DEF HasBoth
  <2> QED
    BY <1>3, <2>1, <2>2 DEF Has
<1>6. ASSUME Has(b, kind) PROVE Has(l, kind)
  <2>1. PICK j \in 1 .. Len(b) : b[j].kind = kind
    BY <1>3, <1>6 DEF Has
  <2>2. PICK i \in 1 .. Len(l) : l[i] = b[j]
    BY <1>2 DEF HasBoth
  <2> QED
    BY <1>3, <2>1, <2>2 DEF Has
<1> QED
  BY <1>4, <1>5, <1>6 DEF l

\* No empty line among the lines.
Solid(l) == \A i \in 1 .. Len(l) : l[i] # EmptyLine

\* Joined lines are solid when both parts are.
LEMMA SolidConcat ==
  ASSUME NEW D, NEW a \in Seq(D), NEW b \in Seq(D)
  PROVE  Solid(a \o b) <=> Solid(a) /\ Solid(b)
<1> DEFINE l == a \o b
<1>1. HasBoth(l, a, b)
  BY ConcatElements
<1> HIDE DEF l
<1>2. Solid(l) <=> Solid(a) /\ Solid(b)
  <2>1. ASSUME Solid(l), NEW j \in 1 .. Len(a) PROVE a[j] # EmptyLine
    <3>1. PICK i \in 1 .. Len(l) : l[i] = a[j]
      BY <1>1 DEF HasBoth
    <3> QED
      BY <2>1, <3>1 DEF Solid
  <2>2. ASSUME Solid(l), NEW j \in 1 .. Len(b) PROVE b[j] # EmptyLine
    <3>1. PICK i \in 1 .. Len(l) : l[i] = b[j]
      BY <1>1 DEF HasBoth
    <3> QED
      BY <2>2, <3>1 DEF Solid
  <2>3. ASSUME Solid(a), Solid(b), NEW i \in 1 .. Len(l) PROVE l[i] # EmptyLine
    <3>1. (\E j \in 1 .. Len(a) : l[i] = a[j]) \/ (\E j \in 1 .. Len(b) : l[i] = b[j])
      BY <1>1 DEF HasBoth
    <3> QED
      BY <2>3, <3>1 DEF Solid
  <2>4. Solid(l) => Solid(a) /\ Solid(b)
    BY <2>1, <2>2 DEF Solid
  <2>5. Solid(a) /\ Solid(b) => Solid(l)
    BY <2>3 DEF Solid
  <2> QED
    BY <2>4, <2>5
<1> QED
  BY <1>2 DEF l

\* The copy of a credential that the session section gets.
Copied(session, media, kind) == IF Has(session, kind) THEN <<>> ELSE FirstOf(media, kind)

IsCopy(D, session, media, kind, c) ==
    /\ c \in Seq(D) /\ Len(c) \in 0 .. 1
    /\ \A i \in 1 .. Len(c) : c[i].kind = kind /\ \E j \in 1 .. Len(media) : c[i] = media[j]
    /\ Has(session, kind) \/ ~Has(media, kind) => c = <<>>
    /\ Has(media, kind) => Has(session, kind) \/ Has(c, kind)

\* Copied is a line of the kind from the session, where only the session has one.
LEMMA CopiedIs ==
  ASSUME NEW D, NEW session \in Seq(D), NEW media \in Seq(D), NEW kind
  PROVE  IsCopy(D, session, media, kind, Copied(session, media, kind))
<1> DEFINE c == Copied(session, media, kind)
<1>1. CASE c = <<>>
  <2>1. Has(session, kind) \/ ~Has(media, kind)
    <3> SUFFICES ASSUME ~Has(session, kind), Has(media, kind) PROVE FALSE
      OBVIOUS
    <3>1. c = FirstOf(media, kind)
      BY DEF Copied
    <3>2. PICK i \in 1 .. Len(media) : FirstOf(media, kind) = <<media[i]>>
      BY FirstOfIs
    <3> QED
      BY <1>1, <3>1, <3>2
  <2>2. c \in Seq(D) /\ Len(c) = 0
    BY <1>1
  <2> HIDE DEF c
  <2>3. IsCopy(D, session, media, kind, c)
    BY <1>1, <2>1, <2>2 DEF IsCopy
  <2> QED
    BY <2>3 DEF c
<1>2. CASE c # <<>>
  <2>1. ~Has(session, kind) /\ c = FirstOf(media, kind)
    BY <1>2 DEF Copied
  <2>2. Has(media, kind)
    BY <1>2, <2>1, FirstOfIs
  <2>3. PICK i \in 1 .. Len(media) : media[i].kind = kind /\ c = <<media[i]>>
    <3> HIDE DEF c
    <3> QED
      BY <2>1, <2>2, FirstOfIs
  <2>4. media[i] \in D
    OBVIOUS
  <2> HIDE DEF c
  <2>5. c \in Seq(D) /\ Len(c) = 1 /\ c[1] = media[i] /\ DOMAIN c = 1 .. 1
    BY <2>3, <2>4
  <2>6. Has(c, kind)
    BY <2>3, <2>5 DEF Has
  <2>7. \A n \in 1 .. Len(c) : c[n].kind = kind /\ \E j \in 1 .. Len(media) : c[n] = media[j]
    BY <2>3, <2>5
  <2>8. IsCopy(D, session, media, kind, c)
    BY <1>2, <2>1, <2>2, <2>5, <2>6, <2>7 DEF IsCopy
  <2> QED
    BY <2>8 DEF c
<1> QED
  BY <1>1, <1>2

\* A section that has the credentials, if any has them, is completed already.
LEMMA NothingToCopy ==
  ASSUME NEW D, NEW session \in Seq(D), NEW media \in Seq(D), NEW kind,
         Has(media, kind) => Has(session, kind)
  PROVE  Copied(session, media, kind) = <<>>
BY CopiedIs DEF IsCopy

\* An answer in the parts that Normalize puts together: the session section s of the input
\* with the copies u and p, and the media section m.
Assembled(D, input, s, u, p, m, answer) ==
    /\ s \in Seq(D) /\ u \in Seq(D) /\ p \in Seq(D) /\ m \in Seq(D)
    /\ NonEmpty(input) = s \o m
    /\ SessionPart(NonEmpty(input)) = s /\ MediaPart(NonEmpty(input)) = m
    /\ u = Copied(s, m, "a=ice-ufrag:")
    /\ p = Copied(s, m, "a=ice-pwd:")
    /\ CutAt(answer, s \o u \o p, m)
    /\ Solid(answer)

\* Copies are no media section and no empty lines.
LEMMA CopyIsCredential ==
  ASSUME NEW D, NEW s \in Seq(D), NEW m \in Seq(D), NEW kind \in Credentials, Solid(m)
  PROVE  /\ ~Has(Copied(s, m, kind), "m=")
         /\ Solid(Copied(s, m, kind))
<1> DEFINE c == Copied(s, m, kind)
<1>1. IsCopy(D, s, m, kind, c)
  BY CopiedIs
<1> HIDE DEF c
<1>2. kind # "m="
  BY DEF Credentials
<1>3. c \in Seq(D) /\ DOMAIN c = 1 .. Len(c)
  BY <1>1 DEF IsCopy
<1>4. ~Has(c, "m=")
  BY <1>1, <1>2, <1>3 DEF IsCopy, Has
<1>5. Solid(c)
  BY <1>1 DEF IsCopy, Solid
<1> QED
  BY <1>4, <1>5 DEF c

\* Normalize returns such an answer.
LEMMA NormalizeAssembles ==
  ASSUME NEW D, NEW input \in Seq(D)
  PROVE  \E s \in Seq(D), u \in Seq(D), p \in Seq(D), m \in Seq(D) :
             Assembled(D, input, s, u, p, m, Normalize(input))
<1> DEFINE lines == NonEmpty(input)
           s == SessionPart(lines)
           m == MediaPart(lines)
           u == Copied(s, m, "a=ice-ufrag:")
           p == Copied(s, m, "a=ice-pwd:")
<1>1. lines \in Seq(D) /\ Solid(lines)
  BY NonEmptyIs DEF IsFiltered, Solid
<1>2. Normalize(input) = s \o u \o p \o m
  BY DEF Normalize, Copied
<1> HIDE DEF lines
<1>3. s \in Seq(D) /\ m \in Seq(D) /\ CutAt(lines, s, m)
  BY <1>1, PartsAreCut
<1> HIDE DEF s, m
<1>4. lines = s \o m /\ ~Has(s, "m=")
  BY <1>3 DEF CutAt
<1>5. Solid(s) /\ Solid(m)
  BY <1>1, <1>3, <1>4, SolidConcat
<1>6. u \in Seq(D) /\ ~Has(u, "m=") /\ Solid(u)
  BY <1>3, <1>5, CopiedIs, CopyIsCredential DEF IsCopy, Credentials
<1>7. p \in Seq(D) /\ ~Has(p, "m=") /\ Solid(p)
  BY <1>3, <1>5, CopiedIs, CopyIsCredential DEF IsCopy, Credentials
<1> HIDE DEF u, p
<1>8. /\ s \o u \in Seq(D) /\ ~Has(s \o u, "m=") /\ Solid(s \o u)
  BY <1>3, <1>4, <1>5, <1>6, ConcatProperties, HasConcat, SolidConcat
<1> DEFINE su == s \o u
<1>9. su \o p \in Seq(D) /\ ~Has(su \o p, "m=") /\ Solid(su \o p)
  <2>1. su \in Seq(D) /\ ~Has(su, "m=") /\ Solid(su)
    BY <1>8
  <2> HIDE DEF su
  <2> QED
    BY <1>7, <2>1, ConcatProperties, HasConcat, SolidConcat
<1> DEFINE sup == su \o p
<1>10. Solid(sup \o m)
  <2>1. sup \in Seq(D) /\ Solid(sup)
    BY <1>9
  <2> HIDE DEF sup
  <2> QED
    BY <1>3, <1>5, <2>1, SolidConcat
<1>11. CutAt(sup \o m, sup, m)
  <2>1. ~Has(sup, "m=")
    BY <1>9
  <2>2. m # <<>> => m[1].kind = "m="
    BY <1>3 DEF CutAt
  <2> HIDE DEF sup
  <2> QED
    BY <2>1, <2>2 DEF CutAt
<1>12. Assembled(D, input, s, u, p, m, sup \o m)
  <2> HIDE DEF sup
  <2>1. CutAt(sup \o m, s \o u \o p, m)
    BY <1>11 DEF sup, su
  <2> QED
    BY <1>3, <1>4, <1>6, <1>7, <1>10, <2>1 DEF Assembled, lines, s, m, u, p
<1>13. \E x \in Seq(D), y \in Seq(D), z \in Seq(D), w \in Seq(D) :
          Assembled(D, input, x, y, z, w, Normalize(input))
  <2>1. Assembled(D, input, s, u, p, m, Normalize(input))
    BY <1>2, <1>12
  <2> QED
    BY <1>3, <1>6, <1>7, <2>1
<1> QED
  BY <1>13

\* Its session section has every credential that stands anywhere in the input.
LEMMA SectionIsComplete ==
  ASSUME NEW D, NEW input \in Seq(D), NEW s, NEW u, NEW p, NEW m, NEW answer,
         Assembled(D, input, s, u, p, m, answer), NEW k \in Credentials
  PROVE  /\ s \o u \o p \in Seq(D)
         /\ Has(s, k) \/ Has(m, k) => Has(s \o u \o p, k)
<1>1. /\ s \in Seq(D) /\ u \in Seq(D) /\ p \in Seq(D) /\ m \in Seq(D)
      /\ u = Copied(s, m, "a=ice-ufrag:")
      /\ p = Copied(s, m, "a=ice-pwd:")
  BY DEF Assembled
<1>2. IsCopy(D, s, m, "a=ice-ufrag:", u) /\ IsCopy(D, s, m, "a=ice-pwd:", p)
  BY <1>1, CopiedIs
<1>3. Has(s, k) \/ Has(m, k) => Has(s, k) \/ Has(u, k) \/ Has(p, k)
  BY <1>2 DEF IsCopy, Credentials
<1> DEFINE su == s \o u
<1>4. su \in Seq(D) /\ (Has(su, k) <=> Has(s, k) \/ Has(u, k))
  BY <1>1, ConcatProperties, HasConcat
<1> HIDE DEF su
<1>5. su \o p \in Seq(D) /\ (Has(su \o p, k) <=> Has(su, k) \/ Has(p, k))
  BY <1>1, <1>4, ConcatProperties, HasConcat
<1> QED
  BY <1>3, <1>4, <1>5 DEF su

\* A second call changes nothing.
LEMMA NormalizeTwice ==
  ASSUME NEW D, NEW input \in Seq(D)
  PROVE  Normalize(input) \in Seq(D) /\ Normalize(Normalize(input)) = Normalize(input)
<1> DEFINE answer == Normalize(input)
<1>1. PICK s \in Seq(D), u \in Seq(D), p \in Seq(D), m \in Seq(D) :
             Assembled(D, input, s, u, p, m, answer)
  BY NormalizeAssembles
<1> HIDE DEF answer
<1> DEFINE sup == s \o u \o p
<1>2. sup \in Seq(D) /\ m \in Seq(D)
  BY <1>1, SectionIsComplete DEF Assembled, Credentials
<1>3. CutAt(answer, sup, m) /\ Solid(answer)
  BY <1>1 DEF Assembled
<1>4. \A k \in Credentials : Has(m, k) => Has(sup, k)
  BY <1>1, SectionIsComplete
<1> HIDE DEF sup
<1>5. answer \in Seq(D) /\ SessionPart(answer) = sup /\ MediaPart(answer) = m
  BY <1>2, <1>3, CutIsParts
<1>6. NonEmpty(answer) = answer
  BY <1>3, <1>5, NonEmptyKeeps DEF Solid
<1>7. Copied(sup, m, "a=ice-ufrag:") = <<>> /\ Copied(sup, m, "a=ice-pwd:") = <<>>
  BY <1>2, <1>4, NothingToCopy DEF Credentials
<1>8. Normalize(answer) =
        sup \o Copied(sup, m, "a=ice-ufrag:") \o Copied(sup, m, "a=ice-pwd:") \o m
  BY <1>5, <1>6 DEF Normalize, Copied
<1>9. sup \o <<>> = sup
  BY <1>2, ConcatEmptySeq
<1>10. Normalize(answer) = sup \o m
  BY <1>7, <1>8, <1>9
<1>11. Normalize(answer) = answer
  BY <1>3, <1>10 DEF CutAt
<1> QED
  BY <1>5, <1>11 DEF answer

\* What OnlyAppends says of one call.
OnlyCopies(input, answer) ==
    LET lines == NonEmpty(input)
        added == Len(answer) - Len(lines)
        n     == Len(SessionPart(lines))
    IN  /\ added \in 0 .. 2
        /\ lines = SubSeq(answer, 1, n) \o SubSeq(answer, n + added + 1, Len(answer))
        /\ \A i \in n + 1 .. n + added : answer[i] \in ToSet(MediaPart(lines))
        /\ \A k \in Credentials : Has(SessionPart(lines), k) =>
               \A i \in n + 1 .. n + added : answer[i].kind # k

\* The copies are all that is new, and none of them is of what the session section had.
LEMMA NormalizeOnlyCopies ==
  ASSUME NEW D, NEW input \in Seq(D)
  PROVE  OnlyCopies(input, Normalize(input))
<1> DEFINE answer == Normalize(input)
<1>1. PICK s \in Seq(D), u \in Seq(D), p \in Seq(D), m \in Seq(D) :
             Assembled(D, input, s, u, p, m, answer)
  BY NormalizeAssembles
<1> HIDE DEF answer
<1>2. /\ s \in Seq(D) /\ u \in Seq(D) /\ p \in Seq(D) /\ m \in Seq(D)
      /\ NonEmpty(input) = s \o m
      /\ SessionPart(NonEmpty(input)) = s /\ MediaPart(NonEmpty(input)) = m
      /\ answer = s \o u \o p \o m
  BY <1>1 DEF Assembled, CutAt
<1>3. IsCopy(D, s, m, "a=ice-ufrag:", u) /\ IsCopy(D, s, m, "a=ice-pwd:", p)
  BY <1>1, CopiedIs DEF Assembled
<1> DEFINE c == u \o p
<1>4. /\ c \in Seq(D) /\ Len(c) \in 0 .. 2
      /\ \A j \in 1 .. Len(c) :
            /\ \E i \in 1 .. Len(m) : c[j] = m[i]
            /\ \A k \in Credentials : Has(s, k) => c[j].kind # k
  <2>1. Len(u) \in 0 .. 1 /\ Len(p) \in 0 .. 1
    BY <1>3 DEF IsCopy
  <2>2. c \in Seq(D) /\ Len(c) = Len(u) + Len(p) /\ HasBoth(c, u, p)
    <3>1. c \in Seq(D) /\ Len(c) = Len(u) + Len(p)
      BY <1>2, ConcatProperties
    <3> QED
      BY <1>2, <3>1, ConcatElements
  <2> HIDE DEF c
  <2>3. Len(c) \in 0 .. 2
    <3>1. Len(c) = Len(u) + Len(p)
      BY <2>2
    <3> DEFINE x == Len(u)
               y == Len(p)
               z == Len(c)
    <3>2. x \in 0 .. 1 /\ y \in 0 .. 1 /\ z = x + y
      BY <2>1, <3>1
    <3> HIDE DEF x, y, z
    <3>3. z \in 0 .. 2
      BY <3>2
    <3> QED
      BY <3>3 DEF z
  <2>4. ASSUME NEW j \in 1 .. Len(c)
        PROVE  /\ \E i \in 1 .. Len(m) : c[j] = m[i]
               /\ \A k \in Credentials : Has(s, k) => c[j].kind # k
    <3>1. CASE \E i \in 1 .. Len(u) : c[j] = u[i]
      <4>1. PICK i \in 1 .. Len(u) : c[j] = u[i]
        BY <3>1
      <4>2. u # <<>>
        BY <1>2, <4>1
      <4>3. /\ u[i].kind = "a=ice-ufrag:" /\ \E l \in 1 .. Len(m) : u[i] = m[l]
            /\ ~Has(s, "a=ice-ufrag:")
        BY <1>3, <4>1, <4>2 DEF IsCopy
      <4> QED
        BY <4>1, <4>3 DEF Credentials
    <3>2. CASE \E i \in 1 .. Len(p) : c[j] = p[i]
      <4>1. PICK i \in 1 .. Len(p) : c[j] = p[i]
        BY <3>2
      <4>2. p # <<>>
        BY <1>2, <4>1
      <4>3. /\ p[i].kind = "a=ice-pwd:" /\ \E l \in 1 .. Len(m) : p[i] = m[l]
            /\ ~Has(s, "a=ice-pwd:")
        BY <1>3, <4>1, <4>2 DEF IsCopy
      <4> QED
        BY <4>1, <4>3 DEF Credentials
    <3> QED
      BY <2>2, <3>1, <3>2 DEF HasBoth
  <2> QED
    BY <2>2, <2>3, <2>4
<1>5. answer = (s \o c) \o m
  <2>1. (s \o u) \o p = s \o (u \o p)
    OBVIOUS
  <2> QED
    BY <1>2, <2>1
<1> HIDE DEF c
<1> DEFINE sc == s \o c
<1>6. /\ sc \in Seq(D) /\ Len(sc) = Len(s) + Len(c)
      /\ \A i \in 1 .. Len(s) + Len(c) : sc[i] = IF i <= Len(s) THEN s[i] ELSE c[i - Len(s)]
      /\ SubSeq(sc, 1, Len(s)) = s
  BY <1>2, <1>4, ConcatProperties, TwoParts
<1>7. /\ (s \o m) \in Seq(D) /\ Len(s \o m) = Len(s) + Len(m)
  BY <1>2, ConcatProperties
<1>8. Len(s) \in Nat /\ Len(c) \in Nat /\ Len(m) \in Nat
  BY <1>2, <1>4
<1>9. answer = sc \o m
  BY <1>5
<1> HIDE DEF sc
<1>10. /\ answer \in Seq(D) /\ Len(answer) = Len(sc) + Len(m)
       /\ \A i \in 1 .. Len(sc) + Len(m) : answer[i] = IF i <= Len(sc) THEN sc[i] ELSE m[i - Len(sc)]
       /\ SubSeq(answer, Len(sc) + 1, Len(answer)) = m
  <2>1. sc \in Seq(D) /\ m \in Seq(D)
    BY <1>2, <1>6
  <2> QED
    BY <1>9, <2>1, ConcatProperties, TwoParts
<1> DEFINE added == Len(answer) - Len(s \o m)
<1>11. added = Len(c)
  BY <1>6, <1>7, <1>8, <1>10
<1>12. SubSeq(answer, Len(s) + added + 1, Len(answer)) = m
  BY <1>6, <1>10, <1>11
<1>13. SubSeq(answer, 1, Len(s)) = s
  <2> DEFINE t == SubSeq(answer, 1, Len(s))
  <2>1. \A i \in 1 .. Len(s) : answer[i] = s[i] /\ s[i] \in D
    BY <1>2, <1>6, <1>8, <1>10
  <2>2. /\ t \in Seq(D) /\ Len(t) = IF 1 <= Len(s) THEN Len(s) - 1 + 1 ELSE 0
        /\ \A i \in 1 .. Len(s) - 1 + 1 : t[i] = answer[1 + i - 1]
    <3>1. \A i \in 1 .. Len(s) : answer[i] \in D
      BY <2>1
    <3>2. 1 \in Int /\ Len(s) \in Int
      BY <1>8
    <3> QED
      BY <3>1, <3>2, SubSeqProperties
  <2>3. \A i \in 1 .. Len(s) : i \in 1 .. Len(s) - 1 + 1 /\ 1 + i - 1 = i
    BY <1>8
  <2> HIDE DEF t
  <2>4. Len(t) = Len(s) /\ \A i \in 1 .. Len(t) : t[i] = s[i]
    BY <1>8, <2>1, <2>2, <2>3
  <2>5. t = s
    BY <1>2, <2>2, <2>4, SeqEqual
  <2> QED
    BY <2>5 DEF t
<1>14. ASSUME NEW i \in Len(s) + 1 .. Len(s) + added
       PROVE  /\ answer[i] \in ToSet(m)
              /\ \A k \in Credentials : Has(s, k) => answer[i].kind # k
  <2>1. i - Len(s) \in 1 .. Len(c)
    BY <1>8, <1>11, <1>14
  <2>2. answer[i] = c[i - Len(s)]
    BY <1>6, <1>8, <1>10, <1>11, <1>14
  <2>3. DOMAIN m = 1 .. Len(m)
    BY <1>2
  <2> QED
    BY <1>4, <2>1, <2>2, <2>3 DEF ToSet
<1> QED
  BY <1>2, <1>4, <1>11, <1>12, <1>13, <1>14 DEF OnlyCopies, answer

\* What was received is the original, until a call has normalised it.
SdpInv ==
    /\ original \in Seq(Lines) /\ calls \in Nat
    /\ sdp = IF calls = 0 THEN original ELSE Normalize(original)

\* The answer a browser gets is the original one or what normalising it once gives.
LEMMA SdpInvariant == SdpSpec => []SdpInv
<1>1. SdpInit => SdpInv
  BY DEF SdpInit, SdpInv, Answers, SeqOf
<1>2. SdpInv /\ [SdpNext]_sdpVars => SdpInv'
  <2> SUFFICES ASSUME SdpInv, [SdpNext]_sdpVars PROVE SdpInv'
    OBVIOUS
  <2>1. CASE ReceiveAnswer
    <3>1. /\ original' = original /\ calls' = calls + 1
          /\ sdp' = Normalize(sdp)
          /\ original \in Seq(Lines) /\ calls \in Nat
          /\ sdp = IF calls = 0 THEN original ELSE Normalize(original)
      BY <2>1 DEF ReceiveAnswer, SdpInv
    <3>2. Normalize(Normalize(original)) = Normalize(original)
      BY <3>1, NormalizeTwice
    <3>3. sdp' = Normalize(original)
      BY <3>1, <3>2
    <3>4. calls' \in Nat /\ calls' # 0
      BY <3>1
    <3> QED
      BY <3>1, <3>3, <3>4 DEF SdpInv
  <2>2. CASE UNCHANGED sdpVars
    BY <2>2 DEF SdpInv, sdpVars
  <2> QED
    BY <2>1, <2>2 DEF SdpNext
<1> QED
  BY <1>1, <1>2, PTL DEF SdpSpec

\* For every answer, of any length and with any number of media sections: a credential
\* that stands anywhere in it stands in its session section afterwards
\* (normalize_remote_answer_sdp, signaling.rs).
THEOREM Credentialed == SdpSpec => []SessionHasCredentials
<1>1. SdpInv => SessionHasCredentials
  <2> SUFFICES ASSUME SdpInv, calls > 0, NEW k \in Credentials, Has(original, k)
               PROVE  Has(SessionPart(sdp), k)
    BY DEF SessionHasCredentials
  <2>1. original \in Seq(Lines) /\ sdp = Normalize(original)
    <3>1. calls # 0
      BY DEF SdpInv
    <3> QED
      BY <3>1 DEF SdpInv
  <2>2. PICK s \in Seq(Lines), u \in Seq(Lines), p \in Seq(Lines), m \in Seq(Lines) :
             Assembled(Lines, original, s, u, p, m, sdp)
    BY <2>1, NormalizeAssembles
  <2> DEFINE lines == NonEmpty(original)
             sup == s \o u \o p
  <2>3. Has(lines, k)
    <3>1. PICK i \in DOMAIN original : original[i].kind = k
      BY DEF Has
    <3>2. i \in 1 .. Len(original) /\ original[i] # EmptyLine
      BY <2>1, <3>1 DEF EmptyLine, Credentials
    <3>3. IsFiltered(Lines, original, Len(original), lines)
      BY <2>1, NonEmptyIs
    <3> HIDE DEF lines
    <3>4. PICK n \in 1 .. Len(lines) : lines[n] = original[i]
      BY <3>2, <3>3 DEF IsFiltered
    <3>5. DOMAIN lines = 1 .. Len(lines)
      BY <3>3 DEF IsFiltered
    <3> QED
      BY <3>1, <3>4, <3>5 DEF Has
  <2>4. lines = s \o m /\ CutAt(sdp, sup, m)
    BY <2>2 DEF Assembled
  <2>5. Has(s, k) \/ Has(m, k)
    <3> HIDE DEF lines
    <3> QED
      BY <2>3, <2>4, HasConcat
  <2>6. sup \in Seq(Lines) /\ Has(sup, k)
    <3>1. /\ s \o u \o p \in Seq(Lines)
          /\ Has(s, k) \/ Has(m, k) => Has(s \o u \o p, k)
      BY <2>1, <2>2, SectionIsComplete
    <3> QED
      BY <2>5, <3>1
  <2>7. SessionPart(sdp) = sup
    <3> HIDE DEF sup
    <3> QED
      BY <2>4, <2>6, CutIsParts
  <2> QED
    BY <2>6, <2>7
<1> QED
  BY <1>1, SdpInvariant, PTL

\* Whatever an answer is, normalising it inserts copies of the credentials that its
\* session section lacks, one of each at the most, and a second call changes nothing
\* (normalize_remote_answer_sdp, signaling.rs).
THEOREM Appended == SdpSpec => []OnlyAppends
<1>1. SdpInv => OnlyAppends
  <2> SUFFICES ASSUME SdpInv, calls > 0 PROVE OnlyCopies(original, sdp)
    BY DEF OnlyAppends, OnlyCopies
  <2> QED
    BY NormalizeOnlyCopies DEF SdpInv
<1> QED
  BY <1>1, SdpInvariant, PTL

--------------------------------------------------------------------------------
(* The FLV header *)

Tags == [type : Nat, payload : Seq(Nat)]

\* What the parser reads of a tag at an offset.
IsTagAt(data, pos, t) ==
    /\ data[pos + 1] = t.type
    /\ Size24(data[pos + 2], data[pos + 3], data[pos + 4]) = Len(t.payload)
    /\ Len(t.payload) >= 2 => data[pos + 12] = t.payload[1] /\ data[pos + 13] = t.payload[2]

\* A header of zeros is a sequence of bytes.
LEMMA ZerosType ==
  ASSUME NEW n \in Nat
  PROVE  Zeros(n) \in Seq(Nat) /\ Len(Zeros(n)) = n
BY DEF Zeros

\* A sequence and another behind it.
Joined(l, a, b) ==
    /\ Len(l) = Len(a) + Len(b)
    /\ \A i \in 1 .. Len(a) : l[i] = a[i]
    /\ \A i \in 1 .. Len(b) : l[Len(a) + i] = b[i]

\* A sequence joined of two has the elements of both, in their order.
LEMMA Joins ==
  ASSUME NEW D, NEW a \in Seq(D), NEW b \in Seq(D)
  PROVE  a \o b \in Seq(D) /\ Joined(a \o b, a, b)
<1> DEFINE l == a \o b
           A == Len(a)
           B == Len(b)
<1>1. /\ l \in Seq(D) /\ Len(l) = A + B
      /\ \A i \in 1 .. A + B : l[i] = IF i <= A THEN a[i] ELSE b[i - A]
  BY ConcatProperties
<1>2. A \in Nat /\ B \in Nat
  OBVIOUS
<1> HIDE DEF l, A, B
<1>3. \A i \in 1 .. A : i \in 1 .. A + B /\ i <= A
  BY <1>2
<1>4. \A i \in 1 .. B : A + i \in 1 .. A + B /\ ~(A + i <= A) /\ (A + i) - A = i
  BY <1>2
<1>5. Len(l) = A + B /\ (\A i \in 1 .. A : l[i] = a[i]) /\ (\A i \in 1 .. B : l[A + i] = b[i])
  BY <1>1, <1>3, <1>4
<1> QED
  BY <1>1, <1>5 DEF Joined, l, A, B

\* The bytes of a tag are what the parser takes them for.
Encodes(all, t) ==
    /\ all \in Seq(Nat) /\ Len(all) = 15 + Len(t.payload)
    /\ all[1] = t.type
    /\ Size24(all[2], all[3], all[4]) = Len(t.payload)
    /\ \A i \in 1 .. Len(t.payload) : all[11 + i] = t.payload[i]

\* A tag's bytes hold its type, its size and its payload where the format has them.
LEMMA TagBytesEncode == ASSUME NEW t \in Tags PROVE Encodes(TagBytes(t), t)
<1> DEFINE n == Len(t.payload)
           a == n \div 256
           b == n % 256
           c == a \div 256
           d == a % 256
           head == <<t.type, c, d, b>>
           hz == head \o Zeros(7)
           hzp == hz \o t.payload
           all == hzp \o Zeros(4)
<1>1. n \in Nat /\ t.payload \in Seq(Nat) /\ t.type \in Nat
  BY DEF Tags
<1>2. TagBytes(t) = all
  BY DEF TagBytes
<1>3. b \in Nat /\ c \in Nat /\ d \in Nat /\ Size24(c, d, b) = n
  <2> HIDE DEF n
  <2>1. a \in Nat /\ b \in Nat /\ n = 256 * a + b
    BY <1>1
  <2> HIDE DEF a, b
  <2>2. c \in Nat /\ d \in Nat /\ a = 256 * c + d
    BY <2>1
  <2> HIDE DEF c, d
  <2> QED
    BY <2>1, <2>2 DEF Size24
<1> HIDE DEF n, a, b, c, d
<1>4. /\ head \in Seq(Nat) /\ Len(head) = 4
      /\ head[1] = t.type /\ Size24(head[2], head[3], head[4]) = n
  BY <1>1, <1>3
<1> HIDE DEF head
<1>5. Zeros(7) \in Seq(Nat) /\ Len(Zeros(7)) = 7 /\ Zeros(4) \in Seq(Nat) /\ Len(Zeros(4)) = 4
  BY ZerosType
<1>6. hz \in Seq(Nat) /\ Joined(hz, head, Zeros(7))
  BY <1>4, <1>5, Joins
<1> HIDE DEF hz
<1>7. hzp \in Seq(Nat) /\ Joined(hzp, hz, t.payload)
  BY <1>1, <1>6, Joins
<1> HIDE DEF hzp
<1>8. all \in Seq(Nat) /\ Joined(all, hzp, Zeros(4))
  BY <1>5, <1>7, Joins
<1> HIDE DEF all
<1>9. Len(hz) = 11 /\ \A i \in 1 .. 4 : hz[i] = head[i]
  <2>1. Len(hz) = Len(head) + Len(Zeros(7)) /\ \A i \in 1 .. Len(head) : hz[i] = head[i]
    BY <1>6 DEF Joined
  <2>2. Len(head) = 4 /\ Len(Zeros(7)) = 7
    BY <1>4, <1>5
  <2> DEFINE x == Len(head)
             y == Len(Zeros(7))
             z == Len(hz)
  <2>3. x = 4 /\ y = 7 /\ z = x + y
    BY <2>1, <2>2
  <2> HIDE DEF x, y, z
  <2>4. z = 11
    BY <2>3
  <2> QED
    BY <2>1, <2>2, <2>4 DEF z
<1>10. /\ Len(hzp) = 11 + n
       /\ \A i \in 1 .. 11 : hzp[i] = hz[i]
       /\ \A i \in 1 .. n : hzp[11 + i] = t.payload[i]
  BY <1>7, <1>9 DEF Joined, n
<1>11. /\ Len(all) = (11 + n) + 4
       /\ \A i \in 1 .. 11 + n : all[i] = hzp[i]
  BY <1>5, <1>8, <1>10 DEF Joined
<1>12. ASSUME NEW i \in 1 .. 4 PROVE all[i] = head[i]
  <2>1. i \in 1 .. 11 /\ i \in 1 .. 11 + n
    BY <1>1
  <2> QED
    BY <1>9, <1>10, <1>11, <2>1
<1>13. ASSUME NEW i \in 1 .. n PROVE all[11 + i] = t.payload[i]
  <2>1. 11 + i \in 1 .. 11 + n
    BY <1>1
  <2> QED
    BY <1>10, <1>11, <2>1
<1>14. Len(all) = 15 + n
  BY <1>1, <1>11
<1>15. all[1] = head[1] /\ all[2] = head[2] /\ all[3] = head[3] /\ all[4] = head[4]
  BY <1>12
<1>16. all[1] = t.type /\ Size24(all[2], all[3], all[4]) = n
  BY <1>4, <1>15
<1> QED
  BY <1>2, <1>8, <1>13, <1>14, <1>16 DEF n, Encodes

\* What has been written after so many tags, without a CHOOSE.
IsWritten(ts, w) ==
    /\ w \in [0 .. Len(ts) -> Seq(Nat)]
    /\ w[0] = Zeros(13)
    /\ \A i \in 1 .. Len(ts) : w[i] = w[i - 1] \o TagBytes(ts[i])

\* The output is written tag by tag, behind the header.
LEMMA WrittenIs == ASSUME NEW ts \in Seq(Tags) PROVE IsWritten(ts, Written(ts))
<1> DEFINE N == Len(ts)
           X == Seq(Nat)
           Grows(w) == w = [i \in 0 .. N |-> IF i = 0 THEN Zeros(13) ELSE w[i - 1] \o TagBytes(ts[i])]
           G == [y \in X \X (1 .. N) |-> y[1] \o TagBytes(ts[y[2]])]
<1>1. N \in Nat /\ DOMAIN ts = 1 .. N /\ \A i \in 1 .. N : ts[i] \in Tags
  OBVIOUS
<1>2. \A i \in 1 .. N : TagBytes(ts[i]) \in X
  BY <1>1, TagBytesEncode DEF Encodes
<1>3. G \in [X \X (1 .. N) -> X]
  <2>1. \A y \in X \X (1 .. N) : y[1] \o TagBytes(ts[y[2]]) \in X
    BY <1>2, ConcatProperties
  <2> QED
    BY <2>1
<1>4. Zeros(13) \in X
  BY ZerosType
<1>5. PICK w : Grown(w, X, Zeros(13), N, G)
  <2> HIDE DEF N, X, G
  <2> QED
    BY <1>1, <1>3, <1>4, GrowthExists
<1>6. /\ w \in [0 .. N -> X]
      /\ \A i \in 0 .. N : w[i] = IF i = 0 THEN Zeros(13) ELSE G[<<w[i - 1], i>>]
  <2> HIDE DEF N, X, G
  <2> QED
    BY <1>5 DEF Grown
<1>7. ASSUME NEW i \in 0 .. N
      PROVE  w[i] = IF i = 0 THEN Zeros(13) ELSE w[i - 1] \o TagBytes(ts[i])
  <2>1. CASE i = 0
    BY <1>6, <2>1
  <2>2. CASE i # 0
    <3>1. i \in 1 .. N /\ i - 1 \in 0 .. N
      BY <1>1, <2>2
    <3>2. w[i - 1] \in X
      BY <1>6, <3>1
    <3>3. G[<<w[i - 1], i>>] = w[i - 1] \o TagBytes(ts[i])
      <4> HIDE DEF X, N
      <4> QED
        BY <3>1, <3>2
    <3> HIDE DEF G, X, N
    <3> QED
      BY <1>6, <2>2, <3>3
  <2> QED
    BY <2>1, <2>2
<1>8. Grows(w)
  <2> HIDE DEF X, N, G
  <2> QED
    BY <1>6, <1>7
<1> DEFINE v == CHOOSE x : Grows(x)
<1>9. Grows(v)
  <2> HIDE DEF Grows
  <2> QED
    BY <1>8
<1>10. Written(ts) = v
  BY DEF Written
<1> HIDE DEF v, N
<1>11. v = w
  <2>0. v = [i \in 0 .. N |-> v[i]]
    BY <1>9
  <2> DEFINE I == {i \in Nat : i <= N => v[i] = w[i]}
  <2>1. 0 \in I
    <3>1. 0 \in 0 .. N
      BY <1>1
    <3>2. v[0] = Zeros(13) /\ w[0] = Zeros(13)
      BY <1>7, <1>9, <3>1
    <3> QED
      BY <3>2
  <2>2. ASSUME NEW i \in Nat, i \in I PROVE i + 1 \in I
    <3> SUFFICES ASSUME i + 1 <= N PROVE v[i + 1] = w[i + 1]
      OBVIOUS
    <3>1. i + 1 \in 0 .. N /\ i + 1 # 0 /\ (i + 1) - 1 = i /\ i <= N
      BY <1>1
    <3>2. v[i + 1] = v[i] \o TagBytes(ts[i + 1])
      BY <1>9, <3>1
    <3>3. w[i + 1] = w[i] \o TagBytes(ts[i + 1])
      BY <1>7, <3>1
    <3> QED
      BY <2>2, <3>1, <3>2, <3>3
  <2>3. \A i \in Nat : i \in I
    <3> HIDE DEF I
    <3> QED
      BY <2>1, <2>2, Upward
  <2>4. \A i \in 0 .. N : v[i] = w[i]
    BY <2>3
  <2> QED
    BY <1>6, <2>0, <2>4
<1>12. \A i \in 1 .. N : i \in 0 .. N /\ i # 0
  BY <1>1
<1>13. w[0] = Zeros(13)
  BY <1>1, <1>7
<1>14. \A i \in 1 .. N : w[i] = w[i - 1] \o TagBytes(ts[i])
  BY <1>7, <1>12
<1>15. IsWritten(ts, w)
  BY <1>6, <1>13, <1>14 DEF IsWritten, N
<1> QED
  BY <1>10, <1>11, <1>15

\* A sequence begins with another.
Begins(b, a) == Len(a) <= Len(b) /\ \A k \in 1 .. Len(a) : b[k] = a[k]

\* What has been written stays.
LEMMA WrittenStays ==
  ASSUME NEW ts \in Seq(Tags), NEW w, IsWritten(ts, w)
  PROVE  \A i \in 0 .. Len(ts) : Begins(w[Len(ts)], w[i])
<1> DEFINE N == Len(ts)
           R == {i \in Nat : Begins(w[N], w[i])}
<1>1. N \in Nat /\ DOMAIN ts = 1 .. N /\ \A i \in 1 .. N : ts[i] \in Tags
  OBVIOUS
<1>2. w \in [0 .. N -> Seq(Nat)] /\ \A i \in 1 .. N : w[i] = w[i - 1] \o TagBytes(ts[i])
  BY DEF IsWritten
<1> HIDE DEF N
<1>3. ASSUME NEW i \in 0 .. N, \A j \in 0 .. N : j > i => j \in R
      PROVE  i \in R
  <2>1. CASE i = N
    <3>1. w[N] \in Seq(Nat)
      BY <1>1, <1>2
    <3>2. Begins(w[N], w[N])
      BY <3>1 DEF Begins
    <3> QED
      BY <1>1, <2>1, <3>2
  <2>2. CASE i # N
    <3>1. i + 1 \in 0 .. N /\ i + 1 \in 1 .. N /\ i + 1 > i /\ (i + 1) - 1 = i
      BY <1>1, <2>2
    <3> DEFINE a == w[i]
               b == w[i + 1]
               c == w[N]
               t == TagBytes(ts[i + 1])
    <3>2. a \in Seq(Nat) /\ b \in Seq(Nat) /\ c \in Seq(Nat) /\ t \in Seq(Nat)
      BY <1>1, <1>2, <3>1, TagBytesEncode DEF Encodes
    <3>3. b = a \o t
      BY <1>2, <3>1
    <3>4. Begins(c, b)
      BY <1>3, <3>1
    <3> HIDE DEF a, b, c, t
    <3>5. Joined(b, a, t)
      BY <3>2, <3>3, Joins
    <3> DEFINE x == Len(a)
               y == Len(t)
               z == Len(b)
    <3>6. x \in Nat /\ y \in Nat /\ z = x + y /\ \A k \in 1 .. x : b[k] = a[k]
      BY <3>2, <3>5 DEF Joined
    <3>7. z <= Len(c) /\ Len(c) \in Nat /\ \A k \in 1 .. z : c[k] = b[k]
      BY <3>2, <3>4 DEF Begins
    <3> HIDE DEF x, y, z
    <3>8. x <= Len(c) /\ \A k \in 1 .. x : c[k] = a[k]
      BY <3>6, <3>7
    <3>9. Begins(c, a)
      BY <3>8 DEF Begins, x
    <3> QED
      BY <3>9 DEF a, c
  <2> QED
    BY <2>1, <2>2
<1>4. \A i \in 0 .. N : i \in R
  <2> HIDE DEF R
  <2> QED
    BY <1>1, <1>3, Downward
<1> QED
  BY <1>4 DEF N

\* Where the tags end in the bytes, and what is found there.
Layout(ts, bytes, o) ==
    /\ o \in [0 .. Len(ts) -> Nat] /\ o[0] = 13 /\ o[Len(ts)] = Len(bytes)
    /\ \A i \in 1 .. Len(ts) :
          o[i] = o[i - 1] + 15 + Len(ts[i].payload) /\ IsTagAt(bytes, o[i - 1], ts[i])

\* Every tag of the output begins where the one before it ends.
LEMMA BytesAreLaidOut ==
  ASSUME NEW ts \in Seq(Tags)
  PROVE  Layout(ts, FlvBytes(ts), [i \in 0 .. Len(ts) |-> Len(Written(ts)[i])])
<1> DEFINE N == Len(ts)
           w == Written(ts)
           o == [i \in 0 .. N |-> Len(w[i])]
<1>1. N \in Nat /\ DOMAIN ts = 1 .. N /\ \A i \in 1 .. N : ts[i] \in Tags
  OBVIOUS
<1>2. IsWritten(ts, w)
  BY WrittenIs
<1> HIDE DEF w
<1>3. /\ w \in [0 .. N -> Seq(Nat)] /\ w[0] = Zeros(13)
      /\ \A i \in 1 .. N : w[i] = w[i - 1] \o TagBytes(ts[i])
  BY <1>2 DEF IsWritten
<1>4. \A i \in 0 .. N : Begins(w[N], w[i])
  BY <1>2, WrittenStays
<1>5. FlvBytes(ts) = w[N]
  BY DEF FlvBytes, w
<1>6. o \in [0 .. N -> Nat] /\ o[0] = 13 /\ o[N] = Len(w[N])
  <2>1. 0 \in 0 .. N /\ N \in 0 .. N
    BY <1>1
  <2>2. \A i \in 0 .. N : Len(w[i]) \in Nat
    BY <1>3
  <2>3. Len(w[0]) = 13
    BY <1>3, ZerosType
  <2> HIDE DEF N
  <2> QED
    BY <2>1, <2>2, <2>3
<1> HIDE DEF N
<1>7. ASSUME NEW i \in 1 .. N
      PROVE  o[i] = o[i - 1] + 15 + Len(ts[i].payload) /\ IsTagAt(w[N], o[i - 1], ts[i])
  <2>1. i \in 0 .. N /\ i - 1 \in 0 .. N
    BY <1>1
  <2> DEFINE a == w[i - 1]
             b == w[i]
             c == w[N]
             t == ts[i]
             s == TagBytes(t)
             x == Len(a)
             z == Len(b)
             m == Len(t.payload)
  <2>2. t \in Tags /\ a \in Seq(Nat) /\ b \in Seq(Nat) /\ c \in Seq(Nat)
    BY <1>1, <1>3, <2>1
  <2>3. Encodes(s, t) /\ s \in Seq(Nat)
    BY <2>2, TagBytesEncode DEF Encodes
  <2>4. b = a \o s /\ Begins(c, b) /\ o[i] = z /\ o[i - 1] = x
    BY <1>3, <1>4, <2>1
  <2> HIDE DEF a, b, c, s, t, o
  <2>5. Joined(b, a, s)
    BY <2>2, <2>3, <2>4, Joins
  <2>6. m \in Nat /\ Len(s) = 15 + m
    BY <2>2, <2>3 DEF Encodes, Tags
  <2>7. x \in Nat /\ z = x + (15 + m)
    BY <2>2, <2>5, <2>6 DEF Joined
  <2>8. \A k \in 1 .. 15 + m : b[x + k] = s[k]
    BY <2>5, <2>6 DEF Joined
  <2>9. \A k \in 1 .. z : c[k] = b[k]
    BY <2>4 DEF Begins
  <2> HIDE DEF x, z, m
  <2>10. \A k \in 1 .. 15 + m : x + k \in 1 .. z
    BY <2>6, <2>7
  <2>11. \A k \in 1 .. 15 + m : c[x + k] = s[k]
    BY <2>8, <2>9, <2>10
  <2>12. /\ s[1] = t.type /\ Size24(s[2], s[3], s[4]) = m
         /\ \A k \in 1 .. m : s[11 + k] = t.payload[k]
    BY <2>3 DEF Encodes, m
  <2>13. /\ c[x + 1] = s[1] /\ c[x + 2] = s[2] /\ c[x + 3] = s[3] /\ c[x + 4] = s[4]
         /\ m >= 2 => c[x + 12] = s[12] /\ c[x + 13] = s[13]
    BY <2>6, <2>11
  <2>14. m >= 2 => s[12] = t.payload[1] /\ s[13] = t.payload[2]
    <3>1. m >= 2 => s[11 + 1] = t.payload[1] /\ s[11 + 2] = t.payload[2]
      BY <2>6, <2>12
    <3>2. 11 + 1 = 12 /\ 11 + 2 = 13
      OBVIOUS
    <3> QED
      BY <3>1, <3>2
  <2>15. IsTagAt(c, x, t)
    BY <2>12, <2>13, <2>14 DEF IsTagAt, m
  <2>16. z = x + 15 + m
    BY <2>6, <2>7
  <2> QED
    BY <2>4, <2>15, <2>16 DEF c, t, m
<1> HIDE DEF o
<1>8. Layout(ts, w[N], o)
  BY <1>6, <1>7 DEF Layout, N
<1>9. o = [i \in 0 .. Len(ts) |-> Len(Written(ts)[i])]
  BY DEF o, w, N
<1> QED
  BY <1>5, <1>8, <1>9

\* The parser's loop at an offset, with its later passes in f.
TagEnd(data, pos) == pos + 11 + Size24(data[pos + 2], data[pos + 3], data[pos + 4]) + 4

Incomplete(data, pos) == pos + 11 > Len(data) \/ TagEnd(data, pos) > Len(data)

IsHeaderAt(data, pos) ==
    /\ data[pos + 1] = 9
    /\ Size24(data[pos + 2], data[pos + 3], data[pos + 4]) >= 2
    /\ IsSequenceHeader(data[pos + 12], data[pos + 13])

ScanAt(data, f, pos) ==
    IF Incomplete(data, pos) THEN None
    ELSE IF IsHeaderAt(data, pos) THEN TagEnd(data, pos)
    ELSE f[TagEnd(data, pos)]

Scans(data, f) == f = [pos \in 0 .. Len(data) |-> ScanAt(data, f, pos)]

\* The scan begins behind the header of 13 bytes.
LEMMA FlvSeqHdrEndIs ==
  ASSUME NEW data, NEW g, Scans(data, g)
  PROVE  \E f : Scans(data, f) /\ FlvSeqHdrEnd(data) = IF Len(data) < 13 THEN None ELSE f[13]
<1> DEFINE f == CHOOSE x : Scans(data, x)
<1>1. Scans(data, f)
  OBVIOUS
<1>2. FlvSeqHdrEnd(data) = IF Len(data) < 13 THEN None ELSE f[13]
  BY DEF FlvSeqHdrEnd, Scans, ScanAt, Incomplete, IsHeaderAt, TagEnd
<1> HIDE DEF f
<1> QED
  BY <1>1, <1>2

\* A size is a natural number.
LEMMA SizeType ==
  ASSUME NEW a \in Nat, NEW b \in Nat, NEW c \in Nat
  PROVE  Size24(a, b, c) \in Nat
BY DEF Size24

\* The loop ends: every pass but the last starts further on.
LEMMA ScanExists ==
  ASSUME NEW data \in Seq(Nat)
  PROVE  \E f : Scans(data, f)
<1> DEFINE n == Len(data)
           X == Nat \cup {None}
           stuck(t) == Incomplete(data, t)
           end(t) == TagEnd(data, t)
           ends == {t \in Nat : stuck(t) \/ IsHeaderAt(data, t)}
           base == [t \in Nat |-> IF stuck(t) THEN None ELSE end(t)]
           up == [t \in Nat |-> IF stuck(t) THEN 0 ELSE end(t)]
           G == [y \in Nat \X X |-> y[2]]
<1>1. n \in Nat
  OBVIOUS
<1>2. ASSUME NEW t \in Nat, ~stuck(t)
      PROVE  end(t) \in Nat /\ t < n /\ t < end(t) /\ end(t) <= n
  <2>1. ~(t + 11 > n) /\ ~(end(t) > n)
    BY <1>2 DEF Incomplete
  <2>2. data[t + 2] \in Nat /\ data[t + 3] \in Nat /\ data[t + 4] \in Nat
    <3>1. t + 2 \in 1 .. n /\ t + 3 \in 1 .. n /\ t + 4 \in 1 .. n
      BY <1>1, <2>1
    <3> QED
      BY <3>1
  <2> DEFINE size == Size24(data[t + 2], data[t + 3], data[t + 4])
  <2>3. size \in Nat
    BY <2>2, SizeType
  <2>4. end(t) = t + 11 + size + 4
    BY DEF TagEnd
  <2> HIDE DEF size, end
  <2> QED
    BY <1>1, <2>1, <2>3, <2>4
<1> HIDE DEF stuck, end, n
<1>3. ends \in SUBSET Nat /\ base \in [Nat -> X] /\ up \in [Nat -> Nat] /\ G \in [Nat \X X -> X]
  BY <1>2
<1>4. EndsBelow(n, ends, up)
  BY <1>2 DEF EndsBelow
<1>5. PICK h : Ascends(h, X, ends, base, up, G)
  <2> HIDE DEF X, ends, base, up, G
  <2> QED
    BY <1>1, <1>3, <1>4, AscentExists
<1>6. /\ h \in [Nat -> X]
      /\ \A t \in Nat : h[t] = IF t \in ends THEN base[t] ELSE G[<<t, h[up[t]]>>]
  <2> HIDE DEF X, ends, base, up, G
  <2> QED
    BY <1>5 DEF Ascends
<1> DEFINE f == [t \in 0 .. n |-> h[t]]
<1>7. ASSUME NEW t \in 0 .. n PROVE f[t] = ScanAt(data, f, t)
  <2>1. t \in Nat /\ f[t] = h[t]
    BY <1>1
  <2>2. CASE stuck(t)
    <3>1. h[t] = None
      BY <1>6, <2>1, <2>2
    <3> HIDE DEF f
    <3> QED
      BY <2>1, <2>2, <3>1 DEF ScanAt, stuck
  <2>3. CASE ~stuck(t) /\ IsHeaderAt(data, t)
    <3>1. h[t] = end(t)
      BY <1>6, <2>1, <2>3
    <3> HIDE DEF f
    <3> QED
      BY <2>1, <2>3, <3>1 DEF ScanAt, stuck, end
  <2>4. CASE ~stuck(t) /\ ~IsHeaderAt(data, t)
    <3>1. t \notin ends /\ up[t] = end(t) /\ end(t) \in Nat /\ end(t) \in 0 .. n
      BY <1>1, <1>2, <2>1, <2>4
    <3>2. h[end(t)] \in X
      BY <1>6, <3>1
    <3>3. G[<<t, h[end(t)]>>] = h[end(t)]
      BY <2>1, <3>2
    <3>4. h[t] = h[end(t)] /\ f[end(t)] = h[end(t)]
      <4>1. f[end(t)] = h[end(t)]
        BY <3>1
      <4> HIDE DEF ends, up, base, G, f
      <4> QED
        BY <1>6, <2>1, <3>1, <3>3, <4>1
    <3> HIDE DEF f
    <3> QED
      BY <2>1, <2>4, <3>4 DEF ScanAt, stuck, end
  <2> QED
    BY <2>2, <2>3, <2>4
<1>8. Scans(data, f)
  <2>1. f = [t \in 0 .. n |-> f[t]]
    OBVIOUS
  <2> HIDE DEF f
  <2>2. f = [t \in 0 .. n |-> ScanAt(data, f, t)]
    BY <1>7, <2>1
  <2> QED
    BY <2>2 DEF Scans, n
<1> QED
  BY <1>8

\* Of one tag.
LEMMA TagLaidOut ==
  ASSUME NEW ts \in Seq(Tags), NEW bytes, NEW o, Layout(ts, bytes, o), NEW i \in 1 .. Len(ts)
  PROVE  /\ ts[i] \in Tags /\ Len(ts[i].payload) \in Nat /\ o[i - 1] \in Nat /\ o[i] \in Nat
         /\ o[i] = o[i - 1] + 15 + Len(ts[i].payload) /\ o[i - 1] <= o[i]
         /\ IsTagAt(bytes, o[i - 1], ts[i])
<1> DEFINE m == Len(ts[i].payload)
           x == o[i - 1]
           y == o[i]
<1>1. ts[i] \in Tags
  OBVIOUS
<1>2. m \in Nat
  BY <1>1 DEF Tags
<1>3. i \in 0 .. Len(ts) /\ i - 1 \in 0 .. Len(ts)
  OBVIOUS
<1>4. x \in Nat /\ y \in Nat
  BY <1>3 DEF Layout
<1>5. y = x + 15 + m /\ IsTagAt(bytes, x, ts[i])
  BY DEF Layout
<1> HIDE DEF m, x, y
<1>6. x <= y
  BY <1>2, <1>4, <1>5
<1> QED
  BY <1>1, <1>2, <1>4, <1>5, <1>6 DEF m, x, y

\* Tags end one behind the other.
LEMMA TagsFollow ==
  ASSUME NEW ts \in Seq(Tags), NEW bytes, NEW o, Layout(ts, bytes, o)
  PROVE  \A i, j \in 0 .. Len(ts) : i <= j => o[i] <= o[j]
<1> DEFINE N == Len(ts)
<1>1. /\ N \in Nat /\ o \in [0 .. N -> Nat]
      /\ \A i \in 1 .. N : o[i - 1] <= o[i]
  <2>1. \A i \in 1 .. N : o[i - 1] <= o[i]
    BY TagLaidOut
  <2> QED
    BY <2>1 DEF Layout
<1> HIDE DEF N
<1>2. ASSUME NEW i \in 0 .. N PROVE \A j \in 0 .. N : i <= j => o[i] <= o[j]
  <2> DEFINE I == {d \in Nat : i + d <= N => o[i] <= o[i + d]}
  <2>1. 0 \in I
    BY <1>1
  <2>2. ASSUME NEW d \in Nat, d \in I PROVE d + 1 \in I
    <3> SUFFICES ASSUME i + (d + 1) <= N PROVE o[i] <= o[i + (d + 1)]
      OBVIOUS
    <3>1. i + d <= N /\ i + d \in 0 .. N /\ i + (d + 1) \in 1 .. N /\ (i + (d + 1)) - 1 = i + d
      BY <1>1
    <3>2. o[i] <= o[i + d] /\ o[i + d] <= o[i + (d + 1)]
      BY <1>1, <2>2, <3>1
    <3>3. o[i] \in Nat /\ o[i + d] \in Nat /\ o[i + (d + 1)] \in Nat
      BY <1>1, <3>1
    <3> QED
      BY <3>2, <3>3
  <2>3. \A d \in Nat : d \in I
    <3> HIDE DEF I
    <3> QED
      BY <2>1, <2>2, Upward
  <2>4. \A j \in 0 .. N : i <= j => j - i \in Nat /\ i + (j - i) = j /\ j <= N
    BY <1>1
  <2> QED
    BY <2>3, <2>4
<1> QED
  BY <1>2 DEF N

\* The first header tag, or the position behind the tags if there is none.
FirstIs(ts, first) ==
    /\ first \in 1 .. Len(ts) + 1
    /\ \A j \in 1 .. first - 1 : ~IsHeaderTag(ts[j])
    /\ first <= Len(ts) => IsHeaderTag(ts[first])

\* The parser, started on the beginning of what has been written, finds the end of the first
\* header tag if it is there.
LEMMA ScanFinds ==
  ASSUME NEW ts \in Seq(Tags), NEW bytes \in Seq(Nat), NEW o, Layout(ts, bytes, o),
         NEW first, FirstIs(ts, first),
         NEW data \in Seq(Nat), Begins(bytes, data), NEW f, Scans(data, f), Len(data) >= 13
  PROVE  f[13] = IF first <= Len(ts) /\ o[first] <= Len(data) THEN o[first] ELSE None
<1> DEFINE N == Len(ts)
           n == Len(data)
           end == IF first <= N /\ o[first] <= n THEN o[first] ELSE None
           R == {i \in Nat : o[i] <= n => f[o[i]] = end}
<1>0. N \in Nat /\ n \in Nat /\ first \in Nat /\ first - 1 \in Nat /\ first <= N + 1
  BY DEF FirstIs
<1>1. /\ N \in Nat /\ n \in Nat /\ first \in Nat /\ first - 1 \in Nat /\ first <= N + 1
      /\ o \in [0 .. N -> Nat] /\ o[0] = 13 /\ o[N] = Len(bytes)
      /\ n <= Len(bytes) /\ \A k \in 1 .. n : data[k] = bytes[k]
  BY DEF Layout, FirstIs, Begins
<1>2. \A i \in 1 .. N :
        /\ ts[i] \in Tags /\ Len(ts[i].payload) \in Nat
        /\ o[i] = o[i - 1] + 15 + Len(ts[i].payload) /\ IsTagAt(bytes, o[i - 1], ts[i])
  BY TagLaidOut
<1>3. \A i, j \in 0 .. N : i <= j => o[i] <= o[j]
  BY TagsFollow
<1>4. \A pos \in 0 .. n : f[pos] = ScanAt(data, f, pos)
  BY DEF Scans
<1>5. /\ \A j \in 1 .. first - 1 : ~IsHeaderTag(ts[j])
      /\ first <= N => IsHeaderTag(ts[first])
  BY DEF FirstIs
<1> HIDE DEF N, n
<1>6. ASSUME NEW i \in 0 .. first - 1, \A j \in 0 .. first - 1 : j > i => j \in R
      PROVE  i \in R
  <2> SUFFICES ASSUME o[i] <= n PROVE f[o[i]] = end
    OBVIOUS
  <2> HIDE DEF R
  <2>1. i \in 0 .. N /\ o[i] \in Nat /\ o[i] \in 0 .. n
    BY <1>1
  <2>2. CASE i = N
    <3>1. o[i] = n /\ ~(first <= N)
      <4>1. Len(bytes) \in Nat
        OBVIOUS
      <4> QED
        BY <1>1, <2>1, <2>2, <4>1
    <3>2. Incomplete(data, o[i])
      BY <2>1, <3>1 DEF Incomplete, n
    <3> QED
      BY <1>4, <2>1, <3>1, <3>2 DEF ScanAt
  <2>3. CASE i # N
    <3> DEFINE t == ts[i + 1]
               m == Len(t.payload)
               pos == o[i]
    <3>1. i + 1 \in 1 .. N /\ (i + 1) - 1 = i /\ i + 1 \in 0 .. N
      BY <1>1, <2>1, <2>3
    <3>2. /\ t \in Tags /\ m \in Nat /\ pos \in Nat /\ pos <= n
          /\ o[i + 1] = pos + 15 + m /\ IsTagAt(bytes, pos, t)
      BY <1>2, <2>1, <3>1
    <3>3. first <= N => o[i + 1] <= o[first] /\ o[first] \in Nat
      <4>1. i + 1 <= first /\ first \in 0 .. N + 1
        BY <1>0
      <4>2. first <= N => first \in 0 .. N
        BY <1>0, <4>1
      <4>3. o \in [0 .. N -> Nat]
        BY <1>1
      <4> HIDE DEF end
      <4>4. first <= N => o[first] \in Nat
        BY <4>2, <4>3
      <4>5. first <= N => o[i + 1] <= o[first]
        BY <1>3, <3>1, <4>1, <4>2
      <4> QED
        BY <4>4, <4>5
    <3> HIDE DEF t, m, pos
    <3>4. n \in Nat /\ m \in Nat /\ pos \in Nat /\ o[i + 1] = pos + 15 + m
      BY <1>0, <3>2
    <3>5. CASE pos + 11 > n
      <4>1. Incomplete(data, pos) /\ o[i + 1] > n
        <5>1. o[i + 1] > n
          BY <3>4, <3>5
        <5> QED
          BY <3>5, <5>1 DEF Incomplete, n
      <4>2. end = None
        BY <3>3, <3>4, <4>1
      <4> QED
        BY <1>4, <2>1, <4>1, <4>2 DEF ScanAt, pos
    <3>6. CASE ~(pos + 11 > n)
      <4>1. /\ data[pos + 1] = t.type
            /\ Size24(data[pos + 2], data[pos + 3], data[pos + 4]) = m
        <5>1. pos + 1 \in 1 .. n /\ pos + 2 \in 1 .. n /\ pos + 3 \in 1 .. n /\ pos + 4 \in 1 .. n
          BY <3>6, <3>4
        <5>2. /\ bytes[pos + 1] = t.type
              /\ Size24(bytes[pos + 2], bytes[pos + 3], bytes[pos + 4]) = m
          BY <3>2 DEF IsTagAt, m
        <5> QED
          BY <1>1, <5>1, <5>2
      <4>2. TagEnd(data, pos) = o[i + 1]
        <5>1. TagEnd(data, pos) = pos + 11 + m + 4
          BY <4>1 DEF TagEnd
        <5> QED
          BY <3>2, <5>1
      <4>3. CASE o[i + 1] > n
        <5>1. Incomplete(data, pos)
          BY <4>2, <4>3 DEF Incomplete, n
        <5>2. end = None
          BY <3>3, <3>4, <4>3
        <5> QED
          BY <1>4, <2>1, <5>1, <5>2 DEF ScanAt, pos
      <4>4. CASE ~(o[i + 1] > n)
        <5>1. ~Incomplete(data, pos)
          BY <3>6, <4>2, <4>4 DEF Incomplete, n
        <5>2. IsHeaderAt(data, pos) <=> IsHeaderTag(t)
          <6>1. m >= 2 => data[pos + 12] = t.payload[1] /\ data[pos + 13] = t.payload[2]
            <7>1. m >= 2 => pos + 12 \in 1 .. n /\ pos + 13 \in 1 .. n
              BY <3>4, <4>4
            <7> QED
              BY <1>1, <3>2, <7>1 DEF IsTagAt, m
          <6> QED
            BY <4>1, <6>1 DEF IsHeaderAt, IsHeaderTag, m
        <5>3. CASE i + 1 = first
          <6>1. IsHeaderTag(t) /\ end = o[i + 1]
            <7>1. first <= N /\ o[first] <= n
              BY <3>1, <3>4, <4>4, <5>3
            <7> QED
              BY <1>5, <5>3, <7>1 DEF t
          <6> QED
            BY <1>4, <2>1, <4>2, <5>1, <5>2, <6>1 DEF ScanAt, pos
        <5>4. CASE i + 1 # first
          <6>1. i + 1 \in 1 .. first - 1 /\ i + 1 \in 0 .. first - 1 /\ i + 1 > i
            BY <1>1, <5>4
          <6>2. ~IsHeaderTag(t)
            BY <1>5, <6>1 DEF t
          <6>3. f[o[i + 1]] = end
            <7>1. i + 1 \in R
              BY <1>6, <6>1
            <7>2. o[i + 1] <= n
              BY <3>4, <4>4
            <7> HIDE DEF end
            <7> QED
              BY <7>1, <7>2 DEF R
          <6>4. f[pos] = f[o[i + 1]]
            BY <1>4, <2>1, <4>2, <5>1, <5>2, <6>2 DEF ScanAt, pos
          <6> QED
            BY <6>3, <6>4 DEF pos
        <5> QED
          BY <5>3, <5>4
      <4> QED
        BY <4>3, <4>4
    <3> QED
      BY <3>5, <3>6
  <2> QED
    BY <2>2, <2>3
<1>7. \A i \in 0 .. first - 1 : i \in R
  <2> HIDE DEF R
  <2> QED
    BY <1>1, <1>6, Downward
<1>8. 0 \in 0 .. first - 1
  BY <1>1
<1> QED
  BY <1>1, <1>7, <1>8 DEF N, n

\* Where the parser finds the end of the first header tag in what has been read.
LEMMA ParserFinds ==
  ASSUME NEW ts \in Seq(Tags), NEW first, FirstIs(ts, first),
         NEW n \in 0 .. Len(FlvBytes(ts))
  PROVE  FlvSeqHdrEnd(SubSeq(FlvBytes(ts), 1, n)) =
           IF first <= Len(ts) /\ Len(Written(ts)[first]) <= n THEN Len(Written(ts)[first]) ELSE None
<1> DEFINE N == Len(ts)
           bytes == FlvBytes(ts)
           data == SubSeq(bytes, 1, n)
           o == [i \in 0 .. Len(ts) |-> Len(Written(ts)[i])]
<1>1. bytes \in Seq(Nat)
  <2>1. IsWritten(ts, Written(ts)) /\ N \in 0 .. N
    BY WrittenIs
  <2> QED
    BY <2>1 DEF IsWritten, FlvBytes
<1>2. Layout(ts, bytes, o)
  BY BytesAreLaidOut
<1>3. first \in 1 .. N + 1 /\ N \in Nat
  BY DEF FirstIs
<1>4. first <= N => Len(Written(ts)[first]) = o[first]
  BY <1>3
<1> HIDE DEF bytes, o
<1>5. data \in Seq(Nat) /\ Len(data) = n /\ \A k \in 1 .. n : data[k] = bytes[k]
  BY <1>1, SubSeqProperties DEF bytes
<1> HIDE DEF data
<1>6. Begins(bytes, data)
  BY <1>5 DEF Begins, bytes
<1>7. PICK g : Scans(data, g)
  BY <1>5, ScanExists
<1>8. PICK f : Scans(data, f) /\ FlvSeqHdrEnd(data) = IF Len(data) < 13 THEN None ELSE f[13]
  BY <1>7, FlvSeqHdrEndIs
<1>9. first <= N => 13 <= o[first] /\ o[first] \in Nat
  <2>1. \A i, j \in 0 .. N : i <= j => o[i] <= o[j]
    BY <1>2, TagsFollow
  <2>2. o[0] = 13 /\ o \in [0 .. N -> Nat]
    BY <1>2 DEF Layout
  <2>3. first <= N => 0 \in 0 .. N /\ first \in 0 .. N /\ 0 <= first
    BY <1>3
  <2> QED
    BY <2>1, <2>2, <2>3
<1>10. FlvSeqHdrEnd(data) = IF first <= N /\ o[first] <= n THEN o[first] ELSE None
  <2>1. CASE n < 13
    BY <1>5, <1>8, <1>9, <2>1
  <2>2. CASE ~(n < 13)
    <3>1. Len(data) >= 13
      BY <1>5, <2>2
    <3>2. f[13] = IF first <= N /\ o[first] <= n THEN o[first] ELSE None
      <4>1. f[13] = IF first <= N /\ o[first] <= Len(data) THEN o[first] ELSE None
        <5> DEFINE d == data
                   w == o
                   b == bytes
        <5>1. /\ b \in Seq(Nat) /\ Layout(ts, b, w) /\ d \in Seq(Nat) /\ Begins(b, d)
              /\ Scans(d, f) /\ Len(d) >= 13
          BY <1>1, <1>2, <1>5, <1>6, <1>8, <3>1 DEF data, bytes
        <5> HIDE DEF d, w, b
        <5>2. f[13] = IF first <= Len(ts) /\ w[first] <= Len(d) THEN w[first] ELSE None
          BY <5>1, ScanFinds
        <5> QED
          BY <5>2 DEF d, w
      <4> QED
        BY <1>5, <4>1
    <3> QED
      BY <1>5, <1>8, <2>2, <3>2
  <2> QED
    BY <2>1, <2>2
<1> HIDE DEF N
<1>11. FlvSeqHdrEnd(data) =
         IF first <= N /\ Len(Written(ts)[first]) <= n THEN Len(Written(ts)[first]) ELSE None
  BY <1>4, <1>10
<1> QED
  BY <1>11 DEF data, bytes, N

\* The end of the header as the properties state it.
LEMMA HeaderEndIs ==
  ASSUME tags \in Seq(Tags)
  PROVE  \E first : /\ FirstIs(tags, first)
                    /\ HasHeader <=> first <= Len(tags)
                    /\ HasHeader => HeaderEnd = Len(Written(tags)[first])
<1> DEFINE N == Len(tags)
           H == {i \in 1 .. N : IsHeaderTag(tags[i])}
           Is(i) == IsHeaderTag(tags[i]) /\ \A j \in 1 .. i - 1 : ~IsHeaderTag(tags[j])
           first == CHOOSE i \in DOMAIN tags : Is(i)
<1>1. N \in Nat /\ DOMAIN tags = 1 .. N
  OBVIOUS
<1>2. CASE H = {}
  <2>1. FirstIs(tags, N + 1) /\ ~(N + 1 <= N)
    BY <1>1, <1>2 DEF FirstIs
  <2>2. ~HasHeader
    BY <1>1, <1>2 DEF HasHeader
  <2> QED
    BY <2>1, <2>2
<1>3. CASE H # {}
  <2>1. H \in SUBSET Nat
    OBVIOUS
  <2>2. PICK i \in H : \A j \in H : i <= j
    <3> HIDE DEF H
    <3> QED
      BY <1>3, <2>1, Least
  <2>3. i \in DOMAIN tags /\ Is(i)
    <3>1. \A j \in 1 .. i - 1 : j \in 1 .. N /\ ~(i <= j)
      BY <1>1
    <3> QED
      BY <1>1, <2>2, <3>1
  <2>4. first \in DOMAIN tags /\ Is(first)
    <3> HIDE DEF Is
    <3> QED
      BY <2>3
  <2>5. HeaderEnd = Len(Written(tags)[first])
    BY DEF HeaderEnd
  <2> HIDE DEF first
  <2>6. HasHeader /\ first <= N /\ FirstIs(tags, first)
    BY <1>1, <2>4 DEF HasHeader, FirstIs
  <2> QED
    BY <2>5, <2>6
<1> QED
  BY <1>2, <1>3

\* The cache and the flag at every moment, and the types this needs.
FlvInv ==
    /\ tags \in Seq(Tags) /\ mpegts \in BOOLEAN /\ init_complete \in BOOLEAN
    /\ read \in 0 .. Len(FlvBytes(tags))
    /\ mpegts => init_complete
    /\ HeaderIsFound /\ CacheIsHeader

\* An output is a sequence of bytes.
LEMMA BytesType == ASSUME NEW ts \in Seq(Tags) PROVE FlvBytes(ts) \in Seq(Nat)
<1>1. IsWritten(ts, Written(ts)) /\ Len(ts) \in 0 .. Len(ts)
  BY WrittenIs
<1> QED
  BY <1>1 DEF IsWritten, FlvBytes

\* The beginning of a sequence, and what follows.
LEMMA FrontGrows ==
  ASSUME NEW D, NEW b \in Seq(D), NEW r \in 0 .. Len(b), NEW n \in Nat, r + n <= Len(b)
  PROVE  SubSeq(b, 1, r) \o SubSeq(b, r + 1, r + n) = SubSeq(b, 1, r + n)
<1> DEFINE x == SubSeq(b, 1, r)
           y == SubSeq(b, r + 1, r + n)
           z == SubSeq(b, 1, r + n)
           L == Len(b)
<1>0. L \in Nat /\ r \in Nat /\ r <= L /\ r + n <= L
  OBVIOUS
<1>1. x \in Seq(D) /\ Len(x) = r /\ \A k \in 1 .. r : x[k] = b[k]
  BY SubSeqProperties
<1>2. y \in Seq(D) /\ Len(y) = n /\ \A k \in 1 .. n : y[k] = b[r + k]
  <2>1. Len(y) = IF r + 1 <= r + n THEN (r + n) - (r + 1) + 1 ELSE 0
    BY <1>0, SubSeqProperties
  <2>2. Len(y) = n
    BY <1>0, <2>1
  <2>3. y \in Seq(D)
    BY <1>0, SubSeqProperties
  <2>4. \A k \in 1 .. n : y[k] = b[r + k]
    <3>1. \A k \in 1 .. n : y[k] = b[(r + 1) + k - 1] /\ (r + 1) + k - 1 = r + k
      BY <1>0, <2>2, SubSeqProperties
    <3> QED
      BY <3>1
  <2> QED
    BY <2>2, <2>3, <2>4
<1>3. z \in Seq(D) /\ Len(z) = r + n /\ \A k \in 1 .. r + n : z[k] = b[k]
  BY <1>0, SubSeqProperties
<1> HIDE DEF x, y, z, L
<1>4. x \o y \in Seq(D) /\ Joined(x \o y, x, y)
  BY <1>1, <1>2, Joins
<1> DEFINE l == x \o y
<1> HIDE DEF l
<1>5. /\ l \in Seq(D) /\ Len(l) = r + n
      /\ \A k \in 1 .. r : l[k] = x[k]
      /\ \A k \in 1 .. n : l[r + k] = y[k]
  BY <1>1, <1>2, <1>4 DEF Joined, l
<1>6. \A k \in 1 .. r + n : l[k] = z[k]
  <2> TAKE k \in 1 .. r + n
  <2>1. CASE k <= r
    BY <1>0, <1>1, <1>3, <1>5, <2>1
  <2>2. CASE ~(k <= r)
    <3>1. k - r \in 1 .. n /\ r + (k - r) = k
      BY <1>0, <2>2
    <3>2. l[r + (k - r)] = y[k - r] /\ y[k - r] = b[r + (k - r)]
      BY <1>2, <1>5, <3>1
    <3> QED
      BY <1>3, <3>1, <3>2
  <2> QED
    BY <2>1, <2>2
<1>7. l = z
  BY <1>3, <1>5, <1>6, SeqEqual
<1> QED
  BY <1>7 DEF l, x, y, z

\* The front of a front is a front.
LEMMA FrontOfFront ==
  ASSUME NEW D, NEW b \in Seq(D), NEW m \in 0 .. Len(b), NEW e \in 0 .. m
  PROVE  SubSeq(SubSeq(b, 1, m), 1, e) = SubSeq(b, 1, e)
<1> DEFINE x == SubSeq(b, 1, m)
           y == SubSeq(x, 1, e)
           z == SubSeq(b, 1, e)
<1>1. x \in Seq(D) /\ Len(x) = m /\ \A k \in 1 .. m : x[k] = b[k]
  BY SubSeqProperties
<1>2. z \in Seq(D) /\ Len(z) = e /\ \A k \in 1 .. e : z[k] = b[k]
  BY SubSeqProperties
<1> HIDE DEF x
<1>3. y \in Seq(D) /\ Len(y) = e /\ \A k \in 1 .. e : y[k] = x[k]
  BY <1>1, SubSeqProperties
<1> HIDE DEF y, z
<1>4. \A k \in 1 .. e : y[k] = z[k]
  <2>1. \A k \in 1 .. e : k \in 1 .. m
    OBVIOUS
  <2> QED
    BY <1>1, <1>2, <1>3, <2>1
<1>5. y = z
  BY <1>2, <1>3, <1>4, SeqEqual
<1> QED
  BY <1>5 DEF x, y, z

\* A read keeps the invariant.
LEMMA ReadKeeps ==
  ASSUME FlvInv, NEW n \in ChunkSize, ReadChunk(n)
  PROVE  FlvInv'
<1> DEFINE b == FlvBytes(tags)
           m == read + n
           cache == SubSeq(b, 1, m)
<1>1. n \in Nat /\ None \notin Nat
  BY FlvConstants
<1>2. /\ tags \in Seq(Tags) /\ mpegts \in BOOLEAN /\ init_complete \in BOOLEAN
      /\ read \in 0 .. Len(b) /\ (mpegts => init_complete)
  BY DEF FlvInv
<1>3. m <= Len(b) /\ read' = m /\ tags' = tags /\ mpegts' = mpegts
  BY DEF ReadChunk
<1>4. b \in Seq(Nat)
  BY <1>2, BytesType
<1>5. m \in 0 .. Len(b) /\ read <= m
  <2> DEFINE L == Len(b)
  <2>1. L \in Nat /\ read \in 0 .. L /\ m <= L
    BY <1>2, <1>3, <1>4
  <2> HIDE DEF L
  <2>2. m \in 0 .. L /\ read <= m
    BY <1>1, <2>1
  <2> QED
    BY <2>2 DEF L
<1>6. HeaderEnd' = HeaderEnd /\ HasHeader' = HasHeader /\ FlvBytes(tags)' = b
  BY <1>3 DEF HeaderEnd, HasHeader
<1>7. PICK first : /\ FirstIs(tags, first)
                   /\ HasHeader <=> first <= Len(tags)
                   /\ HasHeader => HeaderEnd = Len(Written(tags)[first])
  BY <1>2, HeaderEndIs
<1>8. HasHeader => HeaderEnd \in Nat
  <2>1. IsWritten(tags, Written(tags))
    BY <1>2, WrittenIs
  <2>2. HasHeader => first \in 0 .. Len(tags)
    BY <1>7 DEF FirstIs
  <2> QED
    BY <1>7, <2>1, <2>2 DEF IsWritten
<1>9. HeaderIsFound /\ CacheIsHeader
  BY DEF FlvInv
<1>10. CASE init_complete
  <2>1. init_cache' = init_cache /\ init_complete'
    BY <1>10 DEF ReadChunk
  <2>2. HeaderIsFound'
    <3>1. ~mpegts => HasHeader /\ read >= HeaderEnd
      BY <1>9, <1>10 DEF HeaderIsFound
    <3>2. ~mpegts => m >= HeaderEnd
      <4>1. read \in Nat /\ m \in Nat /\ read <= m
        BY <1>2, <1>5
      <4> HIDE DEF m
      <4> QED
        BY <1>8, <3>1, <4>1
    <3> QED
      BY <1>3, <1>6, <2>1, <3>1, <3>2 DEF HeaderIsFound
  <2>3. CacheIsHeader'
    BY <1>3, <1>6, <1>9, <1>10, <2>1 DEF CacheIsHeader
  <2> QED
    BY <1>2, <1>3, <1>5, <1>6, <2>1, <2>2, <2>3 DEF FlvInv
<1>11. CASE ~init_complete
  <2> DEFINE end == FlvSeqHdrEnd(cache)
  <2>1. ~mpegts /\ init_cache = SubSeq(b, 1, read)
    <3>1. ~mpegts
      BY <1>2, <1>11
    <3>2. init_cache = IF mpegts THEN <<>> ELSE SubSeq(b, 1, IF init_complete THEN HeaderEnd ELSE read)
      BY <1>9 DEF CacheIsHeader
    <3> HIDE DEF b
    <3> QED
      BY <1>11, <3>1, <3>2
  <2>2. init_cache \o SubSeq(b, read + 1, read + n) = cache
    <3>1. read \in 0 .. Len(b) /\ read + n <= Len(b) /\ b \in Seq(Nat)
      BY <1>2, <1>3, <1>4
    <3> HIDE DEF b
    <3>2. SubSeq(b, 1, read) \o SubSeq(b, read + 1, read + n) = SubSeq(b, 1, read + n)
      BY <1>1, <3>1, FrontGrows
    <3> QED
      BY <2>1, <3>2
  <2>3. /\ init_cache' = IF end = None THEN cache ELSE SubSeq(cache, 1, end)
        /\ init_complete' = (end # None)
    BY <1>11, <2>2 DEF ReadChunk
  <2>4. end = IF HasHeader /\ HeaderEnd <= m THEN HeaderEnd ELSE None
    <3>1. end = IF first <= Len(tags) /\ Len(Written(tags)[first]) <= m
                THEN Len(Written(tags)[first]) ELSE None
      BY <1>2, <1>5, <1>7, ParserFinds
    <3> HIDE DEF end
    <3> QED
      BY <1>7, <3>1
  <2>5. CASE HasHeader /\ HeaderEnd <= m
    <3>1. end = HeaderEnd /\ HeaderEnd \in 0 .. m
      BY <1>5, <1>8, <2>4, <2>5
    <3>2. SubSeq(cache, 1, HeaderEnd) = SubSeq(b, 1, HeaderEnd)
      BY <1>4, <1>5, <3>1, FrontOfFront
    <3>3. end # None
      BY <1>1, <1>8, <2>5, <3>1
    <3> HIDE DEF end
    <3>4. init_complete' /\ init_cache' = SubSeq(b, 1, HeaderEnd)
      BY <2>3, <3>1, <3>2, <3>3
    <3>5. HeaderIsFound' /\ CacheIsHeader'
      <4>1. m >= HeaderEnd
        BY <1>5, <3>1
      <4> QED
        BY <1>3, <1>6, <2>1, <2>5, <3>4, <4>1 DEF HeaderIsFound, CacheIsHeader
    <3>6. init_complete' \in BOOLEAN
      BY <2>3
    <3> QED
      BY <1>2, <1>3, <1>5, <1>6, <3>4, <3>5, <3>6 DEF FlvInv
  <2>6. CASE ~(HasHeader /\ HeaderEnd <= m)
    <3>1. end = None
      BY <2>4, <2>6
    <3> HIDE DEF end
    <3>2. ~init_complete' /\ init_cache' = cache
      BY <2>3, <3>1
    <3>3. HeaderIsFound' /\ CacheIsHeader'
      <4>1. HasHeader => ~(m >= HeaderEnd)
        BY <1>5, <1>8, <2>6
      <4> QED
        BY <1>3, <1>6, <2>1, <3>2, <4>1 DEF HeaderIsFound, CacheIsHeader
    <3>4. init_complete' \in BOOLEAN
      BY <2>3
    <3> QED
      BY <1>2, <1>3, <1>5, <1>6, <2>1, <3>3, <3>4 DEF FlvInv
  <2> QED
    BY <2>5, <2>6
<1> QED
  BY <1>2, <1>10, <1>11

\* The scanner's invariant, by induction over the chunks.
LEMMA FlvInvariant == FlvSpec => []FlvInv
<1>1. FlvInit => FlvInv
  <2> SUFFICES ASSUME FlvInit PROVE FlvInv
    OBVIOUS
  <2> DEFINE b == FlvBytes(tags)
  <2>1. tags \in Seq(Tags) /\ mpegts \in BOOLEAN /\ read = 0 /\ init_cache = <<>> /\ init_complete = mpegts
    BY FlvConstants DEF FlvInit, Tags
  <2>2. b \in Seq(Nat)
    BY <2>1, BytesType
  <2>3. read \in 0 .. Len(b)
    BY <2>1, <2>2
  <2>4. PICK first : /\ FirstIs(tags, first)
                     /\ HasHeader <=> first <= Len(tags)
                     /\ HasHeader => HeaderEnd = Len(Written(tags)[first])
    BY <2>1, HeaderEndIs
  <2>5. HasHeader => HeaderEnd \in Nat /\ 13 <= HeaderEnd
    <3> DEFINE o == [i \in 0 .. Len(tags) |-> Len(Written(tags)[i])]
    <3>1. Layout(tags, b, o)
      BY <2>1, BytesAreLaidOut
    <3>2. HasHeader => first \in 0 .. Len(tags) /\ 0 \in 0 .. Len(tags) /\ 0 <= first
      BY <2>4 DEF FirstIs
    <3>3. HasHeader => HeaderEnd = o[first]
      BY <2>4, <3>2
    <3> HIDE DEF o, b
    <3>4. \A i, j \in 0 .. Len(tags) : i <= j => o[i] <= o[j]
      BY <2>1, <3>1, TagsFollow
    <3>5. o[0] = 13 /\ o \in [0 .. Len(tags) -> Nat]
      BY <3>1 DEF Layout
    <3> QED
      BY <3>2, <3>3, <3>4, <3>5
  <2>6. HeaderIsFound
    BY <2>1, <2>5 DEF HeaderIsFound
  <2>7. SubSeq(b, 1, 0) = <<>>
    BY <2>2, SubSeqProperties
  <2>8. CacheIsHeader
    BY <2>1, <2>7 DEF CacheIsHeader
  <2> QED
    BY <2>1, <2>3, <2>6, <2>8 DEF FlvInv
<1>2. FlvInv /\ [FlvNext]_flvVars => FlvInv'
  <2> SUFFICES ASSUME FlvInv, [FlvNext]_flvVars PROVE FlvInv'
    OBVIOUS
  <2>1. ASSUME NEW n \in ChunkSize, ReadChunk(n) PROVE FlvInv'
    BY <2>1, ReadKeeps
  <2>2. CASE UNCHANGED flvVars
    BY <2>2 DEF FlvInv, flvVars, HeaderIsFound, CacheIsHeader, HasHeader, HeaderEnd
  <2> QED
    BY <2>1, <2>2 DEF FlvNext
<1> QED
  BY <1>1, <1>2, PTL DEF FlvSpec

\* However long FFmpeg's output is and however the pipe cuts it, the relay task of
\* spawn_ffmpeg freezes the cache with the chunk that completes the first video sequence
\* header tag, never before and never later.
THEOREM HeaderFound == FlvSpec => []HeaderIsFound
<1>1. FlvInv => HeaderIsFound
  BY DEF FlvInv
<1> QED
  BY <1>1, FlvInvariant, PTL

\* And what it then keeps for late viewers is the output up to the end of that tag, with no
\* byte of a frame behind it.
THEOREM CacheCut == FlvSpec => []CacheIsHeader
<1>1. FlvInv => CacheIsHeader
  BY DEF FlvInv
<1> QED
  BY <1>1, FlvInvariant, PTL

--------------------------------------------------------------------------------
(* The sender's cuts *)

\* The number of pieces of at most mtu bytes that n bytes are cut into.
Pieces(n, mtu) == (n + mtu - 1) \div mtu

\* The last piece is the first to reach the end.
LEMMA PiecesSuffice ==
  ASSUME NEW n \in Nat \ {0}, NEW mtu \in Nat \ {0}
  PROVE  /\ Pieces(n, mtu) \in Nat \ {0}
         /\ (Pieces(n, mtu) - 1) * mtu < n
         /\ n <= Pieces(n, mtu) * mtu
<1> DEFINE a == n + mtu - 1
           k == a \div mtu
<1>1. a \in Nat /\ k \in Nat /\ a = mtu * k + (a % mtu) /\ a % mtu \in 0 .. mtu - 1
  OBVIOUS
<1> HIDE DEF k
<1>2. k # 0
  <2> SUFFICES ASSUME k = 0 PROVE FALSE
    OBVIOUS
  <2>1. mtu * k = 0
    OBVIOUS
  <2> QED
    BY <1>1, <2>1
<1>3. (k - 1) * mtu = k * mtu - mtu /\ k * mtu = mtu * k /\ k * mtu \in Nat
  BY <1>1
<1>4. (k - 1) * mtu < n /\ n <= k * mtu
  BY <1>1, <1>3
<1> QED
  BY <1>1, <1>2, <1>4 DEF k, Pieces

\* Multiplication keeps the order.
LEMMA Ordered ==
  ASSUME NEW i \in Nat, NEW j \in Nat, NEW m \in Nat, i <= j
  PROVE  i * m <= j * m /\ i * m \in Nat /\ j * m \in Nat
OBVIOUS

\* SplitBytes cuts a message into pieces of at most n bytes that lie behind each other,
\* from its first byte to its last (split_bytes, conn/mod.rs).
LEMMA Tiles ==
  ASSUME NEW D, NEW bytes \in Seq(D), bytes # <<>>, NEW n \in Nat \ {0}
  PROVE  LET p == SplitBytes(bytes, n)
         IN  /\ DOMAIN p = 1 .. Pieces(Len(bytes), n)
             /\ \A i \in 1 .. Pieces(Len(bytes), n) :
                  /\ p[i] = SubSeq(bytes, (i - 1) * n + 1, (i - 1) * n + Len(p[i]))
                  /\ Len(p[i]) \in 1 .. n
                  /\ (i - 1) * n + Len(p[i]) = (IF i = Pieces(Len(bytes), n) THEN Len(bytes) ELSE i * n)
<1> DEFINE L == Len(bytes)
           k == Pieces(L, n)
           p == SplitBytes(bytes, n)
           end(i) == IF i * n < L THEN i * n ELSE L
<1>1. L \in Nat \ {0}
  OBVIOUS
<1>2. k \in Nat \ {0} /\ (k - 1) * n < L /\ L <= k * n
  BY <1>1, PiecesSuffice
<1>3. p = [i \in 1 .. k |-> SubSeq(bytes, (i - 1) * n + 1, end(i))]
  BY DEF SplitBytes, Pieces
<1>4. ASSUME NEW i \in 1 .. k
      PROVE  /\ (i - 1) * n \in Nat /\ i * n \in Nat /\ i * n = (i - 1) * n + n
             /\ (i - 1) * n < L
             /\ i = k => L <= i * n
             /\ i # k => i * n < L
  <2>1. (i - 1) * n <= (k - 1) * n /\ (i - 1) * n \in Nat /\ (k - 1) * n \in Nat
    BY <1>2, Ordered
  <2>2. i # k => i * n <= (k - 1) * n
    BY <1>2, Ordered
  <2>3. i * n = (i - 1) * n + n /\ i * n \in Nat
    OBVIOUS
  <2> QED
    BY <1>1, <1>2, <2>1, <2>2, <2>3
<1> HIDE DEF L, k, p
<1>5. ASSUME NEW i \in 1 .. k
      PROVE  /\ p[i] = SubSeq(bytes, (i - 1) * n + 1, (i - 1) * n + Len(p[i]))
             /\ Len(p[i]) \in 1 .. n
             /\ (i - 1) * n + Len(p[i]) = (IF i = k THEN L ELSE i * n)
  <2>1. p[i] = SubSeq(bytes, (i - 1) * n + 1, end(i))
    BY <1>3
  <2>2. end(i) \in (i - 1) * n + 1 .. L /\ (i - 1) * n + 1 \in 1 .. L
    BY <1>1, <1>4
  <2> DEFINE from == (i - 1) * n + 1
             to == end(i)
  <2>3. from \in 1 .. Len(bytes) /\ to \in from .. Len(bytes)
    BY <1>1, <2>2 DEF L
  <2> HIDE DEF from, to
  <2>4. Len(SubSeq(bytes, from, to)) = to - from + 1
    BY <2>3
  <2>5. Len(p[i]) = end(i) - (i - 1) * n
    BY <1>1, <1>4, <2>1, <2>4 DEF from, to
  <2>6. (i - 1) * n + Len(p[i]) = end(i)
    BY <1>1, <1>4, <2>5
  <2> QED
    BY <1>1, <1>4, <2>1, <2>5, <2>6
<1> QED
  BY <1>3, <1>5 DEF L, k, p

\* Fragment i of k: the bytes of body at its offset, mtu of them but for the last.
TileOf(g, body, seq, mtu, i, k) ==
    /\ g.seq = seq /\ g.length = Len(body)
    /\ g.offset = (i - 1) * mtu
    /\ Len(g.data) \in 0 .. mtu
    /\ Len(g.data) = 0 => Len(body) = 0
    /\ g.data = SubSeq(body, g.offset + 1, g.offset + Len(g.data))
    /\ g.offset + Len(g.data) = IF i = k THEN Len(body) ELSE i * mtu

\* Every message is sent whole: its fragments, read in order, carry each of its bytes
\* once, none is larger than the size it was cut for, each says where it belongs and
\* how long the message is; and a message without bytes still has a fragment
\* (fragment_handshake, conn/mod.rs).
THEOREM FragmentsTile ==
  ASSUME NEW D, NEW body \in Seq(D), NEW seq \in Nat, NEW mtu \in Nat \ {0}
  PROVE  \E k \in Nat \ {0} :
           /\ DOMAIN FragmentHandshake(body, seq, mtu) = 1 .. k
           /\ \A i \in 1 .. k : TileOf(FragmentHandshake(body, seq, mtu)[i], body, seq, mtu, i, k)
<1> DEFINE f == FragmentHandshake(body, seq, mtu)
<1>1. CASE body = <<>>
  <2>1. f = [i \in 1 .. 1 |-> [seq |-> seq, length |-> 0, offset |-> (i - 1) * mtu, data |-> <<>>]]
    BY <1>1 DEF FragmentHandshake
  <2>2. f[1] = [seq |-> seq, length |-> 0, offset |-> 0, data |-> <<>>] /\ DOMAIN f = 1 .. 1
    BY <2>1
  <2>3. SubSeq(body, 1, 0) = body /\ Len(body) = 0
    BY <1>1
  <2>4. TileOf(f[1], body, seq, mtu, 1, 1)
    <3> DEFINE g == f[1]
    <3>1. g.seq = seq /\ g.length = 0 /\ g.offset = 0 /\ g.data = <<>>
      BY <2>2
    <3> HIDE DEF g
    <3>2. TileOf(g, body, seq, mtu, 1, 1)
      BY <1>1, <2>3, <3>1 DEF TileOf
    <3> QED
      BY <3>2 DEF g
  <2> HIDE DEF f
  <2>5. DOMAIN f = 1 .. 1 /\ \A i \in 1 .. 1 : TileOf(f[i], body, seq, mtu, i, 1)
    BY <2>2, <2>4
  <2> QED
    BY <2>5 DEF f
<1>2. CASE body # <<>>
  <2> DEFINE p == SplitBytes(body, mtu)
             k == Pieces(Len(body), mtu)
  <2>1. Len(body) \in Nat \ {0}
    BY <1>2
  <2>2. k \in Nat \ {0}
    BY <2>1, PiecesSuffice
  <2>3. f = [i \in DOMAIN p |->
               [seq |-> seq, length |-> Len(body), offset |-> (i - 1) * mtu, data |-> p[i]]]
    BY <1>2 DEF FragmentHandshake
  <2>4. /\ DOMAIN p = 1 .. k
        /\ \A i \in 1 .. k :
             /\ p[i] = SubSeq(body, (i - 1) * mtu + 1, (i - 1) * mtu + Len(p[i]))
             /\ Len(p[i]) \in 1 .. mtu
             /\ (i - 1) * mtu + Len(p[i]) = (IF i = k THEN Len(body) ELSE i * mtu)
    BY <1>2, Tiles
  <2> HIDE DEF p, k, f
  <2>5. ASSUME NEW i \in 1 .. k PROVE TileOf(f[i], body, seq, mtu, i, k)
    <3>1. /\ f[i].seq = seq /\ f[i].length = Len(body)
          /\ f[i].offset = (i - 1) * mtu /\ f[i].data = p[i]
      BY <2>3, <2>4
    <3> DEFINE g == f[i]
               q == p[i]
    <3>2. /\ q = SubSeq(body, (i - 1) * mtu + 1, (i - 1) * mtu + Len(q))
          /\ Len(q) \in 0 .. mtu /\ Len(q) # 0
          /\ (i - 1) * mtu + Len(q) = (IF i = k THEN Len(body) ELSE i * mtu)
      BY <2>4
    <3>3. g.seq = seq /\ g.length = Len(body) /\ g.offset = (i - 1) * mtu /\ g.data = q
      BY <3>1
    <3> HIDE DEF g, q
    <3>4. TileOf(g, body, seq, mtu, i, k)
      BY <3>2, <3>3, Zenon DEF TileOf
    <3> QED
      BY <3>4 DEF g
  <2>6. DOMAIN f = 1 .. k
    BY <2>3, <2>4
  <2> QED
    BY <2>2, <2>5, <2>6 DEF f
<1> QED
  BY <1>1, <1>2

--------------------------------------------------------------------------------
(* append_message *)

\* The first fragment at an offset.
At(frags, t) == SelectInSeq(frags, LAMBDA p : p.offset = t)

\* A search finds nothing, or an element that passes the test.
LEMMA OffsetFound ==
  ASSUME NEW P, NEW frags \in Seq(P), NEW target
  PROVE  \/ At(frags, target) = 0 /\ \A i \in DOMAIN frags : frags[i].offset # target
         \/ At(frags, target) \in DOMAIN frags /\ frags[At(frags, target)].offset = target
<1> DEFINE I == {i \in 1 .. Len(frags) : frags[i].offset = target}
           k == At(frags, target)
<1>1. k = IF I # {} THEN Min(I) ELSE 0
  BY DEF SelectInSeq, At
<1>2. I # {} => Min(I) \in I
  <2> SUFFICES ASSUME I # {} PROVE Min(I) \in I
    OBVIOUS
  <2>1. I \in SUBSET Nat
    OBVIOUS
  <2>2. PICK i \in I : \A j \in I : i <= j
    <3> HIDE DEF I
    <3> QED
      BY <2>1, Least
  <2> HIDE DEF I
  <2> QED
    BY <2>2 DEF Min
<1>3. DOMAIN frags = 1 .. Len(frags)
  OBVIOUS
<1> HIDE DEF k
<1>4. (k = 0 /\ I = {}) \/ k \in I
  <2> HIDE DEF I
  <2> QED
    BY <1>1, <1>2
<1>5. \/ k = 0 /\ \A i \in DOMAIN frags : frags[i].offset # target
      \/ k \in DOMAIN frags /\ frags[k].offset = target
  BY <1>3, <1>4
<1> QED
  BY <1>5 DEF k

\* A fragment of a message: bytes that lie behind each other, wherever they were cut.  One
\* without bytes is of a message without bytes.
CutOf(g, body) ==
    /\ g.length = Len(body)
    /\ g.offset + Len(g.data) <= Len(body)
    /\ g.data = SubSeq(body, g.offset + 1, g.offset + Len(g.data))
    /\ g.data = <<>> => Len(body) = 0

Fragments(D) == [seq : Nat, length : Nat, offset : Nat, data : Seq(D)]
Cuts(D, body) == {g \in Fragments(D) : CutOf(g, body)}

\* Two stretches of a sequence that meet are one.
LEMMA Meet ==
  ASSUME NEW D, NEW s \in Seq(D), NEW a \in Nat, NEW b \in Nat, a <= b, b <= Len(s)
  PROVE  SubSeq(s, a + 1, b) \o SubSeq(s, b + 1, Len(s)) = SubSeq(s, a + 1, Len(s))
<1> DEFINE l == SubSeq(s, a + 1, b)
           r == SubSeq(s, b + 1, Len(s))
           w == SubSeq(s, a + 1, Len(s))
<1>1. /\ l \in Seq(D) /\ Len(l) = b - a
      /\ \A i \in 1 .. b - a : l[i] = s[a + i]
  BY SubSeqProperties
<1>2. /\ r \in Seq(D) /\ Len(r) = Len(s) - b
      /\ \A i \in 1 .. Len(s) - b : r[i] = s[b + i]
  BY SubSeqProperties
<1>3. /\ w \in Seq(D) /\ Len(w) = Len(s) - a
      /\ \A i \in 1 .. Len(s) - a : w[i] = s[a + i]
  BY SubSeqProperties
<1> HIDE DEF l, r, w
<1>4. /\ l \o r \in Seq(D) /\ Len(l \o r) = Len(l) + Len(r)
      /\ \A i \in 1 .. Len(l) + Len(r) : (l \o r)[i] = IF i <= Len(l) THEN l[i] ELSE r[i - Len(l)]
  BY <1>1, <1>2, ConcatProperties
<1>5. \A i \in 1 .. Len(s) - a : (l \o r)[i] = w[i]
  <2> SUFFICES ASSUME NEW i \in 1 .. Len(s) - a PROVE (l \o r)[i] = w[i]
    OBVIOUS
  <2>0. Len(s) \in Nat
    OBVIOUS
  <2>1. CASE i <= b - a
    BY <1>1, <1>2, <1>3, <1>4, <2>0, <2>1
  <2>2. CASE ~(i <= b - a)
    <3> DEFINE j == i - (b - a)
    <3>1. j \in 1 .. Len(s) - b /\ b + j = a + i /\ Len(l) = b - a
      BY <1>1, <2>0, <2>2
    <3>2. i \in 1 .. Len(l) + Len(r) /\ ~(i <= Len(l)) /\ i - Len(l) = j
      BY <1>2, <2>0, <2>2, <3>1
    <3>3. (l \o r)[i] = r[j]
      <4> HIDE DEF j
      <4> QED
        BY <1>4, <3>2
    <3>4. r[j] = s[a + i] /\ w[i] = s[a + i]
      <4> HIDE DEF j
      <4>1. r[j] = s[b + j]
        BY <1>2, <3>1
      <4> QED
        BY <1>3, <3>1, <4>1
    <3> QED
      BY <3>3, <3>4
  <2> QED
    BY <2>1, <2>2
<1>6. Len(l \o r) = Len(w)
  <2> Len(s) \in Nat
    OBVIOUS
  <2> QED
    BY <1>1, <1>2, <1>3, <1>4
<1> DEFINE lr == l \o r
<1>7. lr \in Seq(D) /\ Len(lr) = Len(w) /\ \A i \in 1 .. Len(w) : lr[i] = w[i]
  BY <1>3, <1>4, <1>5, <1>6
<1> HIDE DEF lr
<1>8. lr = w
  BY <1>3, <1>7
<1> QED
  BY <1>8 DEF lr, l, r, w

\* What append_message finds at an offset, from what it finds at the next.
CollectAt(frags, c, t) ==
    LET f == frags[At(frags, t)]
        end == t + Len(f.data)
    IN  IF At(frags, t) = 0 THEN [ok |-> FALSE, data |-> <<>>]
        ELSE IF end = f.length \/ f.data = <<>> THEN [ok |-> TRUE, data |-> f.data]
        ELSE [ok |-> c[end].ok, data |-> f.data \o c[end].data]

Collects(frags, c) == c = [t \in Nat |-> CollectAt(frags, c, t)]

\* append_message returns what such a search finds from offset 0.
LEMMA AppendMessageIs ==
  ASSUME NEW frags, NEW c, Collects(frags, c)
  PROVE  \E d : Collects(frags, d) /\ AppendMessage(frags) = d[0]
<1> DEFINE d == CHOOSE x : Collects(frags, x)
<1>1. Collects(frags, d)
  OBVIOUS
<1>2. AppendMessage(frags) = d[0]
  BY DEF AppendMessage, Collects, CollectAt, At
<1> HIDE DEF d
<1> QED
  BY <1>1, <1>2

\* The search from an offset to the next ends, since offsets increase and fragments are
\* finitely many.
LEMMA CollectExists ==
  ASSUME NEW D, NEW M \in Nat, NEW frags \in Seq(Fragments(D)),
         \A i \in DOMAIN frags : frags[i].offset < M
  PROVE  \E c : Collects(frags, c)
<1> DEFINE X == [ok : BOOLEAN, data : Seq(D)]
           f(t) == frags[At(frags, t)]
           found(t) == At(frags, t) # 0
           end(t) == t + Len(f(t).data)
           none == [ok |-> FALSE, data |-> <<>>]
           last(t) == end(t) = f(t).length \/ f(t).data = <<>>
           ends == {t \in Nat : found(t) => last(t)}
           base == [t \in Nat |-> IF found(t) THEN [ok |-> TRUE, data |-> f(t).data] ELSE none]
           up == [t \in Nat |-> IF found(t) THEN end(t) ELSE 0]
           joined(y) == f(y[1]).data \o y[2].data
           G == [y \in Nat \X X |->
                   IF found(y[1]) THEN [ok |-> y[2].ok, data |-> joined(y)] ELSE y[2]]
<1>1. ASSUME NEW t \in Nat, found(t)
      PROVE  /\ t < M
             /\ f(t).data \in Seq(D) /\ Len(f(t).data) \in Nat /\ end(t) \in Nat
             /\ f(t).data # <<>> => t < end(t)
  <2>1. At(frags, t) \in DOMAIN frags /\ f(t).offset = t
    BY <1>1, OffsetFound
  <2>2. f(t) \in Fragments(D) /\ f(t).offset < M
    BY <2>1
  <2> DEFINE d == f(t).data
  <2>3. d \in Seq(D)
    BY <2>2 DEF Fragments
  <2> HIDE DEF d
  <2>4. Len(d) \in Nat /\ t + Len(d) \in Nat /\ (d # <<>> => t < t + Len(d))
    BY <2>3
  <2> QED
    BY <2>1, <2>2, <2>3, <2>4 DEF d
<1> HIDE DEF f, found, end
<1>2. ends \in SUBSET Nat
  OBVIOUS
<1>3. base \in [Nat -> X]
  <2>1. \A t \in Nat : (IF found(t) THEN [ok |-> TRUE, data |-> f(t).data] ELSE none) \in X
    BY <1>1
  <2> QED
    BY <2>1
<1>4. up \in [Nat -> Nat]
  BY <1>1
<1>5. G \in [Nat \X X -> X]
  <2>1. ASSUME NEW y \in Nat \X X, found(y[1]) PROVE joined(y) \in Seq(D)
    <3>1. f(y[1]).data \in Seq(D)
      BY <1>1, <2>1
    <3>2. y[2].data \in Seq(D)
      OBVIOUS
    <3> QED
      BY <3>1, <3>2, ConcatProperties
  <2> HIDE DEF joined
  <2>2. ASSUME NEW y \in Nat \X X
        PROVE  (IF found(y[1]) THEN [ok |-> y[2].ok, data |-> joined(y)] ELSE y[2]) \in X
    BY <2>1
  <2> QED
    BY <2>2
<1>6. EndsBelow(M, ends, up)
  <2> SUFFICES ASSUME NEW t \in Nat, t \notin ends PROVE t < M /\ t < up[t]
    BY DEF EndsBelow
  <2>1. found(t) /\ f(t).data # <<>> /\ up[t] = end(t)
    OBVIOUS
  <2> QED
    BY <1>1, <2>1
<1>7. PICK c : Ascends(c, X, ends, base, up, G)
  <2> HIDE DEF X, ends, base, up, G
  <2> QED
    BY <1>2, <1>3, <1>4, <1>5, <1>6, AscentExists
<1>8. /\ c \in [Nat -> X]
      /\ \A t \in Nat : c[t] = IF t \in ends THEN base[t] ELSE G[<<t, c[up[t]]>>]
  <2> HIDE DEF X, ends, base, up, G
  <2> QED
    BY <1>7 DEF Ascends
<1>9. ASSUME NEW t \in Nat PROVE c[t] = CollectAt(frags, c, t)
  <2>1. CASE ~found(t)
    BY <1>8, <2>1 DEF CollectAt, found
  <2>2. CASE found(t) /\ last(t)
    <3>1. c[t] = [ok |-> TRUE, data |-> f(t).data]
      BY <1>8, <2>2
    <3> QED
      BY <2>2, <3>1 DEF CollectAt, found, f, end
  <2>3. CASE found(t) /\ ~last(t)
    <3>1. t \notin ends /\ up[t] = end(t) /\ c[end(t)] \in X
      BY <1>1, <1>8, <2>3
    <3> DEFINE x == c[end(t)]
    <3>2. c[t] = G[<<t, x>>]
      <4> HIDE DEF ends, base, G
      <4> QED
        BY <1>8, <3>1
    <3>3. x \in X
      BY <3>1
    <3> HIDE DEF x, joined
    <3>4. G[<<t, x>>] = [ok |-> x.ok, data |-> joined(<<t, x>>)]
      BY <2>3, <3>3
    <3>5. joined(<<t, x>>) = f(t).data \o x.data
      BY DEF joined
    <3>6. c[t] = [ok |-> x.ok, data |-> f(t).data \o x.data]
      BY <3>2, <3>4, <3>5
    <3> HIDE DEF X, ends, base, G
    <3> QED
      BY <2>3, <3>6 DEF CollectAt, found, f, end, x
  <2> QED
    BY <2>1, <2>2, <2>3
<1>10. Collects(frags, c)
  <2>1. \A t \in Nat : c[t] = CollectAt(frags, c, t)
    BY <1>9
  <2>2. c = [t \in Nat |-> c[t]]
    BY <1>8
  <2> QED
    BY <2>1, <2>2 DEF Collects
<1> QED
  BY <1>10

\* append_message searches, whatever fragments of a message there are.
LEMMA Searches ==
  ASSUME NEW D, NEW body \in Seq(D), NEW frags \in Seq(Cuts(D, body))
  PROVE  \E c : Collects(frags, c) /\ AppendMessage(frags) = c[0]
<1> DEFINE L == Len(body)
<1>1. L \in Nat
  OBVIOUS
<1>2. frags \in Seq(Fragments(D))
  BY DEF Cuts
<1>3. \A i \in DOMAIN frags : frags[i].offset < L + 1
  <2> SUFFICES ASSUME NEW i \in DOMAIN frags PROVE frags[i].offset < L + 1
    OBVIOUS
  <2>1. frags[i] \in Cuts(D, body)
    OBVIOUS
  <2> QED
    BY <1>1, <2>1 DEF Cuts, CutOf, Fragments
<1>4. L + 1 \in Nat
  BY <1>1
<1>5. \E c : Collects(frags, c)
  <2> HIDE DEF L
  <2> QED
    BY <1>2, <1>3, <1>4, CollectExists
<1> QED
  BY <1>5, AppendMessageIs

\* The heart of it: whatever fragments there are, cut in one place or another, when
\* append_message finds a way to the end it has put the message together.
LEMMA AppendMessageWhole ==
  ASSUME NEW D, NEW body \in Seq(D), NEW frags \in Seq(Cuts(D, body)), AppendMessage(frags).ok
  PROVE  AppendMessage(frags).data = body
<1> DEFINE L == Len(body)
<1>1. L \in Nat /\ body = SubSeq(body, 0 + 1, L)
  OBVIOUS
<1>2. PICK c : Collects(frags, c) /\ AppendMessage(frags) = c[0]
  BY Searches
<1> DEFINE R == {t \in Nat : c[t].ok => c[t].data = SubSeq(body, t + 1, L)}
<1>3. ASSUME NEW t \in 0 .. L, \A u \in 0 .. L : u > t => u \in R
      PROVE  t \in R
  <2> SUFFICES ASSUME c[t].ok PROVE c[t].data = SubSeq(body, t + 1, L)
    OBVIOUS
  <2> DEFINE f == frags[At(frags, t)]
             end == t + Len(f.data)
  <2>1. c[t] = CollectAt(frags, c, t)
    <3>1. t \in Nat
      OBVIOUS
    <3> QED
      BY <1>2, <3>1 DEF Collects
  <2>2. At(frags, t) # 0
    BY <2>1 DEF CollectAt
  <2>3. f \in Cuts(D, body) /\ f.offset = t
    <3>1. At(frags, t) \in DOMAIN frags /\ frags[At(frags, t)].offset = t
      BY <2>2, OffsetFound
    <3> QED
      BY <3>1
  <2>4. c[t] = IF end = f.length \/ f.data = <<>> THEN [ok |-> TRUE, data |-> f.data]
               ELSE [ok |-> c[end].ok, data |-> f.data \o c[end].data]
    BY <2>1, <2>2 DEF CollectAt
  <2> HIDE DEF f
  <2>5. f \in Fragments(D) /\ CutOf(f, body)
    BY <2>3 DEF Cuts
  <2>6. f.data \in Seq(D) /\ f.length = L /\ end <= L
        /\ f.data = SubSeq(body, t + 1, end)
        /\ (f.data = <<>> => L = 0)
    BY <2>3, <2>5 DEF CutOf, Fragments
  <2>7. Len(f.data) \in Nat /\ (f.data # <<>> => Len(f.data) > 0)
    BY <2>6
  <2>8. CASE f.data = <<>>
    <3>1. L = 0 /\ t = 0 /\ end = L
      BY <2>6, <2>7, <2>8
    <3>2. c[t].data = f.data
      BY <2>4, <2>8
    <3> QED
      BY <2>6, <3>1, <3>2
  <2>9. CASE f.data # <<>> /\ end = L
    BY <2>4, <2>6, <2>9
  <2>10. CASE f.data # <<>> /\ end # L
    <3> DEFINE d == f.data
               rest == c[end]
    <3>1. c[t] = [ok |-> rest.ok, data |-> d \o rest.data]
      BY <2>4, <2>6, <2>10
    <3>2. end = t + Len(d) /\ Len(d) \in Nat /\ Len(d) > 0 /\ end <= L /\ d = SubSeq(body, t + 1, end)
      BY <2>6, <2>7, <2>10
    <3> HIDE DEF d, end
    <3>3. end \in 0 .. L /\ end > t /\ t \in Nat /\ end \in Nat
      BY <1>1, <3>2
    <3>4. end \in R
      BY <1>3, <3>3
    <3>5. rest.ok => rest.data = SubSeq(body, end + 1, L)
      BY <3>4
    <3> HIDE DEF rest
    <3>6. rest.ok /\ c[t].data = d \o rest.data
      BY <3>1
    <3>7. c[t].data = SubSeq(body, t + 1, end) \o SubSeq(body, end + 1, L)
      BY <3>2, <3>5, <3>6
    <3>8. SubSeq(body, t + 1, end) \o SubSeq(body, end + 1, L) = SubSeq(body, t + 1, L)
      <4>1. t \in Nat /\ end \in Nat /\ t <= end /\ end <= Len(body)
        BY <3>2, <3>3
      <4> HIDE DEF R
      <4> QED
        BY <4>1, Meet
    <3> QED
      BY <3>7, <3>8
  <2> QED
    BY <2>8, <2>9, <2>10
<1>4. 0 \in R
  <2> HIDE DEF R
  <2>1. \A t \in 0 .. L : t \in R
    BY <1>1, <1>3, Downward
  <2> QED
    BY <1>1, <2>1
<1> QED
  BY <1>1, <1>2, <1>4

--------------------------------------------------------------------------------
(* The buffer *)

Bytes == Nat \X Nat
Numbers(lengths) == 0 .. Len(lengths) - 1

\* The fragments a message may come in, and what a sender may send of some messages.
PiecesOf(lengths, seq) == {g \in Cuts(Bytes, Body(lengths, seq)) : g.seq = seq}
Records(lengths) == UNION {PiecesOf(lengths, seq) : seq \in Numbers(lengths)}

\* A buffer that holds, of every message it has heard of, only pieces of that message, and
\* has given the first messages out whole.
Caches(lengths) ==
    {c \in UNION {[M -> Seq(Records(lengths))] : M \in SUBSET Numbers(lengths)} :
       \A seq \in DOMAIN c : c[seq] \in Seq(PiecesOf(lengths, seq))}

Out(lengths, n) == [i \in 1 .. n |-> Body(lengths, i - 1)]

Buffers(lengths) ==
    {b \in [cache : Caches(lengths), current : 0 .. Len(lengths), popped : Seq(Seq(Bytes))] :
       b.popped = Out(lengths, b.current)}

\* A message is a sequence of bytes.
LEMMA BodyType ==
  ASSUME NEW lengths \in Seq(Nat), NEW seq \in Numbers(lengths)
  PROVE  Body(lengths, seq) \in Seq(Bytes)
<1>1. seq \in Nat /\ lengths[seq + 1] \in Nat
  BY DEF Numbers
<1> DEFINE n == lengths[seq + 1]
<1>2. n \in Nat /\ Body(lengths, seq) = [i \in 1 .. n |-> <<seq, i>>]
  BY <1>1 DEF Body
<1> HIDE DEF n
<1>3. \A i \in 1 .. n : <<seq, i>> \in Bytes
  BY <1>1, <1>2 DEF Bytes
<1> HIDE DEF Bytes
<1>4. [i \in 1 .. n |-> <<seq, i>>] \in [1 .. n -> Bytes]
  BY <1>3
<1> QED
  BY <1>2, <1>4

\* So is what has come out, of messages.
LEMMA OutType ==
  ASSUME NEW lengths \in Seq(Nat), NEW n \in 0 .. Len(lengths)
  PROVE  Out(lengths, n) \in Seq(Seq(Bytes)) /\ Len(Out(lengths, n)) = n
<1>1. \A i \in 1 .. n : i - 1 \in Numbers(lengths)
  BY DEF Numbers
<1>2. \A i \in 1 .. n : Body(lengths, i - 1) \in Seq(Bytes)
  BY <1>1, BodyType
<1>3. n \in Nat
  OBVIOUS
<1>4. Out(lengths, n) \in [1 .. n -> Seq(Bytes)]
  BY <1>2 DEF Out
<1> QED
  BY <1>3, <1>4

\* One more message out.
LEMMA OutNext ==
  ASSUME NEW lengths \in Seq(Nat), NEW n \in Numbers(lengths)
  PROVE  Append(Out(lengths, n), Body(lengths, n)) = Out(lengths, n + 1)
<1>1. n \in 0 .. Len(lengths) /\ n \in Nat /\ n + 1 \in 0 .. Len(lengths)
  BY DEF Numbers
<1>2. Out(lengths, n) \in Seq(Seq(Bytes)) /\ Len(Out(lengths, n)) = n
  BY <1>1, OutType
<1> DEFINE a == Out(lengths, n)
           e == Body(lengths, n)
           w == Out(lengths, n + 1)
<1>3. e \in Seq(Bytes)
  BY BodyType
<1>4. w \in Seq(Seq(Bytes)) /\ Len(w) = n + 1
  BY <1>1, OutType
<1>5. \A i \in 1 .. n : a[i] = w[i]
  BY <1>1 DEF Out
<1>6. w[n + 1] = e
  BY <1>1 DEF Out
<1> HIDE DEF a, e, w
<1>7. /\ Append(a, e) \in Seq(Seq(Bytes)) /\ Len(Append(a, e)) = n + 1
      /\ \A i \in 1 .. n + 1 : Append(a, e)[i] = IF i = n + 1 THEN e ELSE a[i]
  <2> a \in Seq(Seq(Bytes)) /\ Len(a) = n
    BY <1>2 DEF a
  <2> QED
    BY <1>1, <1>3, AppendProperties
<1> DEFINE ae == Append(a, e)
<1>8. ae \in Seq(Seq(Bytes)) /\ Len(ae) = Len(w) /\ \A i \in 1 .. Len(w) : ae[i] = w[i]
  BY <1>1, <1>4, <1>5, <1>6, <1>7
<1> HIDE DEF ae
<1>9. ae = w
  BY <1>4, <1>8
<1> QED
  BY <1>9 DEF ae, a, e, w

\* What push does: the buffer is left as it is, or one piece of a message comes behind the
\* others.
LEMMA PushKeeps ==
  ASSUME NEW lengths \in Seq(Nat), NEW b \in Buffers(lengths), NEW p \in Records(lengths)
  PROVE  PushFragment(b, p) \in Buffers(lengths)
<1> DEFINE c == b.cache
           grown == [seq \in DOMAIN c \cup {p.seq} |->
                       IF seq = p.seq THEN Append(FragmentsOf(c, seq), p) ELSE c[seq]]
<1>1. PushFragment(b, p) = b \/ PushFragment(b, p) = [b EXCEPT !.cache = grown]
  BY DEF PushFragment
<1>2. /\ b \in [cache : Caches(lengths), current : 0 .. Len(lengths), popped : Seq(Seq(Bytes))]
      /\ b.popped = Out(lengths, b.current)
  BY DEF Buffers
<1>3. c \in Caches(lengths)
  BY <1>2
<1> HIDE DEF c
<1>4. /\ DOMAIN c \in SUBSET Numbers(lengths)
      /\ \A seq \in DOMAIN c : c[seq] \in Seq(PiecesOf(lengths, seq))
  BY <1>3 DEF Caches
<1>5. p.seq \in Numbers(lengths) /\ p \in PiecesOf(lengths, p.seq)
  BY DEF Records, PiecesOf
<1>6. ASSUME NEW seq \in DOMAIN grown PROVE grown[seq] \in Seq(PiecesOf(lengths, seq))
  <2>1. CASE seq = p.seq
    <3>1. FragmentsOf(c, seq) \in Seq(PiecesOf(lengths, seq))
      BY <1>4 DEF FragmentsOf
    <3>2. grown[seq] = Append(FragmentsOf(c, seq), p)
      BY <2>1
    <3> QED
      BY <1>5, <2>1, <3>1, <3>2, AppendProperties
  <2>2. CASE seq # p.seq
    BY <1>4, <2>2
  <2> QED
    BY <2>1, <2>2
<1>7. \A seq \in Numbers(lengths) : PiecesOf(lengths, seq) \subseteq Records(lengths)
  BY DEF Records
<1>8. DOMAIN grown \in SUBSET Numbers(lengths)
  BY <1>4, <1>5
<1>9. \A seq \in DOMAIN grown : grown[seq] \in Seq(Records(lengths))
  <2> SUFFICES ASSUME NEW seq \in DOMAIN grown PROVE grown[seq] \in Seq(Records(lengths))
    OBVIOUS
  <2>1. grown[seq] \in Seq(PiecesOf(lengths, seq)) /\ PiecesOf(lengths, seq) \subseteq Records(lengths)
    BY <1>6, <1>7, <1>8
  <2> HIDE DEF grown
  <2> QED
    BY <2>1
<1>10. grown = [seq \in DOMAIN grown |-> grown[seq]]
  OBVIOUS
<1> HIDE DEF grown
<1>11. grown \in Caches(lengths)
  BY <1>6, <1>8, <1>9, <1>10 DEF Caches
<1>12. [b EXCEPT !.cache = grown] \in Buffers(lengths)
  BY <1>2, <1>11 DEF Buffers
<1> QED
  BY <1>1, <1>12

\* What pop does: nothing, or the next message comes out, whole.
LEMMA PopKeeps ==
  ASSUME NEW lengths \in Seq(Nat), NEW b \in Buffers(lengths)
  PROVE  Pop(b) \in Buffers(lengths)
<1> DEFINE frags == FragmentsOf(b.cache, b.current)
           left == Restrict(b.cache, DOMAIN b.cache \ {b.current})
           out == AppendMessage(frags)
<1>1. /\ b \in [cache : Caches(lengths), current : 0 .. Len(lengths), popped : Seq(Seq(Bytes))]
      /\ b.popped = Out(lengths, b.current)
  BY DEF Buffers
<1>2. /\ DOMAIN b.cache \in SUBSET Numbers(lengths)
      /\ \A seq \in DOMAIN b.cache : b.cache[seq] \in Seq(PiecesOf(lengths, seq))
      /\ \A seq \in DOMAIN b.cache : b.cache[seq] \in Seq(Records(lengths))
  BY <1>1 DEF Caches
<1>3. CASE frags = <<>> \/ ~out.ok
  <2>1. Pop(b) = b
    BY <1>3 DEF Pop
  <2> QED
    BY <2>1
<1>4. CASE frags # <<>> /\ out.ok
  <2>1. Pop(b) = [cache |-> left, current |-> b.current + 1, popped |-> Append(b.popped, out.data)]
    BY <1>4 DEF Pop
  <2>2. b.current \in Numbers(lengths) /\ frags \in Seq(PiecesOf(lengths, b.current))
    BY <1>2, <1>4 DEF FragmentsOf
  <2>3. frags \in Seq(Cuts(Bytes, Body(lengths, b.current)))
    <3>1. PiecesOf(lengths, b.current) \subseteq Cuts(Bytes, Body(lengths, b.current))
      BY DEF PiecesOf
    <3> HIDE DEF frags
    <3> QED
      BY <2>2, <3>1
  <2>4. out.data = Body(lengths, b.current)
    <3>1. Body(lengths, b.current) \in Seq(Bytes)
      BY <2>2, BodyType
    <3> HIDE DEF frags
    <3> QED
      BY <1>4, <2>3, <3>1, AppendMessageWhole
  <2>5. Append(b.popped, out.data) = Out(lengths, b.current + 1)
    BY <1>1, <2>2, <2>4, OutNext
  <2>6. left \in Caches(lengths)
    <3> DEFINE M == DOMAIN b.cache \ {b.current}
    <3>1. left = [seq \in M |-> b.cache[seq]] /\ DOMAIN left = M
      BY DEF Restrict
    <3>2. M \in SUBSET Numbers(lengths)
      BY <1>2
    <3>3. left \in [M -> Seq(Records(lengths))]
      BY <1>2, <3>1
    <3>4. \A seq \in DOMAIN left : left[seq] \in Seq(PiecesOf(lengths, seq))
      BY <1>2, <3>1
    <3> HIDE DEF left, M
    <3> QED
      BY <3>1, <3>2, <3>3, <3>4 DEF Caches
  <2>7. b.current + 1 \in 0 .. Len(lengths)
    BY <2>2 DEF Numbers
  <2>8. Out(lengths, b.current + 1) \in Seq(Seq(Bytes))
    BY <2>7, OutType
  <2> DEFINE r == Pop(b)
  <2>9. r = [cache |-> left, current |-> b.current + 1, popped |-> Out(lengths, b.current + 1)]
    BY <2>1, <2>5
  <2> HIDE DEF r, left, frags, out
  <2>10. r \in Buffers(lengths)
    BY <2>6, <2>7, <2>8, <2>9 DEF Buffers
  <2> QED
    BY <2>10 DEF r
<1> QED
  BY <1>3, <1>4

\* Messages are popped as often as a sequence is long.
PopAll(b, times) == FoldLeft(LAMBDA x, l : Pop(x), b, times)

\* One after the other.
LEMMA PopsAre ==
  ASSUME NEW lengths \in Seq(Nat), NEW b \in Buffers(lengths), NEW D, NEW times \in Seq(D)
  PROVE  \E w : /\ w[0] = b /\ w[Len(times)] = PopAll(b, times)
                /\ \A n \in 0 .. Len(times) : w[n] \in Buffers(lengths)
                /\ \A n \in 0 .. Len(times) - 1 : w[n + 1] = Pop(w[n])
<1> DEFINE N == Len(times)
           X == Buffers(lengths)
           Folds(h) == h = [s \in SUBSET (1 .. N) |-> IF s = {} THEN b ELSE Pop(h[s \ {Max(s)}])]
           h == CHOOSE h : Folds(h)
           G == [y \in X \X (1 .. N) |-> Pop(y[1])]
<1>1. N \in Nat /\ DOMAIN times = 1 .. N
  OBVIOUS
<1>2. PopAll(b, times) = h[1 .. N]
  BY <1>1 DEF PopAll, FoldLeft, MapThenFoldSet
<1>3. G \in [X \X (1 .. N) -> X]
  <2>1. \A y \in X \X (1 .. N) : Pop(y[1]) \in X
    BY PopKeeps
  <2> QED
    BY <2>1
<1>4. \E g : Folds(g)
  <2>0. PICK g : Folded(g, X, b, N, G)
    <3>1. b \in X
      OBVIOUS
    <3> HIDE DEF N, X, G
    <3> QED
      BY <1>1, <1>3, <3>1, FoldExists
  <2>1. /\ g \in [SUBSET (1 .. N) -> X]
        /\ \A S \in SUBSET (1 .. N) : g[S] = IF S = {} THEN b ELSE G[<<g[S \ {Max(S)}], Max(S)>>]
    <3> HIDE DEF N, X, G
    <3> QED
      BY <2>0 DEF Folded
  <2>2. ASSUME NEW S \in SUBSET (1 .. N) PROVE g[S] = IF S = {} THEN b ELSE Pop(g[S \ {Max(S)}])
    <3>1. CASE S = {}
      BY <2>1, <3>1
    <3>2. CASE S # {}
      <4>1. Max(S) \in 1 .. N
        BY <1>1, <3>2, Greatest
      <4>2. g[S \ {Max(S)}] \in X
        BY <2>1
      <4> DEFINE x == g[S \ {Max(S)}]
      <4>3. g[S] = G[<<x, Max(S)>>]
        BY <2>1, <3>2
      <4> HIDE DEF x, X
      <4>4. G[<<x, Max(S)>>] = Pop(x)
        BY <4>1, <4>2 DEF x
      <4> QED
        BY <3>2, <4>3, <4>4 DEF x
    <3> QED
      BY <3>1, <3>2
  <2>3. g = [S \in SUBSET (1 .. N) |-> g[S]]
    BY <2>1
  <2>4. Folds(g)
    <3> HIDE DEF X, G, N
    <3> QED
      BY <2>2, <2>3
  <2> QED
    BY <2>4
<1>5. Folds(h)
  <2> HIDE DEF Folds
  <2> QED
    BY <1>4
<1> HIDE DEF h
<1>6. h[{}] \in X
  BY <1>5
<1>7. ASSUME NEW n \in 0 .. N - 1 PROVE h[1 .. n + 1] = Pop(h[1 .. n])
  <2>1. n \in Nat /\ 1 .. n + 1 \in SUBSET (1 .. N)
    BY <1>1
  <2>2. Max(1 .. n + 1) = n + 1 /\ (1 .. n + 1) \ {n + 1} = 1 .. n /\ 1 .. n + 1 # {}
    BY <2>1, GreatestOfFirst
  <2>3. h[1 .. n + 1] = Pop(h[(1 .. n + 1) \ {Max(1 .. n + 1)}])
    BY <1>5, <2>1, <2>2
  <2> QED
    BY <2>2, <2>3
<1>8. \A n \in 0 .. N : h[1 .. n] \in X
  <2>1. ASSUME NEW n \in 0 .. N - 1, h[1 .. n] \in X PROVE h[1 .. n + 1] \in X
    BY <1>7, <2>1, PopKeeps
  <2> HIDE DEF X, N, Folds
  <2> QED
    BY <1>1, <1>6, <2>1, FoldStaysIn
<1> DEFINE w == [n \in 0 .. N |-> h[1 .. n]]
<1>9. h[{}] = b
  BY <1>5
<1>10. w[0] = b /\ w[N] = PopAll(b, times)
  <2>1. 1 .. 0 = {} /\ 0 \in 0 .. N /\ N \in 0 .. N
    BY <1>1
  <2> HIDE DEF N, Folds
  <2> QED
    BY <1>2, <1>9, <2>1
<1>11. \A n \in 0 .. N : w[n] \in X
  BY <1>8
<1>12. \A n \in 0 .. N - 1 : w[n + 1] = Pop(w[n])
  <2>1. \A n \in 0 .. N - 1 : n \in 0 .. N /\ n + 1 \in 0 .. N
    BY <1>1
  <2> HIDE DEF N, Folds
  <2> QED
    BY <1>7, <2>1
<1> HIDE DEF w, Folds
<1> QED
  BY <1>10, <1>11, <1>12

\* They leave a buffer of the same messages.
LEMMA PopsKeep ==
  ASSUME NEW lengths \in Seq(Nat), NEW b \in Buffers(lengths), NEW D, NEW times \in Seq(D)
  PROVE  PopAll(b, times) \in Buffers(lengths)
<1>1. PICK w : /\ w[Len(times)] = PopAll(b, times)
               /\ \A n \in 0 .. Len(times) : w[n] \in Buffers(lengths)
  BY PopsAre
<1>2. Len(times) \in 0 .. Len(times)
  OBVIOUS
<1> QED
  BY <1>1, <1>2

--------------------------------------------------------------------------------
(* The flight *)

\* The fragments of a message are pieces of it, whatever it was cut for.
LEMMA FragmentsArePieces ==
  ASSUME NEW lengths \in Seq(Nat), NEW seq \in Numbers(lengths), NEW mtu \in Nat \ {0}
  PROVE  FragmentHandshake(Body(lengths, seq), seq, mtu) \in Seq(PiecesOf(lengths, seq))
<1> DEFINE body == Body(lengths, seq)
           f == FragmentHandshake(body, seq, mtu)
           L == Len(body)
<1>1. body \in Seq(Bytes) /\ seq \in Nat
  BY BodyType DEF Numbers
<1> HIDE DEF body
<1>2. L \in Nat
  BY <1>1
<1>3. PICK k \in Nat \ {0} : /\ DOMAIN f = 1 .. k
                             /\ \A i \in 1 .. k : TileOf(f[i], body, seq, mtu, i, k)
  <2> HIDE DEF f
  <2> QED
    BY <1>1, FragmentsTile DEF f
<1>4. ASSUME NEW i \in 1 .. k PROVE f[i] \in PiecesOf(lengths, seq)
  <2>1. f[i] = [seq |-> seq, length |-> L, offset |-> (i - 1) * mtu, data |-> f[i].data]
    BY <1>3 DEF FragmentHandshake
  <2> HIDE DEF f, L
  <2> DEFINE g == f[i]
             z == f[k]
             o == (i - 1) * mtu
             e == i * mtu
             x == (k - 1) * mtu
             n == Len(g.data)
  <2>2. TileOf(g, body, seq, mtu, i, k) /\ TileOf(z, body, seq, mtu, k, k)
    BY <1>3
  <2>3. o \in Nat /\ e \in Nat /\ x \in Nat /\ (i < k => e <= x)
    BY Ordered
  <2>z. x + Len(z.data) = L /\ Len(z.data) \in 0 .. mtu
    <3> HIDE DEF z
    <3> QED
      BY <2>2, Zenon DEF TileOf, L
  <2> HIDE DEF g
  <2>4. /\ g.seq = seq /\ g.length = L /\ g.offset = o
        /\ g.data = SubSeq(body, o + 1, o + n)
        /\ n \in 0 .. mtu
        /\ n = 0 => L = 0
        /\ o + n = IF i = k THEN L ELSE e
    BY <2>2, Zenon DEF TileOf, L
  <2> HIDE DEF n, o, e, x, z
  <2>6. x <= L
    BY <1>2, <2>3, <2>z
  <2>7. o + n <= L /\ n \in Nat
    BY <1>2, <2>3, <2>4, <2>6
  <2>8. SubSeq(body, o + 1, o + n) \in Seq(Bytes)
    <3>1. o + 1 \in 1 .. Len(body) + 1 /\ o + n \in o .. Len(body)
      BY <1>2, <2>3, <2>4, <2>7 DEF L
    <3> QED
      BY <1>1, <2>3, <2>4, <3>1, SubSeqProperties
  <2>9. g \in Fragments(Bytes)
    <3>1. g = [seq |-> seq, length |-> L, offset |-> o, data |-> g.data]
      BY <2>1 DEF g, o
    <3> QED
      BY <1>1, <1>2, <2>3, <2>4, <2>8, <3>1 DEF Fragments
  <2>10. CutOf(g, body)
    <3>1. n = Len(g.data)
      BY DEF n
    <3>2. g.data = <<>> => Len(g.data) = 0
      OBVIOUS
    <3> QED
      BY <2>4, <2>7, <3>1, <3>2 DEF CutOf, L
  <2>11. g \in PiecesOf(lengths, seq)
    BY <2>4, <2>9, <2>10 DEF PiecesOf, Cuts, body
  <2> QED
    BY <2>11 DEF g
<1> DEFINE P == PiecesOf(lengths, seq)
<1>5. \A i \in 1 .. k : f[i] \in P
  BY <1>4
<1>6. f = [i \in DOMAIN f |-> f[i]]
  BY DEF FragmentHandshake
<1> HIDE DEF f, P
<1>7. f \in Seq(P)
  <2>1. f \in [1 .. k -> P]
    BY <1>3, <1>5, <1>6
  <2> QED
    BY <2>1
<1> QED
  BY <1>7 DEF f, P, body

\* A sequence of sequences, put behind each other (the loop of process_handshake_packet).
LEMMA FlattenKeeps ==
  ASSUME NEW P, NEW ss \in Seq(Seq(P))
  PROVE  FlattenSeq(ss) \in Seq(P)
<1>1. CASE Len(ss) = 0
  <2>1. ss = <<>> /\ FlattenSeq(ss) = ss
    BY <1>1 DEF FlattenSeq
  <2>2. FlattenSeq(ss) = <<>>
    BY <2>1
  <2> QED
    BY <2>2
<1>2. CASE Len(ss) # 0
  <2>1. PICK h : Flattened(h, ss, P) /\ FlattenSeq(ss) = h[Len(ss)]
    BY <1>2, FlattenIs
  <2>2. Len(ss) \in 1 .. Len(ss)
    BY <1>2
  <2> QED
    BY <2>1, <2>2 DEF Flattened
<1> QED
  BY <1>1, <1>2

\* All packets of a flight.
LEMMA RawPacketsAreRecords ==
  ASSUME NEW lengths \in Seq(Nat), NEW mtu \in Nat \ {0}
  PROVE  RawPackets(lengths, mtu) \in Seq(Records(lengths))
<1> DEFINE f(i) == FragmentHandshake(Body(lengths, i - 1), i - 1, mtu)
           ss == [i \in DOMAIN lengths |-> f(i)]
           P == Records(lengths)
<1>1. ASSUME NEW i \in DOMAIN lengths PROVE f(i) \in Seq(P)
  <2>1. i - 1 \in Numbers(lengths)
    BY DEF Numbers
  <2>2. f(i) \in Seq(PiecesOf(lengths, i - 1)) /\ PiecesOf(lengths, i - 1) \subseteq P
    BY <2>1, FragmentsArePieces DEF Records
  <2> HIDE DEF f, P
  <2> QED
    BY <2>2
<1>2. ss \in Seq(Seq(P))
  <2> HIDE DEF f, P
  <2>1. ss \in [1 .. Len(lengths) -> Seq(P)]
    BY <1>1
  <2> QED
    BY <2>1
<1>3. RawPackets(lengths, mtu) = FlattenSeq(ss)
  BY DEF RawPackets
<1> HIDE DEF ss, P
<1>4. FlattenSeq(ss) \in Seq(P)
  BY <1>2, FlattenKeeps
<1> QED
  BY <1>3, <1>4 DEF P

\* A packet joins the open datagram or begins another.
LEMMA PackKeeps ==
  ASSUME NEW P, NEW mtu, NEW ds \in Seq(Seq(P)) \ {<<>>}, NEW p \in P
  PROVE  Pack(mtu, ds, p) \in Seq(Seq(P)) \ {<<>>}
<1> DEFINE Q == Seq(P)
           open == Last(ds)
<1>1. ds \in Seq(Q) /\ Len(ds) \in Nat \ {0} /\ Len(ds) \in DOMAIN ds
  OBVIOUS
<1>2. open \in Q
  BY <1>1 DEF Last
<1>3. <<p>> \in Q /\ Append(open, p) \in Q
  BY <1>2, AppendProperties
<1>4. Front(ds) \in Seq(Q)
  <2>1. 1 \in 1 .. Len(ds) + 1 /\ Len(ds) - 1 \in 1 - 1 .. Len(ds)
    BY <1>1
  <2> HIDE DEF Q
  <2> QED
    BY <1>1, <2>1, SubSeqProperties DEF Front
<1>5. Pack(mtu, ds, p) = Append(ds, <<p>>) \/ Pack(mtu, ds, p) = Append(Front(ds), Append(open, p))
  BY DEF Pack
<1> HIDE DEF Q, open
<1>6. Append(ds, <<p>>) \in Seq(Q) \ {<<>>}
  BY <1>1, <1>3, AppendProperties
<1>7. Append(Front(ds), Append(open, p)) \in Seq(Q) \ {<<>>}
  BY <1>3, <1>4, AppendProperties
<1> QED
  BY <1>5, <1>6, <1>7 DEF Q

\* compact_raw_packets packs one packet after the other.
LEMMA PacksAre ==
  ASSUME NEW P, NEW packets \in Seq(P), NEW mtu
  PROVE  \E w : /\ w[0] = <<<<>>>> /\ w[Len(packets)] = CompactRawPackets(packets, mtu)
                /\ \A n \in 0 .. Len(packets) : w[n] \in Seq(Seq(P)) \ {<<>>}
                /\ \A n \in 0 .. Len(packets) - 1 : w[n + 1] = Pack(mtu, w[n], packets[n + 1])
<1> DEFINE N == Len(packets)
           X == Seq(Seq(P)) \ {<<>>}
           Folds(h) == h = [s \in SUBSET (1 .. N) |-> IF s = {} THEN <<<<>>>> ELSE Pack(mtu, h[s \ {Max(s)}], packets[Max(s)])]
           h == CHOOSE h : Folds(h)
           G == [y \in X \X (1 .. N) |-> Pack(mtu, y[1], packets[y[2]])]
<1>0. <<<<>>>> \in X
  OBVIOUS
<1>1. N \in Nat /\ DOMAIN packets = 1 .. N /\ \A i \in 1 .. N : packets[i] \in P
  OBVIOUS
<1>2. CompactRawPackets(packets, mtu) = h[1 .. N]
  BY <1>1 DEF CompactRawPackets, FoldLeft, MapThenFoldSet
<1>k. ASSUME NEW x \in X, NEW i \in 1 .. N PROVE Pack(mtu, x, packets[i]) \in X
  BY <1>1, PackKeeps
<1> HIDE DEF X
<1>3. G \in [X \X (1 .. N) -> X]
  <2>1. \A y \in X \X (1 .. N) : Pack(mtu, y[1], packets[y[2]]) \in X
    BY <1>k
  <2> QED
    BY <2>1
<1>4. \E g : Folds(g)
  <2>0. PICK g : Folded(g, X, <<<<>>>>, N, G)
    <3> HIDE DEF N, G
    <3> QED
      BY <1>0, <1>1, <1>3, FoldExists
  <2>1. /\ g \in [SUBSET (1 .. N) -> X]
        /\ \A S \in SUBSET (1 .. N) : g[S] = IF S = {} THEN <<<<>>>> ELSE G[<<g[S \ {Max(S)}], Max(S)>>]
    <3> HIDE DEF N, G
    <3> QED
      BY <2>0 DEF Folded
  <2>2. ASSUME NEW S \in SUBSET (1 .. N)
        PROVE  g[S] = IF S = {} THEN <<<<>>>> ELSE Pack(mtu, g[S \ {Max(S)}], packets[Max(S)])
    <3>1. CASE S = {}
      BY <2>1, <3>1
    <3>2. CASE S # {}
      <4> DEFINE x == g[S \ {Max(S)}]
                 m == Max(S)
      <4>1. m \in 1 .. N
        BY <1>1, <3>2, Greatest
      <4>2. x \in X /\ g[S] = G[<<x, m>>]
        BY <2>1, <3>2
      <4> HIDE DEF x, m
      <4>3. G[<<x, m>>] = Pack(mtu, x, packets[m])
        BY <4>1, <4>2
      <4> QED
        BY <3>2, <4>2, <4>3 DEF x, m
    <3> QED
      BY <3>1, <3>2
  <2>3. g = [S \in SUBSET (1 .. N) |-> g[S]]
    BY <2>1
  <2>4. Folds(g)
    <3> HIDE DEF G, N
    <3> QED
      BY <2>2, <2>3
  <2> QED
    BY <2>4
<1>5. Folds(h)
  <2> HIDE DEF Folds
  <2> QED
    BY <1>4
<1> HIDE DEF h
<1>6. h[{}] \in X
  BY <1>0, <1>5
<1>7. ASSUME NEW n \in 0 .. N - 1 PROVE h[1 .. n + 1] = Pack(mtu, h[1 .. n], packets[n + 1])
  <2>1. n \in Nat /\ n + 1 \in 1 .. N /\ 1 .. n + 1 \in SUBSET (1 .. N)
    BY <1>1
  <2>2. Max(1 .. n + 1) = n + 1 /\ (1 .. n + 1) \ {n + 1} = 1 .. n /\ 1 .. n + 1 # {}
    BY <2>1, GreatestOfFirst
  <2>3. h[1 .. n + 1] = Pack(mtu, h[(1 .. n + 1) \ {Max(1 .. n + 1)}], packets[Max(1 .. n + 1)])
    BY <1>5, <2>1, <2>2
  <2> QED
    BY <2>2, <2>3
<1>8. \A n \in 0 .. N : h[1 .. n] \in X
  <2>1. ASSUME NEW n \in 0 .. N - 1, h[1 .. n] \in X PROVE h[1 .. n + 1] \in X
    <3>1. n + 1 \in 1 .. N
      BY <1>1
    <3> QED
      BY <1>7, <1>k, <2>1, <3>1
  <2> HIDE DEF N, Folds
  <2> QED
    BY <1>1, <1>6, <2>1, FoldStaysIn
<1> DEFINE w == [n \in 0 .. N |-> h[1 .. n]]
<1>9. h[{}] = <<<<>>>>
  BY <1>5
<1>10. w[0] = <<<<>>>> /\ w[N] = CompactRawPackets(packets, mtu)
  <2>1. 1 .. 0 = {} /\ 0 \in 0 .. N /\ N \in 0 .. N
    BY <1>1
  <2> HIDE DEF N, Folds
  <2> QED
    BY <1>2, <1>9, <2>1
<1>11. \A n \in 0 .. N : w[n] \in X
  BY <1>8
<1>12. \A n \in 0 .. N - 1 : w[n + 1] = Pack(mtu, w[n], packets[n + 1])
  <2>1. \A n \in 0 .. N - 1 : n \in 0 .. N /\ n + 1 \in 0 .. N
    BY <1>1
  <2> HIDE DEF N, Folds
  <2> QED
    BY <1>7, <2>1
<1> HIDE DEF w, Folds
<1> QED
  BY <1>10, <1>11, <1>12 DEF X

\* It distributes packets and adds none.
LEMMA DatagramsHoldPackets ==
  ASSUME NEW P, NEW packets \in Seq(P), NEW mtu
  PROVE  CompactRawPackets(packets, mtu) \in Seq(Seq(P)) \ {<<>>}
<1>1. PICK w : /\ w[Len(packets)] = CompactRawPackets(packets, mtu)
               /\ \A n \in 0 .. Len(packets) : w[n] \in Seq(Seq(P)) \ {<<>>}
  BY PacksAre
<1>2. Len(packets) \in 0 .. Len(packets)
  OBVIOUS
<1> QED
  BY <1>1, <1>2

\* A record is pushed, and then messages are popped any number of times.
LEMMA TakeRecordKeeps ==
  ASSUME NEW lengths \in Seq(Nat), NEW p \in Records(lengths),
         NEW b \in Buffers(lengths), NEW D, flight.lengths \in Seq(D)
  PROVE  TakeRecord(b, p) \in Buffers(lengths)
BY PushKeeps, PopsKeep DEF TakeRecord, PopAll

\* The reader takes the records of a datagram in turn.
Taken(b, d) == FoldLeft(TakeRecord, b, d)

\* One after the other.
LEMMA RecordsAre ==
  ASSUME NEW lengths \in Seq(Nat), NEW d \in Seq(Records(lengths)),
         NEW b \in Buffers(lengths), NEW D, flight.lengths \in Seq(D)
  PROVE  \E w : /\ w[0] = b /\ w[Len(d)] = Taken(b, d)
                /\ \A n \in 0 .. Len(d) : w[n] \in Buffers(lengths)
                /\ \A n \in 0 .. Len(d) - 1 : w[n + 1] = TakeRecord(w[n], d[n + 1])
<1> DEFINE N == Len(d)
           X == Buffers(lengths)
           Folds(h) == h = [s \in SUBSET (1 .. N) |-> IF s = {} THEN b ELSE TakeRecord(h[s \ {Max(s)}], d[Max(s)])]
           h == CHOOSE h : Folds(h)
           G == [y \in X \X (1 .. N) |-> TakeRecord(y[1], d[y[2]])]
<1>0. b \in X
  OBVIOUS
<1>1. N \in Nat /\ DOMAIN d = 1 .. N /\ \A i \in 1 .. N : d[i] \in Records(lengths)
  OBVIOUS
<1>2. Taken(b, d) = h[1 .. N]
  BY <1>1 DEF Taken, FoldLeft, MapThenFoldSet
<1>k. ASSUME NEW x \in X, NEW i \in 1 .. N PROVE TakeRecord(x, d[i]) \in X
  BY <1>1, TakeRecordKeeps
<1> HIDE DEF X
<1>3. G \in [X \X (1 .. N) -> X]
  <2>1. \A y \in X \X (1 .. N) : TakeRecord(y[1], d[y[2]]) \in X
    BY <1>k
  <2> QED
    BY <2>1
<1>4. \E g : Folds(g)
  <2>0. PICK g : Folded(g, X, b, N, G)
    <3> HIDE DEF N, G
    <3> QED
      BY <1>0, <1>1, <1>3, FoldExists
  <2>1. /\ g \in [SUBSET (1 .. N) -> X]
        /\ \A S \in SUBSET (1 .. N) : g[S] = IF S = {} THEN b ELSE G[<<g[S \ {Max(S)}], Max(S)>>]
    <3> HIDE DEF N, G
    <3> QED
      BY <2>0 DEF Folded
  <2>2. ASSUME NEW S \in SUBSET (1 .. N)
        PROVE  g[S] = IF S = {} THEN b ELSE TakeRecord(g[S \ {Max(S)}], d[Max(S)])
    <3>1. CASE S = {}
      BY <2>1, <3>1
    <3>2. CASE S # {}
      <4> DEFINE x == g[S \ {Max(S)}]
                 m == Max(S)
      <4>1. m \in 1 .. N
        BY <1>1, <3>2, Greatest
      <4>2. x \in X /\ g[S] = G[<<x, m>>]
        BY <2>1, <3>2
      <4> HIDE DEF x, m
      <4>3. G[<<x, m>>] = TakeRecord(x, d[m])
        BY <4>1, <4>2
      <4> QED
        BY <3>2, <4>2, <4>3 DEF x, m
    <3> QED
      BY <3>1, <3>2
  <2>3. g = [S \in SUBSET (1 .. N) |-> g[S]]
    BY <2>1
  <2>4. Folds(g)
    <3> HIDE DEF G, N
    <3> QED
      BY <2>2, <2>3
  <2> QED
    BY <2>4
<1>5. Folds(h)
  <2> HIDE DEF Folds
  <2> QED
    BY <1>4
<1> HIDE DEF h
<1>6. h[{}] \in X
  BY <1>0, <1>5
<1>7. ASSUME NEW n \in 0 .. N - 1 PROVE h[1 .. n + 1] = TakeRecord(h[1 .. n], d[n + 1])
  <2>1. n \in Nat /\ n + 1 \in 1 .. N /\ 1 .. n + 1 \in SUBSET (1 .. N)
    BY <1>1
  <2>2. Max(1 .. n + 1) = n + 1 /\ (1 .. n + 1) \ {n + 1} = 1 .. n /\ 1 .. n + 1 # {}
    BY <2>1, GreatestOfFirst
  <2>3. h[1 .. n + 1] = TakeRecord(h[(1 .. n + 1) \ {Max(1 .. n + 1)}], d[Max(1 .. n + 1)])
    BY <1>5, <2>1, <2>2
  <2> QED
    BY <2>2, <2>3
<1>8. \A n \in 0 .. N : h[1 .. n] \in X
  <2>1. ASSUME NEW n \in 0 .. N - 1, h[1 .. n] \in X PROVE h[1 .. n + 1] \in X
    <3>1. n + 1 \in 1 .. N
      BY <1>1
    <3> QED
      BY <1>7, <1>k, <2>1, <3>1
  <2> HIDE DEF N, Folds
  <2> QED
    BY <1>1, <1>6, <2>1, FoldStaysIn
<1> DEFINE w == [n \in 0 .. N |-> h[1 .. n]]
<1>9. h[{}] = b
  BY <1>5
<1>10. w[0] = b /\ w[N] = Taken(b, d)
  <2>1. 1 .. 0 = {} /\ 0 \in 0 .. N /\ N \in 0 .. N
    BY <1>1
  <2> HIDE DEF N, Folds
  <2> QED
    BY <1>2, <1>9, <2>1
<1>11. \A n \in 0 .. N : w[n] \in X
  BY <1>8
<1>12. \A n \in 0 .. N - 1 : w[n + 1] = TakeRecord(w[n], d[n + 1])
  <2>1. \A n \in 0 .. N - 1 : n \in 0 .. N /\ n + 1 \in 0 .. N
    BY <1>1
  <2> HIDE DEF N, Folds
  <2> QED
    BY <1>7, <2>1
<1> HIDE DEF w, Folds
<1> QED
  BY <1>10, <1>11, <1>12 DEF X

\* They leave a buffer of the same messages.
LEMMA DatagramKeeps ==
  ASSUME NEW lengths \in Seq(Nat), NEW d \in Seq(Records(lengths)),
         NEW b \in Buffers(lengths), NEW D, flight.lengths \in Seq(D)
  PROVE  Taken(b, d) \in Buffers(lengths)
<1>1. PICK w : /\ w[0] = b /\ w[Len(d)] = Taken(b, d)
               /\ \A n \in 0 .. Len(d) : w[n] \in Buffers(lengths)
               /\ \A n \in 0 .. Len(d) - 1 : w[n + 1] = TakeRecord(w[n], d[n + 1])
  BY RecordsAre
<1>2. Len(d) \in 0 .. Len(d)
  OBVIOUS
<1> QED
  BY <1>1, <1>2

\* What is sent are pieces of the messages of the flight, and what the buffer holds are
\* pieces too.
Inv ==
    /\ flight.lengths \in Seq(Nat)
    /\ flight.mtus \subseteq Nat \ {0}
    /\ buffer \in Buffers(flight.lengths)

\* It is so in the beginning.
LEMMA InvStarts ==
  ASSUME Lengths \subseteq Nat, Mtus \subseteq Nat \ {0}, MaxMessages \in Nat
  PROVE  FragmentInit => Inv
<1> SUFFICES ASSUME FragmentInit PROVE Inv
  OBVIOUS
<1>1. flight.lengths \in BoundedSeq(Lengths, MaxMessages) /\ flight.mtus \subseteq Mtus
  BY DEF FragmentInit
<1>2. PICK n \in 0 .. MaxMessages : flight.lengths \in [1 .. n -> Lengths]
  BY <1>1 DEF BoundedSeq, SeqOf
<1>3. n \in Nat /\ flight.lengths \in [1 .. n -> Nat]
  <2> DEFINE F == flight.lengths
  <2>1. F \in [1 .. n -> Lengths] /\ n \in Nat
    BY <1>2
  <2> HIDE DEF F
  <2>2. \A i \in 1 .. n : F[i] \in Nat
    BY <2>1
  <2>3. F \in [1 .. n -> Nat]
    BY <2>1, <2>2
  <2> QED
    BY <2>1, <2>3 DEF F
<1>4. flight.lengths \in Seq(Nat)
  BY <1>3
<1>5. Empty \in Buffers(flight.lengths)
  <2> DEFINE F == flight.lengths
             e == [seq \in {} |-> <<>>]
  <2>1. e \in [{} -> Seq(Records(F))] /\ DOMAIN e = {}
    OBVIOUS
  <2>2. e \in Caches(F)
    <3> HIDE DEF F, e
    <3> QED
      BY <2>1 DEF Caches
  <2>3. 0 \in 0 .. Len(F)
    BY <1>4
  <2>4. <<>> = Out(F, 0)
    BY DEF Out
  <2>5. Empty = [cache |-> e, current |-> 0, popped |-> <<>>]
    BY DEF Empty
  <2> HIDE DEF F, e
  <2>6. Empty \in Buffers(F)
    BY <2>2, <2>3, <2>4, <2>5 DEF Buffers
  <2> QED
    BY <2>6 DEF F
<1> QED
  BY <1>1, <1>4, <1>5 DEF FragmentInit, Inv

\* It stays so, whatever is read.
LEMMA InvStays == Inv /\ [FragmentNext]_fragmentVars => Inv'
<1> SUFFICES ASSUME Inv, [FragmentNext]_fragmentVars PROVE Inv'
  OBVIOUS
<1>1. CASE UNCHANGED fragmentVars
  BY <1>1 DEF fragmentVars, Inv
<1>2. ASSUME NEW mtu \in flight.mtus, NEW i \in DOMAIN Datagrams(mtu), Read(mtu, i) PROVE Inv'
  <2> DEFINE F == flight.lengths
             d == Datagrams(mtu)[i]
  <2>1. F \in Seq(Nat) /\ mtu \in Nat \ {0} /\ buffer \in Buffers(F)
    BY DEF Inv
  <2>2. Datagrams(mtu) \in Seq(Seq(Records(F)))
    <3>1. RawPackets(F, mtu) \in Seq(Records(F))
      BY <2>1, RawPacketsAreRecords
    <3> QED
      BY <3>1, DatagramsHoldPackets DEF Datagrams
  <2>3. d \in Seq(Records(F))
    BY <2>2
  <2>4. Taken(buffer, d) \in Buffers(F)
    <3> HIDE DEF d
    <3> QED
      BY <2>1, <2>3, DatagramKeeps
  <2>5. buffer' = Taken(buffer, d) /\ flight' = flight
    BY <1>2 DEF Read, Taken
  <2> HIDE DEF d
  <2>6. buffer' \in Buffers(F)
    BY <2>4, <2>5
  <2> QED
    BY <2>5, <2>6 DEF Inv
<1> QED
  BY <1>1, <1>2 DEF FragmentNext

\* Messages come out whole, in order and once, for every flight and every size that it, and
\* each of its retransmissions, is cut for.
THEOREM Reassembly ==
  ASSUME Lengths \subseteq Nat, Mtus \subseteq Nat \ {0}, MaxMessages \in Nat
  PROVE  FragmentSpec => []MessagesAreWhole
<1>1. FragmentInit => Inv
  BY InvStarts
<1>2. Inv /\ [FragmentNext]_fragmentVars => Inv'
  BY InvStays
<1>3. Inv => MessagesAreWhole
  <2> SUFFICES ASSUME Inv PROVE MessagesAreWhole
    OBVIOUS
  <2>1. buffer.popped = Out(flight.lengths, buffer.current)
    BY DEF Inv, Buffers
  <2> QED
    BY <2>1 DEF MessagesAreWhole, Out
<1> QED
  BY <1>1, <1>2, <1>3, PTL DEF FragmentSpec

--------------------------------------------------------------------------------
(* Nothing is held back: the sender puts all it has into datagrams, the buffer *)
(* keeps what it is given, and append_message finds its way when all is there. *)

\* Two fragments of a message cut in one size are at different offsets.
LEMMA ApartOffsets ==
  ASSUME NEW i \in Nat, NEW j \in Nat, NEW m \in Nat \ {0}, (i - 1) * m = (j - 1) * m
  PROVE  i = j
<1>1. (i - 1) * m = i * m - m /\ (j - 1) * m = j * m - m /\ i * m \in Nat /\ j * m \in Nat
  OBVIOUS
<1>2. i < j => i * m <= (j - 1) * m
  <2> SUFFICES ASSUME i < j PROVE i * m <= (j - 1) * m
    OBVIOUS
  <2>1. j - 1 \in Nat /\ i <= j - 1
    OBVIOUS
  <2> QED
    BY <2>1, Ordered
<1>3. j < i => j * m <= (i - 1) * m
  <2> SUFFICES ASSUME j < i PROVE j * m <= (i - 1) * m
    OBVIOUS
  <2>1. i - 1 \in Nat /\ j <= i - 1
    OBVIOUS
  <2> QED
    BY <2>1, Ordered
<1> DEFINE x == i * m
           y == j * m
           u == (i - 1) * m
           v == (j - 1) * m
<1> HIDE DEF x, y, u, v
<1>4. u = x - m /\ v = y - m /\ x \in Nat /\ y \in Nat /\ u = v
  BY <1>1 DEF x, y, u, v
<1>5. (i < j => x <= v) /\ (j < i => y <= u)
  BY <1>2, <1>3 DEF x, y, u, v
<1> QED
  BY <1>4, <1>5

\* The fragments of a message, cut in one size.
CutsOf(lengths, seq, mtu) == ToSet(FragmentHandshake(Body(lengths, seq), seq, mtu))

\* When all fragments of a message are there, and no others, append_message finds it.
LEMMA AppendMessageFinds ==
  ASSUME NEW lengths \in Seq(Nat), NEW seq \in Numbers(lengths), NEW mtu \in Nat \ {0},
         NEW frags \in Seq(CutsOf(lengths, seq, mtu)),
         \A g \in CutsOf(lengths, seq, mtu) : \E j \in DOMAIN frags : frags[j] = g
  PROVE  frags # <<>> /\ AppendMessage(frags).ok
<1> DEFINE body == Body(lengths, seq)
           f == FragmentHandshake(body, seq, mtu)
           T == CutsOf(lengths, seq, mtu)
<1>1. body \in Seq(Bytes) /\ seq \in Nat
  BY BodyType DEF Numbers
<1>2. PICK k \in Nat \ {0} : /\ DOMAIN f = 1 .. k
                             /\ \A i \in 1 .. k : TileOf(f[i], body, seq, mtu, i, k)
  <2> HIDE DEF f, body
  <2> QED
    BY <1>1, FragmentsTile DEF f
<1>3. T = {f[i] : i \in 1 .. k}
  BY <1>2 DEF CutsOf, ToSet
<1>4. T \subseteq Cuts(Bytes, body)
  <2>1. f \in Seq(PiecesOf(lengths, seq))
    BY FragmentsArePieces
  <2>2. \A i \in 1 .. k : f[i] \in PiecesOf(lengths, seq)
    <3> HIDE DEF f
    <3> QED
      BY <1>2, <2>1
  <2> QED
    BY <1>3, <2>2 DEF PiecesOf
<1>5. frags \in Seq(Cuts(Bytes, body))
  BY <1>4
<1>6. PICK c : Collects(frags, c) /\ AppendMessage(frags) = c[0]
  <2> HIDE DEF body
  <2> QED
    BY <1>1, <1>5, Searches
<1> HIDE DEF T, f, body
<1> DEFINE R == {t \in Nat : t # 0 => c[(t - 1) * mtu].ok}
<1>7. ASSUME NEW t \in 0 .. k, \A u \in 0 .. k : u > t => u \in R
      PROVE  t \in R
  <2> SUFFICES ASSUME t # 0 PROVE c[(t - 1) * mtu].ok
    OBVIOUS
  <2> DEFINE x == (t - 1) * mtu
             g == frags[At(frags, x)]
             end == x + Len(g.data)
  <2>1. x \in Nat /\ t \in 1 .. k
    <3>1. t - 1 \in Nat /\ t \in 1 .. k
      OBVIOUS
    <3> QED
      BY <3>1, Ordered
  <2>2. f[t] \in T /\ f[t].offset = x
    BY <1>2, <1>3, <2>1, Zenon DEF TileOf
  <2>3. PICK j \in DOMAIN frags : frags[j] = f[t]
    BY <2>2 DEF T
  <2>4. At(frags, x) \in DOMAIN frags /\ g.offset = x
    <3> HIDE DEF x
    <3> QED
      BY <2>2, <2>3, OffsetFound DEF T
  <2>5. g \in T
    BY <2>4 DEF T
  <2>6. PICK s \in 1 .. k : g = f[s]
    BY <1>3, <2>5
  <2>7. TileOf(g, body, seq, mtu, s, k)
    BY <1>2, <2>6
  <2> HIDE DEF g
  <2>8. /\ g.offset = (s - 1) * mtu /\ g.length = Len(body)
        /\ g.offset + Len(g.data) = IF s = k THEN Len(body) ELSE s * mtu
    BY <2>7, Zenon DEF TileOf
  <2>9. s = t
    <3>1. (s - 1) * mtu = (t - 1) * mtu
      BY <2>4, <2>8
    <3> QED
      BY <2>1, <3>1, ApartOffsets
  <2>10. end = IF t = k THEN g.length ELSE t * mtu
    BY <2>4, <2>8, <2>9
  <2>11. c[x] = CollectAt(frags, c, x)
    <3> HIDE DEF x
    <3> QED
      BY <1>6, <2>1 DEF Collects
  <2>12. At(frags, x) # 0
    <3>1. 0 \notin DOMAIN frags
      OBVIOUS
    <3> QED
      BY <2>4, <3>1
  <2>13. c[x] = IF end = g.length \/ g.data = <<>> THEN [ok |-> TRUE, data |-> g.data]
                ELSE [ok |-> c[end].ok, data |-> g.data \o c[end].data]
    BY <2>11, <2>12 DEF CollectAt, g
  <2>14. t # k => c[t * mtu].ok
    <3> SUFFICES ASSUME t # k PROVE c[t * mtu].ok
      OBVIOUS
    <3>1. t + 1 \in 0 .. k /\ t + 1 > t /\ t + 1 # 0 /\ (t + 1) - 1 = t
      BY <2>1
    <3>2. t + 1 \in R
      BY <1>7, <3>1
    <3>3. c[((t + 1) - 1) * mtu].ok
      BY <3>1, <3>2
    <3> QED
      BY <3>1, <3>3
  <2> HIDE DEF x, end
  <2>15. end = g.length \/ c[end].ok
    BY <2>10, <2>14
  <2>16. c[x].ok
    BY <2>13, <2>15
  <2> QED
    BY <2>16 DEF x
<1>8. \A t \in 0 .. k : t \in R
  <2>1. k \in Nat
    OBVIOUS
  <2> HIDE DEF R
  <2> QED
    BY <1>7, <2>1, Downward
<1>9. c[(1 - 1) * mtu].ok
  <2>1. 1 \in 0 .. k
    OBVIOUS
  <2>2. 1 \in R
    BY <1>8, <2>1
  <2> QED
    BY <2>2
<1>10. (1 - 1) * mtu = 0
  OBVIOUS
<1>11. AppendMessage(frags).ok
  BY <1>6, <1>9, <1>10
<1>12. frags # <<>>
  <2>1. f[1] \in T
    BY <1>3
  <2>2. PICK j \in DOMAIN frags : frags[j] = f[1]
    BY <2>1 DEF T
  <2> QED
    BY <2>2
<1> QED
  BY <1>11, <1>12

\* Pops lead nowhere else than one pop after the other does.
LEMMA PopsStayIn ==
  ASSUME NEW lengths \in Seq(Nat), NEW X, X \subseteq Buffers(lengths), NEW b \in X,
         \A x \in X : Pop(x) \in X, NEW D, NEW times \in Seq(D)
  PROVE  PopAll(b, times) \in X
<1>1. PICK w : /\ w[0] = b /\ w[Len(times)] = PopAll(b, times)
               /\ \A n \in 0 .. Len(times) : w[n] \in Buffers(lengths)
               /\ \A n \in 0 .. Len(times) - 1 : w[n + 1] = Pop(w[n])
  BY PopsAre
<1>2. Len(times) \in Nat /\ 0 \in 0 .. Len(times) /\ Len(times) \in 0 .. Len(times)
  OBVIOUS
<1>3. \A n \in 0 .. Len(times) - 1 : w[n] \in X => w[n + 1] \in X
  BY <1>1
<1>4. \A n \in 0 .. Len(times) : w[n] \in X
  BY <1>1, <1>2, <1>3, StaysFrom
<1>5. w[Len(times)] \in X
  BY <1>2, <1>4
<1> QED
  BY <1>1, <1>5

\* A record moves the buffer by a push and pops.
LEMMA TakeRecordStaysIn ==
  ASSUME NEW lengths \in Seq(Nat), NEW X, X \subseteq Buffers(lengths), NEW b, NEW p,
         PushFragment(b, p) \in X, \A x \in X : Pop(x) \in X, NEW D, flight.lengths \in Seq(D)
  PROVE  TakeRecord(b, p) \in X
BY PopsStayIn DEF TakeRecord, PopAll

\* What each record of a datagram keeps, the datagram keeps, and so from any of them on.
LEMMA TakenStaysIn ==
  ASSUME NEW lengths \in Seq(Nat), NEW d \in Seq(Records(lengths)),
         NEW b \in Buffers(lengths), NEW D, flight.lengths \in Seq(D),
         NEW X, b \in X,
         \A x \in X : \A k \in DOMAIN d : x \in Buffers(lengths) => TakeRecord(x, d[k]) \in X
  PROVE  Taken(b, d) \in X
<1>1. PICK w : /\ w[0] = b /\ w[Len(d)] = Taken(b, d)
               /\ \A n \in 0 .. Len(d) : w[n] \in Buffers(lengths)
               /\ \A n \in 0 .. Len(d) - 1 : w[n + 1] = TakeRecord(w[n], d[n + 1])
  BY RecordsAre
<1>2. /\ Len(d) \in Nat /\ 0 \in 0 .. Len(d) /\ Len(d) \in 0 .. Len(d)
      /\ \A n \in 0 .. Len(d) - 1 : n + 1 \in DOMAIN d /\ n \in 0 .. Len(d)
  OBVIOUS
<1>3. \A n \in 0 .. Len(d) - 1 : w[n] \in X => w[n + 1] \in X
  BY <1>1, <1>2
<1>4. \A n \in 0 .. Len(d) : w[n] \in X
  BY <1>1, <1>2, <1>3, StaysFrom
<1>5. w[Len(d)] \in X
  BY <1>2, <1>4
<1> QED
  BY <1>1, <1>5

\* Nothing comes out of this buffer before something else is put in.
Stopped(b) == Pop(b) = b

\* A pop moves on to the next message or does nothing.
LEMMA PopMoves ==
  ASSUME NEW lengths \in Seq(Nat), NEW b \in Buffers(lengths)
  PROVE  /\ ~Stopped(b) => Pop(b).current = b.current + 1
         /\ b.current = Len(lengths) => Stopped(b)
         /\ b.current \in 0 .. Len(lengths)
<1>1. /\ b.current \in 0 .. Len(lengths) /\ b.cache \in Caches(lengths)
  BY DEF Buffers
<1>2. DOMAIN b.cache \in SUBSET Numbers(lengths)
  BY <1>1 DEF Caches
<1>3. ~Stopped(b) => Pop(b).current = b.current + 1
  BY DEF Pop, Stopped
<1>4. b.current = Len(lengths) => Stopped(b)
  <2> SUFFICES ASSUME b.current = Len(lengths) PROVE Stopped(b)
    OBVIOUS
  <2>1. b.current \notin DOMAIN b.cache
    BY <1>2 DEF Numbers
  <2>2. FragmentsOf(b.cache, b.current) = <<>>
    BY <2>1 DEF FragmentsOf
  <2> QED
    BY <2>2 DEF Pop, Stopped
<1> QED
  BY <1>1, <1>3, <1>4

\* As many pops as there are messages are enough.
LEMMA PopsStop ==
  ASSUME NEW lengths \in Seq(Nat), NEW b \in Buffers(lengths)
  PROVE  Stopped(PopAll(b, lengths))
<1>1. PICK w : /\ w[0] = b /\ w[Len(lengths)] = PopAll(b, lengths)
               /\ \A n \in 0 .. Len(lengths) : w[n] \in Buffers(lengths)
               /\ \A n \in 0 .. Len(lengths) - 1 : w[n + 1] = Pop(w[n])
  BY PopsAre
<1> DEFINE N == Len(lengths)
           I == {n \in Nat : n <= N => Stopped(w[n]) \/ w[n].current >= n}
<1>2. N \in Nat
  OBVIOUS
<1>3. \A n \in 0 .. N : /\ ~Stopped(w[n]) => Pop(w[n]).current = w[n].current + 1
                        /\ w[n].current = N => Stopped(w[n])
                        /\ w[n].current \in 0 .. N
  BY <1>1, PopMoves
<1> HIDE DEF N
<1>4. 0 \in I
  BY <1>2, <1>3
<1>5. ASSUME NEW n \in Nat, n \in I PROVE n + 1 \in I
  <2> SUFFICES ASSUME n + 1 <= N PROVE Stopped(w[n + 1]) \/ w[n + 1].current >= n + 1
    OBVIOUS
  <2>1. n \in 0 .. N - 1 /\ n \in 0 .. N /\ n + 1 \in 0 .. N
    BY <1>2
  <2>2. w[n + 1] = Pop(w[n])
    BY <1>1, <2>1 DEF N
  <2>3. CASE Stopped(w[n])
    <3>1. w[n + 1] = w[n]
      BY <2>2, <2>3 DEF Stopped
    <3> QED
      BY <2>3, <3>1
  <2>4. CASE ~Stopped(w[n])
    <3>1. w[n].current >= n /\ w[n + 1].current = w[n].current + 1 /\ w[n].current \in Nat
      BY <1>3, <1>5, <2>1, <2>2, <2>4
    <3> QED
      BY <3>1
  <2> QED
    BY <2>3, <2>4
<1>6. N \in I
  <2> HIDE DEF I
  <2> QED
    BY <1>2, <1>4, <1>5, Upward
<1>7. Stopped(w[N])
  BY <1>2, <1>3, <1>6
<1> QED
  BY <1>1, <1>7 DEF N

\* A datagram leaves nothing that could come out.
LEMMA TakenStops ==
  ASSUME NEW d \in Seq(Records(flight.lengths)), flight.lengths \in Seq(Nat),
         NEW b \in Buffers(flight.lengths), Stopped(b)
  PROVE  Stopped(Taken(b, d))
<1> DEFINE F == flight.lengths
           X == {x \in Buffers(F) : Stopped(x)}
<1>1. ASSUME NEW x \in Buffers(F), NEW k \in DOMAIN d PROVE TakeRecord(x, d[k]) \in X
  <2>1. d[k] \in Records(F)
    OBVIOUS
  <2>2. PushFragment(x, d[k]) \in Buffers(F)
    BY <2>1, PushKeeps
  <2>3. TakeRecord(x, d[k]) \in Buffers(F)
    BY <2>2, PopsKeep DEF TakeRecord, PopAll
  <2>4. Stopped(TakeRecord(x, d[k]))
    BY <2>2, PopsStop DEF TakeRecord, PopAll
  <2> QED
    BY <2>3, <2>4
<1>2. Taken(b, d) \in X
  <2>1. b \in X
    OBVIOUS
  <2>2. \A x \in X : \A k \in DOMAIN d : x \in Buffers(F) => TakeRecord(x, d[k]) \in X
    BY <1>1
  <2> HIDE DEF X
  <2> QED
    BY <2>1, <2>2, TakenStaysIn
<1> QED
  BY <1>2

\* A fragment is in the buffer, or came out of it with its message.
Holds(b, p) ==
    \/ p.seq < b.current
    \/ \E j \in DOMAIN FragmentsOf(b.cache, p.seq) : FragmentsOf(b.cache, p.seq)[j] = p

\* There is nothing else in the buffer than these fragments.
Only(b, S) == \A seq \in DOMAIN b.cache : \A j \in DOMAIN b.cache[seq] : b.cache[seq][j] \in S

\* What a pop leaves of the cache.
LEMMA PopLeaves ==
  ASSUME NEW lengths \in Seq(Nat), NEW b \in Buffers(lengths), ~Stopped(b)
  PROVE  /\ Pop(b).current = b.current + 1 /\ b.current \in Nat
         /\ DOMAIN Pop(b).cache = DOMAIN b.cache \ {b.current}
         /\ \A seq \in DOMAIN Pop(b).cache : Pop(b).cache[seq] = b.cache[seq]
<1>1. b.current \in Nat
  BY DEF Buffers
<1>2. Pop(b).current = b.current + 1
  BY PopMoves
<1>3. Pop(b).cache = Restrict(b.cache, DOMAIN b.cache \ {b.current})
  BY DEF Pop, Stopped
<1>4. Pop(b).cache = [seq \in DOMAIN b.cache \ {b.current} |-> b.cache[seq]]
  BY <1>3 DEF Restrict
<1> QED
  BY <1>1, <1>2, <1>4

\* A pop loses nothing but what came out, and adds nothing.
LEMMA PopHolds ==
  ASSUME NEW lengths \in Seq(Nat), NEW b \in Buffers(lengths)
  PROVE  /\ \A p \in Records(lengths) : Holds(b, p) => Holds(Pop(b), p)
         /\ \A S : Only(b, S) => Only(Pop(b), S)
<1>1. CASE Stopped(b)
  BY <1>1 DEF Stopped
<1>2. CASE ~Stopped(b)
  <2> DEFINE r == Pop(b)
  <2>1. /\ r.current = b.current + 1 /\ b.current \in Nat
        /\ DOMAIN r.cache = DOMAIN b.cache \ {b.current}
        /\ \A seq \in DOMAIN r.cache : r.cache[seq] = b.cache[seq]
    BY <1>2, PopLeaves
  <2> HIDE DEF r
  <2>2. ASSUME NEW p \in Records(lengths), Holds(b, p) PROVE Holds(r, p)
    <3>1. p.seq \in Nat
      BY DEF Records, PiecesOf, Numbers
    <3>2. CASE p.seq < b.current \/ p.seq = b.current
      BY <2>1, <3>1, <3>2 DEF Holds
    <3>3. CASE ~(p.seq < b.current) /\ p.seq # b.current
      <4>1. FragmentsOf(r.cache, p.seq) = FragmentsOf(b.cache, p.seq)
        BY <2>1, <3>3 DEF FragmentsOf
      <4> QED
        BY <2>2, <3>3, <4>1 DEF Holds
    <3> QED
      BY <3>2, <3>3
  <2>3. ASSUME NEW S, Only(b, S) PROVE Only(r, S)
    BY <2>1, <2>3 DEF Only
  <2> QED
    BY <2>2, <2>3 DEF r
<1> QED
  BY <1>1, <1>2

\* A push loses nothing; it adds the fragment, if there is room for it, and no other.
LEMMA PushHolds ==
  ASSUME NEW lengths \in Seq(Nat), NEW b \in Buffers(lengths), NEW q \in Records(lengths)
  PROVE  /\ \A p \in Records(lengths) : Holds(b, p) => Holds(PushFragment(b, q), p)
         /\ ~Refuses(b, q) => Holds(PushFragment(b, q), q)
         /\ \A S : Only(b, S) /\ q \in S => Only(PushFragment(b, q), S)
<1>1. CASE Refuses(b, q)
  <2>1. PushFragment(b, q) = b
    BY <1>1 DEF PushFragment
  <2> QED
    BY <1>1, <2>1
<1>2. CASE ~Refuses(b, q)
  <2> DEFINE c == b.cache
             r == PushFragment(b, q)
             a == FragmentsOf(c, q.seq)
  <2>1. r.current = b.current /\
        r.cache = [seq \in DOMAIN c \cup {q.seq} |->
                     IF seq = q.seq THEN Append(FragmentsOf(c, seq), q) ELSE c[seq]]
    <3>1. r = [b EXCEPT !.cache = [seq \in DOMAIN c \cup {q.seq} |->
                     IF seq = q.seq THEN Append(FragmentsOf(c, seq), q) ELSE c[seq]]]
      BY <1>2 DEF PushFragment
    <3>2. b \in [cache : Caches(lengths), current : 0 .. Len(lengths), popped : Seq(Seq(Bytes))]
      BY DEF Buffers
    <3> HIDE DEF r
    <3> QED
      BY <3>1, <3>2
  <2>2. c \in Caches(lengths)
    BY DEF Buffers
  <2>3. q.seq \in Numbers(lengths) /\ q \in PiecesOf(lengths, q.seq)
    BY DEF Records, PiecesOf
  <2>4. a \in Seq(Records(lengths))
    BY <2>2 DEF Caches, FragmentsOf
  <2> HIDE DEF c, r, a
  <2>5. /\ FragmentsOf(r.cache, q.seq) = Append(a, q)
        /\ \A seq : seq # q.seq => FragmentsOf(r.cache, seq) = FragmentsOf(c, seq)
    BY <2>1 DEF FragmentsOf, a
  <2>6. /\ DOMAIN Append(a, q) = 1 .. Len(a) + 1 /\ Len(a) \in Nat /\ DOMAIN a = 1 .. Len(a)
        /\ Append(a, q)[Len(a) + 1] = q
        /\ \A j \in 1 .. Len(a) : Append(a, q)[j] = a[j]
    BY <2>4
  <2>7. ASSUME NEW p \in Records(lengths), Holds(b, p) PROVE Holds(r, p)
    <3>1. CASE p.seq < b.current
      BY <2>1, <3>1 DEF Holds
    <3>2. CASE ~(p.seq < b.current) /\ p.seq = q.seq
      <4>1. PICK j \in DOMAIN a : a[j] = p
        BY <2>7, <3>2 DEF Holds, a, c
      <4>2. j \in DOMAIN Append(a, q) /\ Append(a, q)[j] = p
        BY <2>6, <4>1
      <4> QED
        BY <2>5, <3>2, <4>2 DEF Holds
    <3>3. CASE ~(p.seq < b.current) /\ p.seq # q.seq
      BY <2>5, <2>7, <3>3 DEF Holds, c
    <3> QED
      BY <3>1, <3>2, <3>3
  <2>8. Holds(r, q)
    <3>1. Len(a) + 1 \in DOMAIN Append(a, q)
      BY <2>6
    <3> QED
      BY <2>5, <2>6, <3>1 DEF Holds
  <2>9. ASSUME NEW S, Only(b, S), q \in S PROVE Only(r, S)
    <3> SUFFICES ASSUME NEW seq \in DOMAIN r.cache, NEW j \in DOMAIN r.cache[seq]
                 PROVE  r.cache[seq][j] \in S
      BY DEF Only
    <3>1. CASE seq = q.seq
      <4>1. r.cache[seq] = Append(a, q)
        BY <2>1, <3>1 DEF a
      <4>2. \A i \in DOMAIN a : a[i] \in S
        BY <2>9 DEF Only, a, c, FragmentsOf
      <4> QED
        BY <2>6, <2>9, <4>1, <4>2
    <3>2. CASE seq # q.seq
      BY <2>1, <2>9, <3>2 DEF Only, c
    <3> QED
      BY <3>1, <3>2
  <2> QED
    BY <2>7, <2>8, <2>9 DEF r
<1> QED
  BY <1>1, <1>2

\* So does a record, with the messages it completes.
LEMMA RecordHolds ==
  ASSUME flight.lengths \in Seq(Nat), NEW b \in Buffers(flight.lengths),
         NEW q \in Records(flight.lengths)
  PROVE  /\ \A p \in Records(flight.lengths) : Holds(b, p) => Holds(TakeRecord(b, q), p)
         /\ ~Refuses(b, q) => Holds(TakeRecord(b, q), q)
         /\ \A S : Only(b, S) /\ q \in S => Only(TakeRecord(b, q), S)
<1> DEFINE F == flight.lengths
           H(p) == {x \in Buffers(F) : Holds(x, p)}
           O(S) == {x \in Buffers(F) : Only(x, S)}
<1>1. PushFragment(b, q) \in Buffers(F)
  BY PushKeeps
<1>2. ASSUME NEW p \in Records(F), Holds(PushFragment(b, q), p) PROVE Holds(TakeRecord(b, q), p)
  <2>1. \A x \in H(p) : Pop(x) \in H(p)
    BY PopKeeps, PopHolds
  <2>2. PushFragment(b, q) \in H(p) /\ H(p) \subseteq Buffers(F)
    BY <1>1, <1>2
  <2>3. TakeRecord(b, q) \in H(p)
    <3> HIDE DEF H
    <3> QED
      BY <2>1, <2>2, TakeRecordStaysIn
  <2> QED
    BY <2>3
<1>3. ASSUME NEW S, Only(PushFragment(b, q), S) PROVE Only(TakeRecord(b, q), S)
  <2>1. \A x \in O(S) : Pop(x) \in O(S)
    BY PopKeeps, PopHolds
  <2>2. PushFragment(b, q) \in O(S) /\ O(S) \subseteq Buffers(F)
    BY <1>1, <1>3
  <2>3. TakeRecord(b, q) \in O(S)
    <3> HIDE DEF O
    <3> QED
      BY <2>1, <2>2, TakeRecordStaysIn
  <2> QED
    BY <2>3
<1> QED
  BY <1>2, <1>3, PushHolds

\* A datagram loses nothing that was there, and brings nothing but its records.
LEMMA DatagramHolds ==
  ASSUME flight.lengths \in Seq(Nat), NEW b \in Buffers(flight.lengths),
         NEW d \in Seq(Records(flight.lengths))
  PROVE  /\ \A p \in Records(flight.lengths) : Holds(b, p) => Holds(Taken(b, d), p)
         /\ \A S : Only(b, S) /\ d \in Seq(S) => Only(Taken(b, d), S)
<1> DEFINE F == flight.lengths
           H(p) == {x \in Buffers(F) : Holds(x, p)}
           O(S) == {x \in Buffers(F) : Only(x, S)}
<1>1. ASSUME NEW x \in Buffers(F), NEW k \in DOMAIN d
      PROVE  TakeRecord(x, d[k]) \in Buffers(F) /\ d[k] \in Records(F)
  <2>1. d[k] \in Records(F)
    OBVIOUS
  <2> QED
    BY <2>1, TakeRecordKeeps
<1>2. ASSUME NEW p \in Records(F), Holds(b, p) PROVE Holds(Taken(b, d), p)
  <2>1. \A x \in H(p) : \A k \in DOMAIN d : x \in Buffers(F) => TakeRecord(x, d[k]) \in H(p)
    BY <1>1, RecordHolds
  <2>2. b \in H(p)
    BY <1>2
  <2>3. Taken(b, d) \in H(p)
    <3> HIDE DEF H
    <3> QED
      BY <2>1, <2>2, TakenStaysIn
  <2> QED
    BY <2>3
<1>3. ASSUME NEW S, Only(b, S), d \in Seq(S) PROVE Only(Taken(b, d), S)
  <2>1. \A k \in DOMAIN d : d[k] \in S
    BY <1>3
  <2>2. \A x \in O(S) : \A k \in DOMAIN d : x \in Buffers(F) => TakeRecord(x, d[k]) \in O(S)
    BY <1>1, <2>1, RecordHolds
  <2>3. b \in O(S)
    BY <1>3
  <2>4. Taken(b, d) \in O(S)
    <3> HIDE DEF O
    <3> QED
      BY <2>2, <2>3, TakenStaysIn
  <2> QED
    BY <2>4
<1> QED
  BY <1>2, <1>3

\* After some records of a datagram the buffer is as if only they had come.
LEMMA TakenSoFar ==
  ASSUME flight.lengths \in Seq(Nat), NEW b \in Buffers(flight.lengths),
         NEW d \in Seq(Records(flight.lengths)), NEW n \in 0 .. Len(d), NEW w, w[0] = b,
         \A i \in 0 .. Len(d) - 1 : w[i + 1] = TakeRecord(w[i], d[i + 1])
  PROVE  w[n] = Taken(b, SubSeq(d, 1, n))
<1> DEFINE e == SubSeq(d, 1, n)
<1>1. n \in Nat /\ Len(d) \in Nat /\ n <= Len(d)
  OBVIOUS
<1>2. e \in Seq(Records(flight.lengths)) /\ Len(e) = n /\ \A i \in 1 .. n : e[i] = d[i]
  BY <1>1
<1> HIDE DEF e
<1>3. PICK v : /\ v[0] = b /\ v[Len(e)] = Taken(b, e)
               /\ \A i \in 0 .. Len(e) : v[i] \in Buffers(flight.lengths)
               /\ \A i \in 0 .. Len(e) - 1 : v[i + 1] = TakeRecord(v[i], e[i + 1])
  BY <1>2, RecordsAre
<1> DEFINE I == {i \in Nat : i <= n => v[i] = w[i]}
<1>4. 0 \in I
  BY <1>3
<1>5. ASSUME NEW i \in Nat, i \in I PROVE i + 1 \in I
  <2> SUFFICES ASSUME i + 1 <= n PROVE v[i + 1] = w[i + 1]
    OBVIOUS
  <2>1. i \in 0 .. n - 1 /\ i \in 0 .. Len(d) - 1 /\ i + 1 \in 1 .. n
    BY <1>1
  <2>2. v[i + 1] = TakeRecord(v[i], e[i + 1]) /\ v[i] = w[i] /\ e[i + 1] = d[i + 1]
    BY <1>2, <1>3, <1>5, <2>1
  <2> QED
    BY <2>1, <2>2
<1>6. n \in I
  <2> HIDE DEF I
  <2> QED
    BY <1>1, <1>4, <1>5, Upward
<1>7. w[n] = Taken(b, e)
  BY <1>1, <1>2, <1>3, <1>6
<1> QED
  BY <1>7 DEF e

\* If there is room for a datagram, all its records are kept.
LEMMA DatagramIsHeld ==
  ASSUME flight.lengths \in Seq(Nat), NEW b \in Buffers(flight.lengths),
         NEW d \in Seq(Records(flight.lengths)), HasRoom(b, d), NEW k \in DOMAIN d
  PROVE  Holds(Taken(b, d), d[k])
<1> DEFINE F == flight.lengths
           N == Len(d)
           H == {x \in Buffers(F) : Holds(x, d[k])}
<1>1. PICK w : /\ w[0] = b /\ w[N] = Taken(b, d)
               /\ \A n \in 0 .. N : w[n] \in Buffers(F)
               /\ \A n \in 0 .. N - 1 : w[n + 1] = TakeRecord(w[n], d[n + 1])
  BY RecordsAre
<1>2. /\ N \in Nat /\ k \in 0 .. N /\ k - 1 \in 0 .. N - 1 /\ k - 1 \in 0 .. N /\ (k - 1) + 1 = k
      /\ N \in k .. N /\ \A n \in 0 .. N - 1 : n \in 0 .. N /\ n + 1 \in DOMAIN d /\ n + 1 \in 0 .. N
      /\ \A n \in k .. N - 1 : n \in 0 .. N - 1
  OBVIOUS
<1>3. \A n \in DOMAIN d : d[n] \in Records(F)
  OBVIOUS
<1> HIDE DEF N
<1>4. w[k] \in H
  <2>1. w[k] = TakeRecord(w[k - 1], d[k]) /\ w[k - 1] \in Buffers(F)
    BY <1>1, <1>2
  <2>2. w[k - 1] = Taken(b, SubSeq(d, 1, k - 1))
    BY <1>1, <1>2, TakenSoFar DEF N
  <2>3. ~Refuses(w[k - 1], d[k])
    BY <2>2 DEF HasRoom, Taken
  <2>4. Holds(w[k], d[k])
    BY <1>3, <2>1, <2>3, RecordHolds
  <2> QED
    BY <1>1, <1>2, <2>4
<1>5. \A n \in k .. N - 1 : w[n] \in H => w[n + 1] \in H
  <2> SUFFICES ASSUME NEW n \in k .. N - 1, w[n] \in H PROVE w[n + 1] \in H
    OBVIOUS
  <2>1. /\ w[n] \in Buffers(F) /\ w[n + 1] \in Buffers(F) /\ d[n + 1] \in Records(F)
        /\ w[n + 1] = TakeRecord(w[n], d[n + 1])
    BY <1>1, <1>2, <1>3
  <2> QED
    BY <1>3, <2>1, RecordHolds
<1>6. w[N] \in H
  <2>1. \A n \in k .. N : w[n] \in H
    <3> HIDE DEF H
    <3> QED
      BY <1>2, <1>4, <1>5, StaysFrom
  <2> QED
    BY <1>2, <2>1
<1> QED
  BY <1>1, <1>6

\* Flattening loses nothing.
LEMMA FlattenHas ==
  ASSUME NEW P, NEW ss \in Seq(Seq(P)), NEW i \in DOMAIN ss, NEW j \in DOMAIN ss[i]
  PROVE  \E m \in DOMAIN FlattenSeq(ss) : FlattenSeq(ss)[m] = ss[i][j]
<1> DEFINE N == Len(ss)
           e == ss[i][j]
           X == {s \in Seq(P) : \E m \in DOMAIN s : s[m] = e}
<1>1. N \in Nat /\ N # 0 /\ i \in 1 .. N /\ N \in i .. N /\ i \in 0 .. N
  OBVIOUS
<1>2. \A n \in 1 .. N : ss[n] \in Seq(P)
  OBVIOUS
<1>3. PICK h : Flattened(h, ss, P) /\ FlattenSeq(ss) = h[N]
  BY <1>1, FlattenIs
<1>4. /\ h \in [1 .. N -> Seq(P)]
      /\ \A n \in 1 .. N : h[n] = IF n = 1 THEN ss[n] ELSE h[n - 1] \o ss[n]
  BY <1>3 DEF Flattened
<1> HIDE DEF N, e
<1>5. ASSUME NEW s \in Seq(P), NEW r \in Seq(P)
      PROVE  /\ s \o r \in Seq(P)
             /\ \A m \in DOMAIN s : m \in DOMAIN (s \o r) /\ (s \o r)[m] = s[m]
             /\ \A m \in DOMAIN r : Len(s) + m \in DOMAIN (s \o r) /\ (s \o r)[Len(s) + m] = r[m]
  <2>1. Len(s) \in Nat /\ DOMAIN s = 1 .. Len(s) /\ Len(r) \in Nat /\ DOMAIN r = 1 .. Len(r)
    OBVIOUS
  <2>2. /\ s \o r \in Seq(P) /\ Len(s \o r) = Len(s) + Len(r)
        /\ \A m \in 1 .. Len(s) + Len(r) : (s \o r)[m] = IF m <= Len(s) THEN s[m] ELSE r[m - Len(s)]
    BY ConcatProperties
  <2> DEFINE z == s \o r
  <2> HIDE DEF z
  <2>3. DOMAIN z = 1 .. Len(s) + Len(r)
    BY <2>2 DEF z
  <2>4. ASSUME NEW m \in DOMAIN s PROVE m \in DOMAIN z /\ z[m] = s[m]
    BY <2>1, <2>2, <2>3 DEF z
  <2>5. ASSUME NEW m \in DOMAIN r PROVE Len(s) + m \in DOMAIN z /\ z[Len(s) + m] = r[m]
    <3>1. Len(s) + m \in 1 .. Len(s) + Len(r) /\ ~(Len(s) + m <= Len(s)) /\ (Len(s) + m) - Len(s) = m
      BY <2>1
    <3> QED
      BY <2>2, <2>3, <3>1 DEF z
  <2> QED
    BY <2>2, <2>4, <2>5 DEF z
<1>6. h[i] \in X
  <2>1. CASE i = 1
    <3>1. h[i] = ss[i]
      BY <1>1, <1>4, <2>1
    <3> QED
      BY <1>1, <1>2, <3>1 DEF e
  <2>2. CASE i # 1
    <3>0. \A n \in 1 .. N : n # 1 => h[n] = h[n - 1] \o ss[n]
      BY <1>4
    <3>1. h[i] = h[i - 1] \o ss[i]
      BY <1>1, <2>2, <3>0
    <3>2. i - 1 \in 1 .. N
      BY <1>1, <2>2
    <3> DEFINE s == h[i - 1]
    <3>3. s \in Seq(P) /\ ss[i] \in Seq(P) /\ h[i] = s \o ss[i]
      BY <1>1, <1>2, <1>4, <3>1, <3>2
    <3> HIDE DEF s
    <3> DEFINE r == ss[i]
               m == Len(s) + j
    <3>4. r \in Seq(P) /\ j \in DOMAIN r /\ r[j] = e /\ h[i] = s \o r
      BY <3>3 DEF e
    <3> HIDE DEF r
    <3>5. s \o r \in Seq(P) /\ m \in DOMAIN (s \o r) /\ (s \o r)[m] = r[j]
      BY <1>5, <3>3, <3>4
    <3> HIDE DEF m
    <3>6. m \in DOMAIN h[i] /\ h[i][m] = e /\ h[i] \in Seq(P)
      BY <3>4, <3>5
    <3> QED
      BY <3>6
  <2> QED
    BY <2>1, <2>2
<1>7. \A n \in i .. N - 1 : h[n] \in X => h[n + 1] \in X
  <2> SUFFICES ASSUME NEW n \in i .. N - 1, h[n] \in X PROVE h[n + 1] \in X
    OBVIOUS
  <2>1. n \in 1 .. N /\ n + 1 \in 1 .. N /\ n + 1 # 1 /\ (n + 1) - 1 = n
    BY <1>1
  <2>2. h[n + 1] = h[(n + 1) - 1] \o ss[n + 1]
    BY <1>4, <2>1
  <2> DEFINE s == h[n]
             r == ss[n + 1]
  <2>3. s \in X /\ r \in Seq(P) /\ h[n + 1] = s \o r
    BY <1>2, <2>1, <2>2
  <2> HIDE DEF s, r
  <2>4. PICK m \in DOMAIN s : s[m] = e
    BY <2>3
  <2>5. m \in DOMAIN h[n + 1] /\ h[n + 1][m] = e /\ h[n + 1] \in Seq(P)
    BY <1>5, <2>3, <2>4
  <2> QED
    BY <2>5
<1>8. h[N] \in X
  <2>1. \A n \in i .. N : h[n] \in X
    <3> HIDE DEF X
    <3> QED
      BY <1>1, <1>6, <1>7, StaysFrom
  <2> QED
    BY <1>1, <2>1
<1> QED
  BY <1>3, <1>8 DEF e

\* A packet is in one of some datagrams.
In(ds, p) == \E i \in DOMAIN ds : \E j \in DOMAIN ds[i] : ds[i][j] = p

\* A packet that is packed is in a datagram, and those before it stay in theirs.
LEMMA PackHas ==
  ASSUME NEW P, NEW mtu, NEW ds \in Seq(Seq(P)) \ {<<>>}, NEW p \in P
  PROVE  /\ In(Pack(mtu, ds, p), p)
         /\ \A q \in P : In(ds, q) => In(Pack(mtu, ds, p), q)
<1> DEFINE Q == Seq(P)
           open == Last(ds)
           n == Len(ds)
           front == Front(ds)
           last == Append(open, p)
           r == Pack(mtu, ds, p)
<1>1. ds \in Seq(Q) /\ n \in Nat \ {0} /\ n \in DOMAIN ds /\ DOMAIN ds = 1 .. n
  OBVIOUS
<1>2. open \in Q /\ open = ds[n]
  BY <1>1 DEF Last
<1>3. /\ last \in Q /\ Len(open) + 1 \in DOMAIN last /\ last[Len(open) + 1] = p
      /\ \A j \in DOMAIN open : j \in DOMAIN last /\ last[j] = open[j]
  <2>1. Len(open) \in Nat /\ DOMAIN open = 1 .. Len(open)
    BY <1>2
  <2> HIDE DEF open
  <2>2. /\ last \in Seq(P) /\ Len(last) = Len(open) + 1
        /\ \A j \in 1 .. Len(open) + 1 : last[j] = IF j = Len(open) + 1 THEN p ELSE open[j]
    BY <1>2, AppendProperties
  <2> HIDE DEF last
  <2> QED
    BY <2>1, <2>2
<1>4. front \in Seq(Q) /\ Len(front) = n - 1 /\ \A i \in 1 .. n - 1 : front[i] = ds[i]
  <2>1. 1 \in 1 .. Len(ds) + 1 /\ Len(ds) - 1 \in 1 - 1 .. Len(ds)
    BY <1>1
  <2> HIDE DEF Q
  <2> QED
    BY <1>1, <2>1, SubSeqProperties DEF Front
<1>5. r = Append(ds, <<p>>) \/ r = Append(front, last)
  BY DEF Pack
<1> HIDE DEF Q, open, front, last, r, n
<1>6. CASE r = Append(ds, <<p>>)
  <2> DEFINE new == <<p>>
  <2>1. new \in Q /\ 1 \in DOMAIN new /\ new[1] = p
    BY DEF Q
  <2> HIDE DEF new
  <2>2. /\ DOMAIN r = 1 .. n + 1 /\ r[n + 1] = new
        /\ \A i \in 1 .. n : r[i] = ds[i]
    BY <1>1, <1>6, <2>1, AppendProperties DEF n, new
  <2>3. n + 1 \in DOMAIN r /\ \A i \in 1 .. n : i \in DOMAIN r
    BY <1>1, <2>2
  <2>4. In(r, p)
    BY <2>1, <2>2, <2>3 DEF In
  <2>5. \A q \in P : In(ds, q) => In(r, q)
    BY <1>1, <2>2, <2>3 DEF In
  <2> QED
    BY <2>4, <2>5 DEF r
<1>7. CASE r = Append(front, last)
  <2>1. last \in Q
    BY <1>3
  <2>2. /\ DOMAIN r = 1 .. n /\ r[n] = last
        /\ \A i \in 1 .. n - 1 : r[i] = ds[i]
    <3>1. /\ Append(front, last) \in Seq(Q) /\ Len(Append(front, last)) = Len(front) + 1
          /\ \A i \in 1 .. Len(front) + 1 :
               Append(front, last)[i] = IF i = Len(front) + 1 THEN last ELSE front[i]
      BY <1>4, <2>1, AppendProperties
    <3>2. Len(r) = n /\ DOMAIN r = 1 .. Len(r)
      BY <1>1, <1>4, <1>7, <3>1
    <3> QED
      BY <1>1, <1>4, <1>7, <3>1, <3>2
  <2>3. n \in DOMAIN r /\ \A i \in 1 .. n - 1 : i \in DOMAIN r
    BY <1>1, <2>2
  <2>4. In(r, p)
    BY <1>3, <2>2, <2>3 DEF In
  <2>5. ASSUME NEW q \in P, In(ds, q) PROVE In(r, q)
    <3>1. PICK i \in DOMAIN ds : \E j \in DOMAIN ds[i] : ds[i][j] = q
      BY <2>5 DEF In
    <3>2. PICK j \in DOMAIN ds[i] : ds[i][j] = q
      BY <3>1
    <3>3. CASE i = n
      <4>1. j \in DOMAIN last /\ last[j] = q
        BY <1>2, <1>3, <3>2, <3>3
      <4> QED
        BY <2>2, <2>3, <4>1 DEF In
    <3>4. CASE i # n
      <4>1. i \in 1 .. n - 1
        BY <1>1, <3>4
      <4>2. i \in DOMAIN r /\ r[i] = ds[i]
        BY <2>2, <2>3, <4>1
      <4> QED
        BY <3>2, <4>2 DEF In
    <3> QED
      BY <3>3, <3>4
  <2> QED
    BY <2>4, <2>5 DEF r
<1> QED
  BY <1>5, <1>6, <1>7

\* Every packet is sent.
LEMMA PacketsAreSent ==
  ASSUME NEW P, NEW packets \in Seq(P), NEW mtu, NEW k \in DOMAIN packets
  PROVE  In(CompactRawPackets(packets, mtu), packets[k])
<1> DEFINE N == Len(packets)
           D == Seq(Seq(P)) \ {<<>>}
           X == {ds \in D : In(ds, packets[k])}
<1>1. PICK w : /\ w[N] = CompactRawPackets(packets, mtu)
               /\ \A n \in 0 .. N : w[n] \in D
               /\ \A n \in 0 .. N - 1 : w[n + 1] = Pack(mtu, w[n], packets[n + 1])
  BY PacksAre
<1>2. /\ N \in Nat /\ k \in 0 .. N /\ k - 1 \in 0 .. N - 1 /\ k - 1 \in 0 .. N /\ (k - 1) + 1 = k
      /\ N \in k .. N /\ \A n \in 0 .. N - 1 : n \in 0 .. N /\ n + 1 \in DOMAIN packets /\ n + 1 \in 0 .. N
      /\ \A n \in k .. N - 1 : n \in 0 .. N - 1
  OBVIOUS
<1>3. \A n \in DOMAIN packets : packets[n] \in P
  OBVIOUS
<1>4. ASSUME NEW ds \in D, NEW p \in P
      PROVE  /\ In(Pack(mtu, ds, p), p)
             /\ \A q \in P : In(ds, q) => In(Pack(mtu, ds, p), q)
  BY PackHas
<1> HIDE DEF N, D
<1>5. w[k] \in X
  <2>1. w[k] = Pack(mtu, w[k - 1], packets[k]) /\ w[k - 1] \in D /\ w[k] \in D
    BY <1>1, <1>2
  <2> QED
    BY <1>3, <1>4, <2>1
<1>6. \A n \in k .. N - 1 : w[n] \in X => w[n + 1] \in X
  <2> SUFFICES ASSUME NEW n \in k .. N - 1, w[n] \in X PROVE w[n + 1] \in X
    OBVIOUS
  <2>1. /\ w[n + 1] \in D /\ packets[n + 1] \in P
        /\ w[n + 1] = Pack(mtu, w[n], packets[n + 1])
    BY <1>1, <1>2, <1>3
  <2> QED
    BY <1>3, <1>4, <2>1
<1>7. w[N] \in X
  <2>1. \A n \in k .. N : w[n] \in X
    <3> HIDE DEF X
    <3> QED
      BY <1>2, <1>5, <1>6, StaysFrom
  <2> QED
    BY <1>2, <2>1
<1> QED
  BY <1>1, <1>7

\* All fragments of all messages, cut in one size.
Sent(lengths, mtu) == UNION {CutsOf(lengths, seq, mtu) : seq \in Numbers(lengths)}

\* They are pieces of the messages, each of its own.
LEMMA SentIs ==
  ASSUME NEW lengths \in Seq(Nat), NEW mtu \in Nat \ {0}
  PROVE  /\ Sent(lengths, mtu) \subseteq Records(lengths)
         /\ \A seq \in Numbers(lengths) : \A g \in CutsOf(lengths, seq, mtu) : g.seq = seq
<1>1. ASSUME NEW seq \in Numbers(lengths), NEW g \in CutsOf(lengths, seq, mtu)
      PROVE  g \in PiecesOf(lengths, seq)
  <2> DEFINE f == FragmentHandshake(Body(lengths, seq), seq, mtu)
  <2>1. f \in Seq(PiecesOf(lengths, seq))
    BY FragmentsArePieces
  <2>2. PICK i \in DOMAIN f : g = f[i]
    BY DEF CutsOf, ToSet
  <2> HIDE DEF f
  <2> QED
    BY <2>1, <2>2
<1> QED
  BY <1>1 DEF Sent, Records, PiecesOf

\* The datagrams carry them all, and nothing else.
LEMMA DatagramsCarry ==
  ASSUME NEW lengths \in Seq(Nat), NEW mtu \in Nat \ {0}
  PROVE  LET ds == CompactRawPackets(RawPackets(lengths, mtu), mtu)
         IN  /\ ds \in Seq(Seq(Sent(lengths, mtu)))
             /\ \A g \in Sent(lengths, mtu) : In(ds, g)
<1> DEFINE f(i) == FragmentHandshake(Body(lengths, i - 1), i - 1, mtu)
           ss == [i \in DOMAIN lengths |-> f(i)]
           S == Sent(lengths, mtu)
           packets == RawPackets(lengths, mtu)
<1>1. DOMAIN lengths = 1 .. Len(lengths) /\ Len(lengths) \in Nat
  OBVIOUS
<1>2. ASSUME NEW i \in DOMAIN lengths PROVE f(i) \in Seq(S)
  <2>1. i - 1 \in Numbers(lengths)
    BY DEF Numbers
  <2>2. f(i) \in Seq(PiecesOf(lengths, i - 1))
    BY <2>1, FragmentsArePieces
  <2>3. \A j \in DOMAIN f(i) : f(i)[j] \in S
    BY <2>1 DEF Sent, CutsOf, ToSet
  <2> HIDE DEF f, S
  <2>4. f(i) \in [1 .. Len(f(i)) -> S] /\ Len(f(i)) \in Nat
    BY <2>2, <2>3
  <2> QED
    BY <2>4
<1>3. ss \in Seq(Seq(S))
  <2> HIDE DEF f, S
  <2>1. ss \in [1 .. Len(lengths) -> Seq(S)]
    BY <1>1, <1>2
  <2> QED
    BY <1>1, <2>1
<1>4. packets = FlattenSeq(ss)
  BY DEF RawPackets
<1>5. ASSUME NEW g \in S PROVE \E k \in DOMAIN packets : packets[k] = g
  <2>1. PICK seq \in Numbers(lengths) : g \in CutsOf(lengths, seq, mtu)
    BY <1>5 DEF Sent
  <2> DEFINE i == seq + 1
  <2>2. i \in DOMAIN lengths /\ i - 1 = seq
    BY <1>1, <2>1 DEF Numbers
  <2>3. \E j \in DOMAIN f(i) : g = f(i)[j]
    BY <2>1, <2>2 DEF CutsOf, ToSet
  <2>4. ss[i] = f(i) /\ i \in DOMAIN ss
    BY <2>2
  <2> HIDE DEF f, ss, i, S, packets
  <2>5. PICK j \in DOMAIN ss[i] : g = ss[i][j]
    BY <2>3, <2>4
  <2>6. \E m \in DOMAIN FlattenSeq(ss) : FlattenSeq(ss)[m] = ss[i][j]
    BY <1>3, <2>4, <2>5, FlattenHas
  <2> QED
    BY <1>4, <2>5, <2>6
<1>6. packets \in Seq(S)
  <2> HIDE DEF ss, S, packets
  <2> QED
    BY <1>3, <1>4, FlattenKeeps
<1> HIDE DEF ss, S, packets
<1>7. CompactRawPackets(packets, mtu) \in Seq(Seq(S))
  BY <1>6, DatagramsHoldPackets
<1>8. \A g \in S : In(CompactRawPackets(packets, mtu), g)
  BY <1>5, <1>6, PacketsAreSent
<1> QED
  BY <1>7, <1>8 DEF S, packets

\* The buffer waits for something, it has only what was sent when it was cut in one size,
\* and all of what was read.
HeldInv ==
    /\ Stopped(buffer)
    /\ \A mtu \in flight.mtus : flight.mtus = {mtu} => Only(buffer, Sent(flight.lengths, mtu))
    /\ \A mtu \in flight.mtus : \A i \in DOMAIN Datagrams(mtu) : <<mtu, i>> \in seen =>
         \A k \in DOMAIN Datagrams(mtu)[i] : Holds(buffer, Datagrams(mtu)[i][k])

\* It is so before anything was read.
LEMMA HeldStarts == Inv /\ FragmentInit => HeldInv
<1> SUFFICES ASSUME Inv, FragmentInit PROVE HeldInv
  OBVIOUS
<1>1. buffer = Empty /\ seen = {}
  BY DEF FragmentInit
<1>2. DOMAIN buffer.cache = {}
  BY <1>1 DEF Empty
<1>3. Stopped(buffer)
  <2>1. FragmentsOf(buffer.cache, buffer.current) = <<>>
    BY <1>2 DEF FragmentsOf
  <2> QED
    BY <2>1 DEF Stopped, Pop
<1>4. \A S : Only(buffer, S)
  BY <1>2 DEF Only
<1> QED
  BY <1>1, <1>3, <1>4 DEF HeldInv

\* It stays so, if there is room for what is read.
LEMMA HeldStays == Inv /\ HeldInv /\ NothingIsRefused /\ [FragmentNext]_fragmentVars => HeldInv'
<1> SUFFICES ASSUME Inv, HeldInv, NothingIsRefused, [FragmentNext]_fragmentVars PROVE HeldInv'
  OBVIOUS
<1>1. CASE UNCHANGED fragmentVars
  BY <1>1 DEF fragmentVars, HeldInv, Stopped, Pop, Only, Holds, Datagrams
<1>2. ASSUME NEW mtu \in flight.mtus, NEW i \in DOMAIN Datagrams(mtu), Read(mtu, i) PROVE HeldInv'
  <2> DEFINE F == flight.lengths
             D(m) == Datagrams(m)
             d == D(mtu)[i]
             r == Taken(buffer, d)
  <2>1. F \in Seq(Nat) /\ flight.mtus \subseteq Nat \ {0} /\ buffer \in Buffers(F)
    BY DEF Inv
  <2>2. ASSUME NEW m \in flight.mtus, NEW n \in DOMAIN D(m)
        PROVE  D(m)[n] \in Seq(Sent(F, m)) /\ D(m)[n] \in Seq(Records(F))
    <3>1. D(m) \in Seq(Seq(Sent(F, m)))
      BY <2>1, DatagramsCarry DEF Datagrams
    <3>2. Sent(F, m) \subseteq Records(F)
      BY <2>1, SentIs
    <3> DEFINE e == D(m)[n]
    <3>3. e \in Seq(Sent(F, m))
      <4> HIDE DEF D
      <4> QED
        BY <3>1
    <3> HIDE DEF e, F
    <3>4. e \in Seq(Records(F))
      BY <3>2, <3>3
    <3> QED
      BY <3>3, <3>4 DEF e
  <2>3. buffer' = r /\ flight' = flight /\ seen' = seen \cup {<<mtu, i>>}
    BY <1>2 DEF Read, Taken
  <2>4. \A m : Datagrams(m)' = D(m)
    BY <2>3 DEF Datagrams
  <2>5. d \in Seq(Sent(F, mtu)) /\ d \in Seq(Records(F))
    BY <2>2
  <2>6. HasRoom(buffer, d)
    BY DEF NothingIsRefused
  <2> HIDE DEF D, d, r
  <2>7. Stopped(r)
    BY <2>1, <2>5, TakenStops DEF HeldInv, r
  <2>8. ASSUME NEW m \in flight.mtus, flight.mtus = {m} PROVE Only(r, Sent(F, m))
    <3>1. m = mtu /\ Only(buffer, Sent(F, m))
      BY <2>8 DEF HeldInv
    <3> QED
      BY <2>1, <2>5, <3>1, DatagramHolds DEF r
  <2>9. ASSUME NEW m \in flight.mtus, NEW n \in DOMAIN D(m), <<m, n>> \in seen',
               NEW k \in DOMAIN D(m)[n]
        PROVE  Holds(r, D(m)[n][k])
    <3>1. CASE <<m, n>> \in seen
      <4>1. Holds(buffer, D(m)[n][k])
        BY <2>9, <3>1 DEF HeldInv, D
      <4>2. D(m)[n][k] \in Records(F)
        BY <2>2, <2>9
      <4> QED
        BY <2>1, <2>5, <4>1, <4>2, DatagramHolds DEF r
    <3>2. CASE <<m, n>> = <<mtu, i>>
      <4>1. D(m)[n] = d
        BY <3>2 DEF d
      <4>2. k \in DOMAIN d
        BY <2>9, <4>1
      <4>3. Holds(r, d[k])
        BY <2>1, <2>5, <2>6, <4>2, DatagramIsHeld DEF r
      <4> QED
        BY <4>1, <4>3
    <3> QED
      BY <2>3, <2>9, <3>1, <3>2
  <2>10. Stopped(buffer)'
    BY <2>3, <2>7 DEF Stopped, Pop
  <2>11. \A m \in flight'.mtus : flight'.mtus = {m} => Only(buffer, Sent(flight.lengths, m))'
    BY <2>3, <2>8 DEF Only
  <2>12. \A m \in flight'.mtus : \A n \in DOMAIN Datagrams(m)' : <<m, n>> \in seen' =>
           \A k \in DOMAIN Datagrams(m)[n]' : Holds(buffer, Datagrams(m)[n][k])'
    BY <2>3, <2>4, <2>9 DEF Holds
  <2> QED
    BY <2>10, <2>11, <2>12 DEF HeldInv
<1> QED
  BY <1>1, <1>2 DEF FragmentNext

\* When all of a message and of those before it has been read, it is out.
LEMMA HeldSuffices == Inv /\ HeldInv => NothingIsHeldBack
<1> SUFFICES ASSUME Inv, HeldInv, NEW mtu \in flight.mtus,
                    NEW seq \in 0 .. Len(flight.lengths) - 1,
                    flight.mtus = {mtu}, AllRead(mtu, seq), ~(buffer.current > seq)
             PROVE  FALSE
  BY DEF NothingIsHeldBack
<1> DEFINE F == flight.lengths
           c == buffer.current
           frags == FragmentsOf(buffer.cache, c)
           T == CutsOf(F, c, mtu)
<1>1. F \in Seq(Nat) /\ mtu \in Nat \ {0} /\ buffer \in Buffers(F)
  BY DEF Inv
<1>2. c \in Numbers(F) /\ c <= seq /\ c \in Nat
  BY <1>1 DEF Buffers, Numbers
<1>3. Only(buffer, Sent(F, mtu)) /\ Stopped(buffer)
  BY DEF HeldInv
<1>4. \A n \in Numbers(F) : \A g \in CutsOf(F, n, mtu) : g.seq = n
  BY <1>1, SentIs
<1>5. ASSUME NEW g \in T PROVE \E j \in DOMAIN frags : frags[j] = g
  <2>1. g \in Sent(F, mtu) /\ g.seq = c
    BY <1>2, <1>4 DEF Sent
  <2>2. In(Datagrams(mtu), g)
    BY <1>1, <2>1, DatagramsCarry DEF Datagrams
  <2>3. PICK i \in DOMAIN Datagrams(mtu) : \E k \in DOMAIN Datagrams(mtu)[i] : Datagrams(mtu)[i][k] = g
    BY <2>2 DEF In
  <2>4. PICK k \in DOMAIN Datagrams(mtu)[i] : Datagrams(mtu)[i][k] = g
    BY <2>3
  <2>5. g \in ToSet(Datagrams(mtu)[i]) /\ g.seq <= seq
    BY <1>2, <2>1, <2>4 DEF ToSet
  <2>6. <<mtu, i>> \in seen
    BY <2>5 DEF AllRead
  <2>7. Holds(buffer, g)
    BY <2>4, <2>6 DEF HeldInv
  <2> QED
    BY <1>2, <2>1, <2>7 DEF Holds
<1>6. frags \in Seq(T)
  <2>1. /\ DOMAIN buffer.cache \in SUBSET Numbers(F)
        /\ \A n \in DOMAIN buffer.cache : buffer.cache[n] \in Seq(PiecesOf(F, n))
    BY <1>1 DEF Buffers, Caches
  <2>2. CASE c \notin DOMAIN buffer.cache
    <3>1. frags = <<>>
      BY <2>2 DEF FragmentsOf
    <3> QED
      BY <3>1
  <2>3. CASE c \in DOMAIN buffer.cache
    <3>1. frags = buffer.cache[c] /\ frags \in Seq(PiecesOf(F, c))
      BY <2>1, <2>3 DEF FragmentsOf
    <3>2. ASSUME NEW j \in DOMAIN frags PROVE frags[j] \in T
      <4>1. frags[j] \in Sent(F, mtu)
        BY <1>3, <2>3, <3>1 DEF Only
      <4>2. frags[j].seq = c
        <5>1. frags[j] \in PiecesOf(F, c)
          <6> HIDE DEF frags
          <6> QED
            BY <3>1
        <5> QED
          BY <5>1 DEF PiecesOf
      <4>3. PICK n \in Numbers(F) : frags[j] \in CutsOf(F, n, mtu)
        BY <4>1 DEF Sent
      <4> QED
        BY <1>4, <4>2, <4>3
    <3> HIDE DEF frags, T
    <3>3. frags \in [1 .. Len(frags) -> T] /\ Len(frags) \in Nat
      BY <3>1, <3>2
    <3> QED
      BY <3>3
  <2> QED
    BY <2>2, <2>3
<1>7. frags # <<>> /\ AppendMessage(frags).ok
  <2> HIDE DEF frags, F, c
  <2> QED
    BY <1>1, <1>2, <1>5, <1>6, AppendMessageFinds
<1>8. Pop(buffer).current = c + 1
  BY <1>7 DEF Pop
<1> QED
  BY <1>2, <1>3, <1>8 DEF Stopped

\* As long as push has room for what may come, a message is there as soon as it and those
\* before it have been read, for every flight and every size it is cut for, in whatever
\* order, however often: compact_raw_packets sends all fragments, and the buffer loses none.
THEOREM Delivery ==
  ASSUME Lengths \subseteq Nat, Mtus \subseteq Nat \ {0}, MaxMessages \in Nat
  PROVE  FragmentSpec /\ []NothingIsRefused => []NothingIsHeldBack
<1>1. FragmentInit => Inv /\ HeldInv
  BY InvStarts, HeldStarts
<1>2. Inv /\ HeldInv /\ NothingIsRefused /\ [FragmentNext]_fragmentVars => Inv' /\ HeldInv'
  BY InvStays, HeldStays
<1>3. Inv /\ HeldInv => NothingIsHeldBack
  BY HeldSuffices
<1> QED
  BY <1>1, <1>2, <1>3, PTL DEF FragmentSpec

================================================================================
