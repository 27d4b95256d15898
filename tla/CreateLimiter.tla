---------------------------- MODULE CreateLimiter ----------------------------
(***************************************************************************)
(* The rate limit of POST /api/streams (create_stream, api.rs).  The check *)
(* and the update of last_create are one critical section.  Time is        *)
(* counted in ticks, SECOND of them to a second.                           *)
(***************************************************************************)
EXTENDS Integers, FiniteSets

CONSTANTS
    Rates,     \* values of limits.create_per_min; 0 is no limit
    SECOND,    \* ticks in a second
    Minute,    \* seconds in a minute: 60, or fewer in a small instance
    MaxTime    \* bound: ticks modelled

ASSUME LimiterConstants ==
    /\ Rates \subseteq Nat
    /\ {SECOND, Minute} \subseteq Nat \ {0} /\ MaxTime \in Nat

MINUTE == Minute * SECOND

VARIABLES
    rate,         \* limits.create_per_min
    now,
    last_create,
    passed,       \* times at which a request got through to create_dynamic
    refusal       \* the last refusal: when it was sent, and its "retry in"

vars == <<rate, now, last_create, passed, refusal>>

NoRefusal == [at |-> 0, retry |-> 0]

\* last_create starts with the server.
Init ==
    /\ rate \in Rates
    /\ now = 0
    /\ last_create = 0
    /\ passed = {}
    /\ refusal = NoRefusal

Tick ==
    /\ now < MaxTime
    /\ now' = now + 1
    /\ UNCHANGED <<rate, last_create, passed, refusal>>

\* Faulty variant: one request too many fits into a minute.
MinIntervalShort == MINUTE \div (rate + 1)

\* Duration::from_secs(60) / rate_limit.
MinInterval == MINUTE \div rate

\* Faulty variant: the remaining seconds are rounded down.
RetryInFloor(elapsed) == (MinInterval - elapsed) \div SECOND

\* The "retry in" of a refusal, in seconds.
RetryIn(elapsed) == (MinInterval - elapsed) \div SECOND + 1

Refuse ==
    /\ rate > 0 /\ now - last_create < MinInterval
    /\ refusal' = [at |-> now, retry |-> RetryIn(now - last_create)]
    /\ UNCHANGED <<rate, now, last_create, passed>>

\* last_create is set before the URL is looked at: a bad one is refused afterwards.
Admit(valid) ==
    /\ rate > 0 => now - last_create >= MinInterval
    /\ last_create' = IF rate > 0 THEN now ELSE last_create
    /\ passed' = IF valid THEN passed \cup {now} ELSE passed
    /\ UNCHANGED <<rate, now, refusal>>

Next == Tick \/ Refuse \/ \E valid \in BOOLEAN : Admit(valid)

Spec == Init /\ [][Next]_vars

-----------------------------------------------------------------------------
(* Properties *)

\* However requests are timed, no minute sees more than `rate' of them get through.
\* The interval is rounded down to a tick (a nanosecond in the code), which may make
\* the minute short by that much for every request but one.
RateHolds ==
    rate > 0 => \A t \in passed :
        Cardinality({u \in passed : t <= u /\ u <= t + MINUTE - rate}) <= rate

\* A client that waits the seconds it was told, while nobody else gets through,
\* is not refused again.
RetryHintSuffices ==
    /\ refusal # NoRefusal
    /\ last_create <= refusal.at
    /\ now >= refusal.at + refusal.retry * SECOND
    => now - last_create >= MinInterval

\* README_EN.md:274: create_per_min is "Max dynamic stream creates/min".  Requests are
\* refused although the last minute saw fewer creations: the limit spaces them, a bad
\* URL counts, and so does the start of the server.
RefusedOnlyAtLimit ==
    refusal # NoRefusal =>
        Cardinality({t \in passed : refusal.at - MINUTE < t /\ t <= refusal.at}) >= rate

=============================================================================
