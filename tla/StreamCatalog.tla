---------------------------- MODULE StreamCatalog ----------------------------
(***************************************************************************)
(* What the stream manager promises its clients, without locks, counters   *)
(* or timers: a catalog of open streams, at most one per RTSP URL, each    *)
(* with the set of viewers it serves, at most MaxPerStream of them.  A     *)
(* stream closes because nobody watches it, or because an operator deletes *)
(* it; nothing else takes a stream away from its viewers.                  *)
(***************************************************************************)
EXTENDS Integers, FiniteSets

CONSTANTS Url, Id, Viewer, MaxPerStream, None

VARIABLES
    open,      \* streams a viewer can join
    source,    \* the URL each stream was opened for, None before it is
    viewers,   \* who watches each open stream
    deleted    \* streams an operator has removed

vars == <<open, source, viewers, deleted>>

Init ==
    /\ open = {}
    /\ source = [s \in Id |-> None]
    /\ viewers = [s \in Id |-> {}]
    /\ deleted = {}

\* A first stream for a URL no open stream shows; ids are never used again.
Open(s, u) ==
    /\ source[s] = None
    /\ \A t \in open : source[t] # u
    /\ open' = open \cup {s}
    /\ source' = [source EXCEPT ![s] = u]
    /\ UNCHANGED <<viewers, deleted>>

Join(x, s) ==
    /\ s \in open
    /\ \A t \in open : x \notin viewers[t]
    /\ Cardinality(viewers[s]) < MaxPerStream
    /\ viewers' = [viewers EXCEPT ![s] = @ \cup {x}]
    /\ UNCHANGED <<open, source, deleted>>

Leave(x, s) ==
    /\ s \in open
    /\ x \in viewers[s]
    /\ viewers' = [viewers EXCEPT ![s] = @ \ {x}]
    /\ UNCHANGED <<open, source, deleted>>

\* Only a stream nobody watches stops by itself.
Expire(s) ==
    /\ s \in open
    /\ viewers[s] = {}
    /\ open' = open \ {s}
    /\ UNCHANGED <<source, viewers, deleted>>

Delete(s) ==
    /\ s \in open
    /\ open' = open \ {s}
    /\ viewers' = [viewers EXCEPT ![s] = {}]
    /\ deleted' = deleted \cup {s}
    /\ UNCHANGED source

Next ==
    \E s \in Id :
        \/ \E u \in Url : Open(s, u)
        \/ \E x \in Viewer : Join(x, s) \/ Leave(x, s)
        \/ Expire(s)
        \/ Delete(s)

Spec == Init /\ [][Next]_vars

=============================================================================
