--------------------------- MODULE LiveFeed_proofs ---------------------------
(***************************************************************************)
(* For any output, channel and set of viewers, at most one chunk overlaps  *)
(* a viewer's cache (OverlapIsOneChunk).                                   *)
(*                                                                         *)
(* Why it holds: no cache reaches beyond what the relay has read, and a    *)
(* chunk starts where the relay had read to before.  So the chunks read    *)
(* after a viewer's clone start behind its cache.  A subscriber's first    *)
(* chunk may be the one that was on its way to the channel at the clone,   *)
(* and every later one was read after it.                                  *)
(***************************************************************************)
EXTENDS LiveFeed, TLAPS

\* The types the proof needs.
Types ==
    /\ read \in Nat
    /\ relaying \in {<<>>} \cup {<<c>> : c \in Chunk}
    /\ cached \in Nat /\ cached <= read
    /\ channel \in Seq(Chunk)
    /\ pc \in [Viewer -> {"out", "cloned", "watching"}]
    /\ init \in [Viewer -> Nat]
    /\ next \in [Viewer -> Nat]
    /\ received \in [Viewer -> Seq(Chunk)]

\* Whether v will have received a chunk when it comes to number j of the channel.
Later(v, j) == j > next[v] \/ (received[v] # <<>> /\ j = next[v])

\* What lies before a viewer: nothing but perhaps its first chunk starts in its cache.
ViewerInv(v) ==
    /\ init[v] <= read
    /\ pc[v] # "watching" => received[v] = <<>>
    /\ pc[v] = "watching" =>
         /\ \A j \in DOMAIN channel : Later(v, j) => channel[j].from >= init[v]
         /\ relaying # <<>> /\ Later(v, Len(channel) + 1) => relaying[1].from >= init[v]
         /\ next[v] \in 1 .. Len(channel) + 1
    /\ \A i \in DOMAIN received[v] : i > 1 => received[v][i].from >= init[v]

\* The inductive invariant.
IInv == Types /\ \A v \in Viewer : ViewerInv(v)

\* It holds when nothing has been read.
LEMMA Start == Init => IInv
  BY FeedConstants DEF Init, IInv, Types, ViewerInv

\* Every step of the relay and of the viewers preserves it.
LEMMA Induction == IInv /\ [Next]_vars => IInv'
<1> SUFFICES ASSUME IInv, [Next]_vars PROVE IInv'
  OBVIOUS
<1> USE FeedConstants
<1>1. ASSUME NEW n \in 1 .. MaxRead, ExtendCache(n) PROVE IInv'
  <2>1. read' = read + n /\ read' \in 0 .. OutputLen /\ read \in 0 .. OutputLen
    BY <1>1 DEF ExtendCache, IInv, Types
  <2>2. Types'
    <3>1. [from |-> read, to |-> read'] \in Chunk
      BY <2>1 DEF Chunk
    <3>2. cached' \in Nat /\ cached' <= read'
      BY <1>1, <2>1 DEF ExtendCache, IInv, Types, AtMost
    <3>3. relaying' \in {<<>>} \cup {<<c>> : c \in Chunk}
      BY <1>1, <3>1 DEF ExtendCache
    <3> QED
      BY <1>1, <2>1, <3>2, <3>3 DEF ExtendCache, IInv, Types, viewers
  <2>3. ASSUME NEW v \in Viewer PROVE ViewerInv(v)'
    BY <1>1, <2>1, <2>3 DEF ExtendCache, IInv, Types, ViewerInv, Later, viewers
  <2> QED
    BY <2>2, <2>3 DEF IInv
<1>2. CASE SendChunk
  <2>1. PICK c \in Chunk : relaying = <<c>>
    BY <1>2 DEF SendChunk, IInv, Types
  <2>2. /\ channel' = Append(channel, c)
        /\ relaying' = <<>> /\ UNCHANGED <<read, cached, viewers>>
        /\ channel \in Seq(Chunk)
    BY <1>2, <2>1 DEF SendChunk, IInv, Types
  <2>3. /\ Len(channel') = Len(channel) + 1
        /\ DOMAIN channel' = DOMAIN channel \cup {Len(channel) + 1}
        /\ \A j \in DOMAIN channel : channel'[j] = channel[j]
        /\ channel'[Len(channel) + 1] = c
    BY <2>2
  <2>4. Types'
    BY <2>2 DEF IInv, Types, viewers
  <2>5. ASSUME NEW v \in Viewer PROVE ViewerInv(v)'
    BY <2>1, <2>2, <2>3, <2>5 DEF IInv, Types, ViewerInv, Later, viewers
  <2> QED
    BY <2>4, <2>5 DEF IInv
<1>3. ASSUME NEW u \in Viewer, CloneCache(u) PROVE IInv'
  BY <1>3 DEF CloneCache, IInv, Types, ViewerInv, Later, relay
<1>4. ASSUME NEW u \in Viewer, Subscribe(u) PROVE IInv'
  BY <1>4 DEF Subscribe, IInv, Types, ViewerInv, Later, relay
<1>5. ASSUME NEW u \in Viewer, Forward(u) PROVE IInv'
  <2> DEFINE c == channel[next[u]]
  <2>1. /\ Types /\ ViewerInv(u) /\ pc[u] = "watching"
        /\ next[u] \in DOMAIN channel /\ c \in Chunk
    BY <1>5 DEF Forward, IInv, Types, ViewerInv
  <2> HIDE DEF c
  <2>2. /\ received' = [received EXCEPT ![u] = Append(received[u], c)]
        /\ next' = [next EXCEPT ![u] = next[u] + 1]
        /\ UNCHANGED <<read, relaying, cached, channel, pc, init>>
    BY <1>5 DEF Forward, relay, c
  <2>3. Append(received[u], c) \in Seq(Chunk)
    BY <2>1 DEF Types
  <2>4. Types'
    BY <2>1, <2>2, <2>3 DEF Types
  <2>5. received[u] # <<>> => c.from >= init[u]
    BY <2>1 DEF ViewerInv, Later, c
  <2>6. \A i \in DOMAIN received'[u] : i > 1 => received'[u][i].from >= init[u]
    <3>1. received'[u] = Append(received[u], c) /\ received[u] \in Seq(Chunk)
      BY <2>1, <2>2 DEF Types
    <3>2. /\ \A i \in DOMAIN Append(received[u], c) :
               \/ i \in DOMAIN received[u] /\ Append(received[u], c)[i] = received[u][i]
               \/ i = Len(received[u]) + 1 /\ Append(received[u], c)[i] = c
          /\ Len(received[u]) + 1 > 1 => received[u] # <<>>
      BY <3>1
    <3> QED
      BY <2>1, <2>5, <3>1, <3>2 DEF ViewerInv
  <2>7. \A j \in DOMAIN channel : j >= next'[u] => channel[j].from >= init[u]
    BY <2>1, <2>2 DEF Types, ViewerInv, Later
  <2>8. /\ relaying # <<>> => relaying[1].from >= init[u]
        /\ next'[u] \in 1 .. Len(channel) + 1
    BY <2>1, <2>2 DEF Types, ViewerInv, Later
  <2>9. ViewerInv(u)'
    BY <2>1, <2>2, <2>6, <2>7, <2>8 DEF Types, ViewerInv, Later
  <2>10. ASSUME NEW v \in Viewer, v # u PROVE ViewerInv(v)'
    <3>1. /\ received'[v] = received[v] /\ next'[v] = next[v]
      BY <2>1, <2>2, <2>10 DEF Types
    <3> QED
      BY <2>2, <2>10, <3>1 DEF IInv, ViewerInv, Later
  <2> QED
    BY <2>4, <2>9, <2>10 DEF IInv
<1>6. ASSUME NEW u \in Viewer, Lagged(u) PROVE IInv'
  BY <1>6 DEF Lagged, IInv, Types, ViewerInv, Later, relay
<1>7. CASE UNCHANGED vars
  BY <1>7 DEF vars, relay, viewers, IInv, Types, ViewerInv, Later
<1> QED
  BY <1>1, <1>2, <1>3, <1>4, <1>5, <1>6, <1>7 DEF Next

\* For every set of viewers, every output and every channel, a viewer receives at most
\* one chunk that overlaps the cache it cloned (LiveManager::subscribe, live.rs).
THEOREM Overlap == Spec => []OverlapIsOneChunk
<1>1. IInv => OverlapIsOneChunk
  BY DEF IInv, ViewerInv, OverlapIsOneChunk
<1> QED
  BY <1>1, Start, Induction, PTL DEF Spec

=============================================================================
