------------------------------ MODULE LiveFeed ------------------------------
(***************************************************************************)
(* What the viewers of one live stream receive (live.rs).  The relay task  *)
(* reads FFmpeg's pipe; for every chunk it first extends the init cache    *)
(* under the cache's mutex and then sends the chunk to the broadcast       *)
(* channel.  A viewer first clones the cache and then subscribes to the    *)
(* channel.  Nothing makes either pair atomic.                             *)
(*                                                                         *)
(* FFmpeg's output is the positions 1 .. OutputLen; a chunk and the cache  *)
(* are intervals of it.  FlvHeader shows that the cache ends at HeaderEnd. *)
(***************************************************************************)
EXTENDS Integers, Sequences, FiniteSets

CONSTANTS
    Viewer,
    OutputLen,      \* bound: FFmpeg writes this much
    HeaderEnd,      \* where the video sequence header ends
    TagEnds,        \* where tags end
    MaxRead,        \* the relay's buffer
    BROADCAST_CAP   \* chunks the channel keeps

ASSUME FeedConstants ==
    /\ {OutputLen, HeaderEnd, MaxRead, BROADCAST_CAP} \subseteq Nat \ {0}
    /\ HeaderEnd \in TagEnds /\ TagEnds \subseteq 1 .. OutputLen

VARIABLES
    read,      \* what the relay has read
    relaying,  \* the relay is between the cache and the channel
    cached,    \* init_cache is the output up to here
    channel,   \* every chunk sent so far
    pc,        \* where each viewer is
    init,      \* the cache each viewer cloned
    next,      \* the next chunk in each viewer's receiver
    received   \* chunks each viewer forwarded to its socket

relay == <<read, relaying, cached, channel>>
viewers == <<pc, init, next, received>>
vars == <<relay, viewers>>

Chunk == [from : 0 .. OutputLen, to : 0 .. OutputLen]

Init ==
    /\ read = 0
    /\ relaying = <<>>
    /\ cached = 0
    /\ channel = <<>>
    /\ pc = [v \in Viewer |-> "out"]
    /\ init = [v \in Viewer |-> 0]
    /\ next = [v \in Viewer |-> 0]
    /\ received = [v \in Viewer |-> <<>>]

AtMost(m, n) == IF m <= n THEN m ELSE n

\* One read; until the header is complete it extends the cache, and truncates it in
\* the same critical section.
ExtendCache(n) ==
    /\ relaying = <<>>
    /\ read + n <= OutputLen
    /\ read' = read + n
    /\ cached' = IF cached = HeaderEnd THEN cached ELSE AtMost(read', HeaderEnd)
    /\ relaying' = <<[from |-> read, to |-> read']>>
    /\ UNCHANGED <<channel, viewers>>

\* tx_relay.send.
SendChunk ==
    /\ relaying # <<>>
    /\ channel' = channel \o relaying
    /\ relaying' = <<>>
    /\ UNCHANGED <<read, cached, viewers>>

CloneCache(v) ==
    /\ pc[v] = "out"
    /\ init' = [init EXCEPT ![v] = cached]
    /\ pc' = [pc EXCEPT ![v] = "cloned"]
    /\ UNCHANGED <<relay, next, received>>

\* Faulty variant: the receiver starts with the chunks the channel still holds.
SubscribeFromOldest(v) ==
    /\ pc[v] = "cloned"
    /\ next' = [next EXCEPT ![v] = 1]
    /\ pc' = [pc EXCEPT ![v] = "watching"]
    /\ UNCHANGED <<relay, init, received>>

\* tx.subscribe: the receiver starts with the next chunk to be sent.
Subscribe(v) ==
    /\ pc[v] = "cloned"
    /\ next' = [next EXCEPT ![v] = Len(channel) + 1]
    /\ pc' = [pc EXCEPT ![v] = "watching"]
    /\ UNCHANGED <<relay, init, received>>

\* rx.recv returns a chunk, which run sends on.
Forward(v) ==
    /\ pc[v] = "watching"
    /\ next[v] <= Len(channel)
    /\ Len(channel) - next[v] < BROADCAST_CAP
    /\ received' = [received EXCEPT ![v] = Append(@, channel[next[v]])]
    /\ next' = [next EXCEPT ![v] = @ + 1]
    /\ UNCHANGED <<relay, pc, init>>

\* rx.recv returns Lagged: the receiver skips to the oldest chunk still kept.
Lagged(v) ==
    /\ pc[v] = "watching"
    /\ Len(channel) - next[v] >= BROADCAST_CAP
    /\ next' = [next EXCEPT ![v] = Len(channel) - BROADCAST_CAP + 1]
    /\ UNCHANGED <<relay, pc, init, received>>

Next ==
    \/ \E n \in 1 .. MaxRead : ExtendCache(n)
    \/ SendChunk
    \/ \E v \in Viewer : CloneCache(v) \/ Subscribe(v) \/ Forward(v) \/ Lagged(v)

Spec == Init /\ [][Next]_vars

-----------------------------------------------------------------------------
(* Properties *)

\* The type invariant of the relay and the viewers.
TypeOK ==
    /\ read \in 0 .. OutputLen
    /\ relaying \in {<<>>} \cup {<<c>> : c \in Chunk}
    /\ cached \in 0 .. HeaderEnd
    /\ \A i \in DOMAIN channel : channel[i] \in Chunk
    /\ pc \in [Viewer -> {"out", "cloned", "watching"}]
    /\ init \in [Viewer -> 0 .. HeaderEnd]
    /\ next \in [Viewer -> 0 .. OutputLen + 1]
    /\ \A v \in Viewer : \A i \in DOMAIN received[v] : received[v][i] \in Chunk

\* A viewer that comes while a chunk is between the cache and the channel may get
\* that chunk from both, but never more than this one: whatever it receives next
\* continues behind its cache.
OverlapIsOneChunk ==
    \A v \in Viewer : \A i \in DOMAIN received[v] :
        i > 1 => received[v][i].from >= init[v]

\* live.rs:21: the init data is "Replayed to late subscribers so flv.js can initialise
\* its decoder": what a viewer receives continues its cache, with no header byte
\* twice and none missing.  A chunk extended into the cache before the clone and sent
\* after the subscription comes twice; one sent between the two is missing.
HeaderExactlyOnce ==
    \A v \in Viewer : received[v] # <<>> =>
        IF init[v] = HeaderEnd THEN received[v][1].from >= HeaderEnd
        ELSE received[v][1].from = init[v]

\* live.rs:22: with the init data flv.js can initialise its decoder.  It demuxes tags,
\* so what follows the header must begin with one.
FirstChunkStartsTag ==
    \A v \in Viewer :
        received[v] # <<>> /\ init[v] = HeaderEnd /\ received[v][1].from >= HeaderEnd =>
            received[v][1].from \in TagEnds

=============================================================================
