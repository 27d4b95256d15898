---------------------------- MODULE FragmentBuffer ----------------------------
(***************************************************************************)
(* Handshake messages on their way through datagrams: the sender cuts      *)
(* them into fragments and packs the fragments' records into datagrams     *)
(* (conn/mod.rs); the receiver's buffer puts them together again           *)
(* (fragment_buffer/mod.rs), whatever the order they come in and however   *)
(* often a flight is repeated, by a peer that may cut it anew.             *)
(*                                                                         *)
(* A record holds one fragment, as this implementation writes it.  Copies  *)
(* of a record are dropped before the buffer, so what is read twice here   *)
(* is a retransmission.                                                    *)
(***************************************************************************)
EXTENDS Integers, Sequences, SequencesExt, FiniteSetsExt

CONSTANTS
    Lengths,        \* lengths a message may have
    MaxMessages,    \* bound on the messages of a flight
    Mtus,           \* sizes a sender cuts and packs for
    HeaderLength,   \* of a record's and a fragment's header together
    MaxSize,        \* FRAGMENT_BUFFER_MAX_SIZE
    MaxReads        \* bound on the datagrams read

VARIABLES
    flight,         \* [lengths, mtus]: the messages, and the sizes they were sent with
    buffer,         \* [cache, current, popped]: fragments by message, next message, messages out
    seen,           \* the datagrams that were read
    reads           \* how many, with those that were read again

fragmentVars == <<flight, buffer, seen, reads>>

-----------------------------------------------------------------------------
(* The sender *)

\* The bytes of a message, numbered from 0 like the code's message_sequence.
Body(lengths, seq) == [n \in 1 .. lengths[seq + 1] |-> <<seq, n>>]

SplitBytes(bytes, n) ==
    [i \in 1 .. (Len(bytes) + n - 1) \div n |->
        SubSeq(bytes, (i - 1) * n + 1, IF i * n < Len(bytes) THEN i * n ELSE Len(bytes))]

\* An empty message has one empty fragment.
FragmentHandshake(body, seq, mtu) ==
    LET splits == IF body = <<>> THEN <<<<>>>> ELSE SplitBytes(body, mtu)
    IN  [i \in DOMAIN splits |->
            [seq |-> seq, length |-> Len(body), offset |-> (i - 1) * mtu, data |-> splits[i]]]

RawPackets(lengths, mtu) ==
    FlattenSeq([i \in DOMAIN lengths |-> FragmentHandshake(Body(lengths, i - 1), i - 1, mtu)])

PacketLength(p) == HeaderLength + Len(p.data)
DatagramLength(d) == FoldLeft(LAMBDA sum, p : sum + PacketLength(p), 0, d)

\* A full datagram is closed, and a record begins the next one.
Pack(mtu, datagrams, p) ==
    LET open == Last(datagrams)
    IN  IF open # <<>> /\ DatagramLength(open) + PacketLength(p) >= mtu
        THEN Append(datagrams, <<p>>)
        ELSE Append(Front(datagrams), Append(open, p))

\* Faulty variant: the datagram that is still open at the end is not sent.
CompactClosed(packets, mtu) ==
    LET datagrams == FoldLeft(LAMBDA ds, p : Pack(mtu, ds, p), <<<<>>>>, packets)
    IN  IF Len(datagrams) = 1 THEN datagrams ELSE Front(datagrams)

CompactRawPackets(packets, mtu) ==
    FoldLeft(LAMBDA datagrams, p : Pack(mtu, datagrams, p), <<<<>>>>, packets)

Datagrams(mtu) == CompactRawPackets(RawPackets(flight.lengths, mtu), mtu)

-----------------------------------------------------------------------------
(* The receiver *)

\* The cache has the fragments of each message it has heard of, in the order they came.
Empty == [cache |-> [seq \in {} |-> <<>>], current |-> 0, popped |-> <<>>]

FragmentsOf(cache, seq) == IF seq \in DOMAIN cache THEN cache[seq] ELSE <<>>

Size(cache) ==
    LET size(frags) == FoldLeft(LAMBDA sum, f : sum + Len(f.data), 0, frags)
    IN  MapThenSumSet(LAMBDA seq : size(cache[seq]), DOMAIN cache)

Refuses(b, p) == Size(b.cache) + PacketLength(p) >= MaxSize

\* Nothing is compared with what is there, or with what was popped before.
PushFragment(b, p) ==
    IF Refuses(b, p) THEN b
    ELSE [b EXCEPT !.cache =
            [seq \in DOMAIN @ \cup {p.seq} |->
                IF seq = p.seq THEN Append(FragmentsOf(@, seq), p) ELSE @[seq]]]

\* Faulty variant: fragments are put together in the order they came.
CollectAsCame(frags) ==
    LET data == FlattenSeq([i \in DOMAIN frags |-> frags[i].data])
    IN  IF Len(data) >= frags[1].length THEN [ok |-> TRUE, data |-> SubSeq(data, 1, frags[1].length)]
        ELSE [ok |-> FALSE, data |-> <<>>]

\* append_message: the first fragment at an offset leads to the next offset; where none
\* begins, the message is not complete, even if another fragment led elsewhere.
AppendMessage(frags) ==
    LET collect[target \in Nat] ==
            LET i == SelectInSeq(frags, LAMBDA p : p.offset = target)
                f == frags[i]
                end == target + Len(f.data)
            IN  IF i = 0 THEN [ok |-> FALSE, data |-> <<>>]
                ELSE IF end = f.length \/ f.data = <<>> THEN [ok |-> TRUE, data |-> f.data]
                ELSE [ok |-> collect[end].ok, data |-> f.data \o collect[end].data]
    IN  collect[0]

\* A message that is not complete holds back those behind it.
Pop(b) ==
    LET frags == FragmentsOf(b.cache, b.current)
    IN  IF frags = <<>> \/ ~AppendMessage(frags).ok THEN b
        ELSE [cache   |-> Restrict(b.cache, DOMAIN b.cache \ {b.current}),
              current |-> b.current + 1,
              popped  |-> Append(b.popped, AppendMessage(frags).data)]

\* One record: push, then pop what has become complete.
TakeRecord(b, p) ==
    FoldLeft(LAMBDA x, l : Pop(x), PushFragment(b, p), flight.lengths)

-----------------------------------------------------------------------------
FragmentInit ==
    /\ flight \in [lengths : BoundedSeq(Lengths, MaxMessages) \ {<<>>},
                   mtus    : {m \in SUBSET Mtus : m # {}}]
    /\ buffer = Empty
    /\ seen = {}
    /\ reads = 0

\* Any datagram of the flight, sent for the first time or again.
Read(mtu, i) ==
    /\ reads < MaxReads
    /\ buffer' = FoldLeft(TakeRecord, buffer, Datagrams(mtu)[i])
    /\ seen' = seen \cup {<<mtu, i>>}
    /\ reads' = reads + 1
    /\ UNCHANGED flight

FragmentNext == \E mtu \in flight.mtus : \E i \in DOMAIN Datagrams(mtu) : Read(mtu, i)

FragmentSpec == FragmentInit /\ [][FragmentNext]_fragmentVars

-----------------------------------------------------------------------------
(* Properties *)

\* Messages come out whole, in order and once, however their datagrams were lost,
\* reordered, repeated or cut anew (FragmentBuffer::pop).
MessagesAreWhole ==
    buffer.popped = [i \in 1 .. buffer.current |-> Body(flight.lengths, i - 1)]

\* All datagrams of one size with something of the messages up to seq have been read.
AllRead(mtu, seq) ==
    \A i \in DOMAIN Datagrams(mtu) :
        (\E p \in ToSet(Datagrams(mtu)[i]) : p.seq <= seq) => <<mtu, i>> \in seen

\* Each record of a datagram fits the buffer when its turn comes.
HasRoom(b, d) ==
    \A k \in DOMAIN d : ~Refuses(FoldLeft(TakeRecord, b, SubSeq(d, 1, k - 1)), d[k])

\* Whatever datagram is read next, push has room for all its records.
NothingIsRefused ==
    \A mtu \in flight.mtus : \A i \in DOMAIN Datagrams(mtu) : HasRoom(buffer, Datagrams(mtu)[i])

\* Of a peer that cuts in one size, a message is there as soon as the datagrams with
\* it and all messages before it have been read (FragmentBuffer::push,
\* compact_raw_packets).
NothingIsHeldBack ==
    \A mtu \in flight.mtus : \A seq \in 0 .. Len(flight.lengths) - 1 :
        flight.mtus = {mtu} /\ AllRead(mtu, seq) => buffer.current > seq

\* The same of a peer that cuts its retransmissions anew.
NothingIsEverHeldBack ==
    \A mtu \in flight.mtus : \A seq \in 0 .. Len(flight.lengths) - 1 :
        AllRead(mtu, seq) => buffer.current > seq

=============================================================================
