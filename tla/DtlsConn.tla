------------------------------ MODULE DtlsConn ------------------------------
(***************************************************************************)
(* One side of a DTLS connection as its record layer sees it: what a       *)
(* datagram does to it, and into which datagrams a flight is packed.       *)
(*                                                                         *)
(* A record on the wire is [content, epoch, key, msg]: key is the secret   *)
(* it is encrypted with, or None; msg a handshake message, or NoMsg.  A    *)
(* message travels in one fragment (FragmentBuffer has the other case).    *)
(* Record numbers and the replay window are left out: a retransmission has *)
(* new numbers, and the network duplicates nothing here.                   *)
(***************************************************************************)
EXTENDS DtlsNegotiation, DtlsCache

Sides == {"client", "server"}
Peer(side) == IF side = "client" THEN "server" ELSE "client"

NewConn(side, config) ==
    [role |-> side, config |-> config,
     flight |-> IF side = "client" THEN 1 ELSE 0,
     fsm |-> "preparing",          \* or sending, waiting, finished, failed
     packets |-> <<>>,             \* the flight under way
     send_seq |-> 0, recv_seq |-> 0, local_epoch |-> 0, remote_epoch |-> 0,
     cookie |-> None, suite |-> None, srtp |-> None, ems |-> FALSE,
     curve |-> "X25519", keypair |-> None, requested |-> FALSE,
     peer_cert |-> None, verified |-> FALSE,
     pre_master |-> None, master |-> <<>>,
     cache |-> {},
     \* the reader task
     reader |-> "up", fragments |-> {}, next |-> 0, queue |-> <<>>,
     rendezvous |-> FALSE]         \* it waits for the handshake to look at the cache

HasKeys(c) == c.master # <<>>
Completed(c) == c.fsm = "finished"

-----------------------------------------------------------------------------
(* Records *)

NoMsg == [typ |-> "none"]

HandshakeRecord(c, typ, body) ==
    [content |-> "handshake", epoch |-> 0, key |-> None,
     msg |-> [typ |-> typ, from |-> c.role, epoch |-> 0, seq |-> 0, body |-> body]]

FinishedRecord(c, data) ==
    [content |-> "handshake", epoch |-> 1, key |-> c.master,
     msg |-> [typ |-> "Finished", from |-> c.role, epoch |-> 1, seq |-> 0,
              body |-> [verify_data |-> data]]]

ChangeCipherSpec == [content |-> "ccs", epoch |-> 0, key |-> None, msg |-> NoMsg]

\* Encrypted only once the handshake is over, whatever its epoch.
AlertRecord(c) ==
    [content |-> "alert", epoch |-> c.local_epoch,
     key |-> IF Completed(c) THEN c.master ELSE None, msg |-> NoMsg]

IsHandshake(r) == r.content = "handshake"

\* The handshake messages among the records are numbered from seq on.
Numbered(records, seq) ==
    [i \in DOMAIN records |->
        IF IsHandshake(records[i])
        THEN [records[i] EXCEPT !.msg.seq = seq + Cardinality({j \in 1 .. i - 1 : IsHandshake(records[j])})]
        ELSE records[i]]

\* What a hash over records is taken of: their messages, in order.
Transcript(records) == [i \in DOMAIN records |-> records[i].msg]

Messages(records) == {r.msg : r \in {x \in ToSet(records) : IsHandshake(x)}}

\* The datagrams of a flight: records in order, at most size of them in each.
Datagrams(c, size) ==
    {[to |-> Peer(c.role), flight |-> c.flight, part |-> i,
      records |-> SubSeq(c.packets, (i - 1) * size + 1,
                         IF i * size < Len(c.packets) THEN i * size ELSE Len(c.packets))] :
       i \in {k \in 1 .. Len(c.packets) : (k - 1) * size < Len(c.packets)}}

AlertDatagram(c) ==
    [to |-> Peer(c.role), flight |-> c.flight, part |-> 1, records |-> <<AlertRecord(c)>>]

-----------------------------------------------------------------------------
(* The reader *)

\* The first copy of a message waits for all messages before it.  Copies of messages
\* that came out already stay in the code's buffer, unread; they are left out here.
PushFragment(c, msg) ==
    IF msg.seq < c.next \/ (\E f \in c.fragments : f.seq = msg.seq) THEN c
    ELSE [c EXCEPT !.fragments = @ \cup {msg}]

\* Faulty variant: a message comes out when it is complete, whatever is missing before it.
PopAnyFragments(c) ==
    [c EXCEPT !.fragments = {}, !.next = @ + Cardinality(c.fragments),
              !.cache = PushAll(@, c.fragments)]

PopFragments(c) ==
    LET missing == Min({n \in c.next .. c.next + Cardinality(c.fragments) :
                          \A f \in c.fragments : f.seq # n})
        complete == {f \in c.fragments : f.seq < missing}
    IN  [c EXCEPT !.fragments = @ \ complete, !.next = missing, !.cache = PushAll(@, complete)]

\* Records wait for keys.  The queue of the code grows with every retransmission; here
\* a record is left out when its copy has already all that matters in front of it: a
\* ChangeCipherSpec anywhere, any other behind the first ChangeCipherSpec.
Enqueue(queue, r) ==
    LET first == SelectInSeq(queue, LAMBDA q : q.content = "ccs")
        behind == IF r.content = "ccs" THEN queue ELSE SubSeq(queue, first + 1, Len(queue))
    IN  IF r \in ToSet(behind) THEN queue ELSE Append(queue, r)

\* What reading has come to: the connection, whether there was a handshake record,
\* and whether there was an alert, which ends it.
ReadOf(c) == [conn |-> c, handshake |-> FALSE, alert |-> FALSE]

Deferred(c, r, enqueue) == IF enqueue THEN [c EXCEPT !.queue = Enqueue(@, r)] ELSE c

\* Faulty variant: a ChangeCipherSpec counts before there are keys.
AcceptCcsEarly(c, r, enqueue) == [c EXCEPT !.remote_epoch = 1]

AcceptCcs(c, r, enqueue) ==
    IF HasKeys(c) THEN [c EXCEPT !.remote_epoch = 1] ELSE Deferred(c, r, enqueue)

HandleIncomingPacket(read, r, enqueue) ==
    LET c == read.conn
    IN  IF read.alert THEN read
        ELSE IF r.epoch > c.remote_epoch \/ (r.epoch = 1 /\ ~HasKeys(c))
        THEN [read EXCEPT !.conn = Deferred(c, r, enqueue)]
        ELSE IF r.epoch = 1 /\ r.key # c.master THEN read       \* decryption fails
        ELSE CASE r.content = "handshake" ->
                    [read EXCEPT !.conn = PopFragments(PushFragment(c, r.msg)), !.handshake = TRUE]
               [] r.content = "ccs" -> [read EXCEPT !.conn = AcceptCcs(c, r, enqueue)]
               [] r.content = "alert" -> [read EXCEPT !.alert = TRUE]

\* What may come of reading records in order: a set with one element.
ReadAll(c, records, enqueue) ==
    FoldLeft(LAMBDA reads, r : {HandleIncomingPacket(read, r, enqueue) : read \in reads},
             {ReadOf(c)}, records)

\* The handshake has keys now: the queue is read once, and nothing is queued again.
HandleQueuedPackets(c) ==
    LET read == CHOOSE x \in ReadAll([c EXCEPT !.queue = <<>>], c.queue, FALSE) : TRUE
    IN  [read.conn EXCEPT !.reader = IF read.alert THEN "gone" ELSE @]

=============================================================================
