---------------------------- MODULE DtlsHandshake ----------------------------
(***************************************************************************)
(* A DTLS handshake between two sides over a network that loses and        *)
(* reorders datagrams: on each side the handshake task, a state machine    *)
(* that prepares, sends and waits, and the reader task, which fills the    *)
(* cache and then waits until the handshake has looked at it.              *)
(*                                                                         *)
(* A loss is decided when a datagram is sent.  Of two equal datagrams that *)
(* are on their way at once only one is kept.                              *)
(***************************************************************************)
EXTENDS DtlsFlights

CONSTANT
    Pairs       \* [client, server, size]: two configurations that meet, and how
                \* many records fit into a datagram

ASSUME PairsAssumption ==
    \A p \in Pairs :
        /\ \A s \in Sides : ValidConfig(s, p[s])
        /\ p.size \in Nat \ {0}

\* None is Option::None: no list of a configuration holds it, and no table of the code.
ASSUME NoneIsFresh ==
    /\ None \notin SupportedCurves \cup SchemesOf("ecdsa") \cup SchemesOf("ed25519")
    /\ \A p \in Pairs, s \in Sides :
          \A list \in {p[s].suites, p[s].curves, p[s].srtp, p[s].schemes} :
             list \in Seq(ToSet(list) \ {None})

VARIABLES
    pair,       \* the pair of this behaviour
    conn,       \* what each side knows
    net         \* datagrams on their way

vars == <<pair, conn, net>>

Init ==
    /\ pair \in Pairs
    /\ conn = [s \in Sides |-> NewConn(s, pair[s])]
    /\ net = {}

-----------------------------------------------------------------------------
(* The handshake task *)

\* An alert may get lost like any other datagram.
Becomes(s, outcome) ==
    /\ conn' = [conn EXCEPT ![s] = outcome.conn]
    /\ net' \in IF outcome.alert THEN {net, net \cup {AlertDatagram(outcome.conn)}} ELSE {net}
    /\ UNCHANGED pair

\* generate, with the numbers of its messages; an encrypted message begins an epoch.
Prepare(s) ==
    LET outcome == Generate(conn[s])
        c == outcome.conn
        records == Numbered(c.packets, c.send_seq)
    IN  /\ conn[s].fsm = "preparing"
        /\ Becomes(s, IF c.fsm = "failed" THEN outcome
                      ELSE [outcome EXCEPT
                              !.conn.packets = records,
                              !.conn.send_seq = @ + Cardinality(Messages(records)),
                              !.conn.local_epoch = IF \E r \in ToSet(records) : r.epoch = 1
                                                   THEN 1 ELSE @])

\* The flight goes out, now or again; its messages are in the cache of their sender.
Send(s, lost) ==
    LET c == conn[s]
    IN  /\ c.fsm = "sending"
        /\ lost \subseteq Datagrams(c, pair.size)
        /\ net' = net \cup (Datagrams(c, pair.size) \ lost)
        /\ conn' = [conn EXCEPT ![s].cache = PushAll(@, Messages(c.packets)),
                                ![s].fsm = IF IsLastSendFlight(c) THEN "finished" ELSE "waiting",
                                ![s].rendezvous = @ /\ ~IsLastSendFlight(c)]
        /\ UNCHANGED pair

\* The reader has something new in the cache and waits for parse.
Rendezvous(s) ==
    LET c == [conn[s] EXCEPT !.rendezvous = FALSE]
    IN  /\ conn[s].fsm = "waiting" /\ conn[s].rendezvous
        /\ Becomes(s, Parse(c))

\* The timer, which runs from the beginning of the wait, whatever is read meanwhile.
Retransmit(s) ==
    /\ conn[s].fsm = "waiting" /\ HasRetransmit(conn[s])
    /\ conn' = [conn EXCEPT ![s].fsm = "sending"]
    /\ UNCHANGED <<pair, net>>

\* The reader has ended with an alert, and the channel from it is closed.
ReaderGone(s) ==
    /\ conn[s].fsm = "waiting" /\ conn[s].reader = "gone" /\ ~conn[s].rendezvous
    /\ conn' = [conn EXCEPT ![s].fsm = "failed"]
    /\ UNCHANGED <<pair, net>>

-----------------------------------------------------------------------------
(* The reader task *)

\* An alert is answered with the same alert, and the reader ends.  A completed
\* handshake takes no part any more.
Read(s, d) ==
    /\ d \in net /\ d.to = s
    /\ conn[s].reader = "up" /\ ~conn[s].rendezvous
    /\ \E read \in ReadAll(conn[s], d.records, TRUE) :
          /\ conn' = [conn EXCEPT ![s] =
                        [read.conn EXCEPT
                           !.reader = IF read.alert THEN "gone" ELSE @,
                           !.rendezvous = read.handshake /\ ~read.alert /\ ~Completed(read.conn)]]
          /\ \/ net' = net \ {d}
             \/ read.alert /\ net' = (net \ {d}) \cup {AlertDatagram(read.conn)}
    /\ UNCHANGED pair

\* A datagram that tells its reader something.
ReadNews(s) ==
    LET known(c) == <<c.fragments, c.cache, c.queue, c.remote_epoch, c.reader>>
    IN  \E d \in net : Read(s, d) /\ known(conn'[s]) # known(conn[s])

Next ==
    \E s \in Sides :
        \/ Prepare(s)
        \/ \E lost \in SUBSET Datagrams(conn[s], pair.size) : Send(s, lost)
        \/ Rendezvous(s)
        \/ Retransmit(s)
        \/ ReaderGone(s)
        \/ \E d \in net : Read(s, d)

Spec == Init /\ [][Next]_vars

(***************************************************************************)
(* Tasks run, timers fire, and what is on its way is read.  Of a side that *)
(* keeps sending, a flight gets through whole now and then; and copies of  *)
(* what is known do not overtake news for ever.                            *)
(*                                                                         *)
(* Only Prepare leaves "preparing", and a rendezvous that is pending when  *)
(* the wait begins is there before its timer.  This fairness of Prepare    *)
(* and Rendezvous is written as what it achieves, which spares TLC the     *)
(* flights when it looks for enabledness.                                  *)
(***************************************************************************)
FairSpec ==
    /\ Spec
    /\ \A s \in Sides :
          /\ []<>(conn[s].fsm # "preparing")
          /\ []<>~conn[s].rendezvous
          /\ WF_vars(Retransmit(s))
          /\ WF_vars(ReaderGone(s))
          /\ WF_vars(\E d \in net : Read(s, d))
          /\ SF_vars(Send(s, {}))
          /\ SF_vars(ReadNews(s))

-----------------------------------------------------------------------------
(* Properties *)

\* What Init puts into conn and what the flights make of it; a cached message has a
\* number that was given out or taken in order (HandshakeCache::push, FragmentBuffer::pop).
TypeOK ==
    /\ pair \in Pairs
    /\ \A s \in Sides :
          LET c == conn[s]
          IN  /\ c.role = s /\ c.config = pair[s]
              /\ c.flight \in IF s = "client" THEN {1, 3, 5} ELSE {0, 2, 4, 6}
              /\ c.fsm \in {"preparing", "sending", "waiting", "finished", "failed"}
              /\ c.reader \in {"up", "gone"} /\ c.rendezvous \in BOOLEAN
              /\ c.local_epoch \in 0 .. 1 /\ c.remote_epoch \in 0 .. 1
              /\ \A m \in c.cache : m.seq < (IF m.from = s THEN c.send_seq ELSE c.next)
              /\ \A m \in c.fragments : m.from = Peer(s) /\ m.seq > c.next
    /\ \A d \in net : d.to \in Sides /\ Len(d.records) \in 1 .. pair.size

Finished(s) == conn[s].fsm = "finished"
Failed(s) == conn[s].fsm = "failed"

\* Two sides that have keys have the same and agree on everything negotiated, and a
\* side that has finished can export keying material for SRTP, the same as its peer
\* (initialize_cipher_suite, Flight4::parse, export_keying_material).
OneSecret ==
    LET c == conn["client"]
        s == conn["server"]
    IN  /\ HasKeys(c) /\ HasKeys(s) =>
              /\ c.master = s.master
              /\ <<c.suite, c.srtp, c.ems, c.keypair>> = <<s.suite, s.srtp, s.ems, s.keypair>>
              /\ c.srtp = FirstCommon(c.config.srtp, ToSet(s.config.srtp))
        /\ \A x \in Sides : Finished(x) =>
              /\ ExportKeyingMaterial(conn[x]) # <<>>
              /\ ExportKeyingMaterial(conn[Peer(x)]) \in {<<>>, ExportKeyingMaterial(conn[x])}

\* The client ends its handshake only behind the server, and the server only with
\* the certificate it has asked for (Flight5::parse, Flight4::parse).
ClientFinishesLast ==
    /\ Finished("client") => Finished("server")
    /\ Finished("server") =>
          LET asked == pair.server.auth # NoClientCert
          IN  /\ HasKeys(conn["client"])
              /\ conn["server"].peer_cert = IF asked THEN pair.client.cert ELSE None

\* Nothing is taken for encrypted before both sides can: the epoch a side accepts is
\* one its peer has begun, with the keys this side has (handle_incoming_packet).
EpochIsBacked ==
    \A s \in Sides :
        conn[s].remote_epoch = 1 =>
            /\ HasKeys(conn[s])
            /\ conn[Peer(s)].local_epoch = 1
            /\ conn[Peer(s)].master = conn[s].master

-----------------------------------------------------------------------------
(* What the two configurations allow, without any order of messages *)

Common(a, b) == ToSet(a) \cap ToSet(b) # {}

\* The scheme a signer announces, the first of its list that its key can use, is the
\* one that key signs with, and the other side takes it.
SignerFits(signer, other) ==
    \E i \in DOMAIN signer.schemes :
        /\ \A j \in 1 .. i - 1 : signer.schemes[j] \notin SchemesOf(signer.cert.key)
        /\ signer.schemes[i] = Sign(signer.cert, None).scheme
        /\ signer.schemes[i] \in ToSet(other.schemes)

ClientCertFits(client, server) ==
    /\ server.auth \in {RequireAnyClientCert, RequireAndVerifyClientCert} => client.cert # None
    /\ client.cert # None /\ server.auth # NoClientCert =>
          /\ SignerFits(client, server)
          /\ server.auth >= VerifyClientCertIfGiven => client.cert.trusted

FitTogether(c, s) ==
    /\ Common(c.suites, s.suites)
    /\ ToSet(c.curves) \cap SupportedCurves # {}
    /\ c.srtp # <<>> => Common(c.srtp, s.srtp)
    /\ "require" \in {c.ems, s.ems} => "disable" \notin {c.ems, s.ems}
    /\ SignerFits(s, c)
    /\ c.verify => s.cert.trusted
    /\ ClientCertFits(c, s)

Fits == FitTogether(pair.client, pair.server)

\* Whatever is lost or reordered, only configurations decide: a side fails only where
\* they do not fit, and one that finishes has a peer that fits (parse and generate of
\* all flights).
OnlyConfigsDecide ==
    \A s \in Sides : (Failed(s) => ~Fits) /\ (Finished(s) => Fits)

\* Losses only delay: a server whose client fits finishes, and of two that do not fit
\* one notices (wait, handshaker.rs).
HandshakeSettles ==
    <>(IF Fits THEN Finished("server") ELSE \E s \in Sides : Failed(s))

\* handshaker.rs:54: "Read retransmit  Retransmit last flight".  The handshake returns
\* when its last flight is sent, and finish(), which would send it again, never runs.
LastFlightIsRepeated == Finished("server") ~> Finished("client")

=============================================================================
