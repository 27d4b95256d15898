----------------------------- MODULE DtlsFlights -----------------------------
(***************************************************************************)
(* The flights of a DTLS 1.2 handshake: what each one waits for (parse)    *)
(* and what it sends (generate).                                           *)
(*                                                                         *)
(*   client 1: ClientHello            server 0: waits for a client         *)
(*                                    server 2: HelloVerifyRequest         *)
(*   client 3: ClientHello, cookie    server 4: ServerHello ...            *)
(*   client 5: ... Finished           server 6: ... Finished               *)
(*                                                                         *)
(* Both return what has become of the connection and whether an alert goes *)
(* to the peer.  Randoms and key pairs are drawn once, so they are named   *)
(* by their owner: what a secret depends on is all there is of it.         *)
(***************************************************************************)
EXTENDS DtlsConn

Keep(c) == [conn |-> c, alert |-> FALSE]
Goto(c, flight) == [conn |-> [c EXCEPT !.flight = flight, !.fsm = "preparing"], alert |-> FALSE]
Finish(c) == [conn |-> [c EXCEPT !.fsm = "finished"], alert |-> FALSE]
Sending(c, packets) == [conn |-> [c EXCEPT !.fsm = "sending", !.packets = packets], alert |-> FALSE]

\* A fatal alert, and new() fails: the connection is dropped with its reader.
Fail(c) == [conn |-> [c EXCEPT !.fsm = "failed", !.reader = "gone"], alert |-> TRUE]

\* An alert without an error: the peer is told, and this side waits on.
Complain(c) == [conn |-> c, alert |-> TRUE]

\* The secret both sides derive from the key exchange, bound to the session where the
\* extended master secret was agreed.
MasterSecret(c, pre_master, session_hash) ==
    <<c.suite, pre_master, IF c.ems THEN session_hash ELSE <<>> >>

-----------------------------------------------------------------------------
(* Hellos *)

ClientHello(c) ==
    HandshakeRecord(c, "ClientHello",
        [cookie |-> c.cookie, suites |-> c.config.suites, curves |-> c.config.curves,
         srtp |-> c.config.srtp, ems |-> c.config.ems # "disable"])

Flight1Generate(c) == Sending([c EXCEPT !.cookie = None], <<ClientHello([c EXCEPT !.cookie = None])>>)
Flight3Generate(c) == Sending(c, <<ClientHello(c)>>)

Flight0Generate(c) ==
    Sending([c EXCEPT !.cookie = "cookie", !.local_epoch = 0, !.remote_epoch = 0,
                      !.curve = "X25519"], <<>>)

\* What a ClientHello gets a server to agree to.
Flight0Parse(c) ==
    LET pull  == FullPull(c.cache, 0, <<Need("ClientHello", "client")>>)
        hello == pull.msgs["ClientHello"]
        suite == FirstCommon(hello.suites, ToSet(c.config.suites))
        curve == ChooseCurve(hello.curves)
        srtp  == FirstCommon(hello.srtp, ToSet(c.config.srtp))
        ems   == c.ems \/ (hello.ems /\ c.config.ems # "disable")
    IN  IF ~pull.ok THEN Keep(c)
        ELSE IF \/ suite = None \/ curve = None \/ curve \notin SupportedCurves
                \/ hello.srtp # <<>> /\ srtp = None
                \/ c.config.ems = "require" /\ ~ems
             THEN Fail(c)
             ELSE Goto([c EXCEPT !.recv_seq = pull.seq, !.suite = suite, !.curve = curve,
                                 !.srtp = srtp, !.ems = ems,
                                 !.keypair = IF @ = None THEN curve ELSE @], 2)

Flight2Generate(c) ==
    Sending([c EXCEPT !.send_seq = 0],
            <<HandshakeRecord(c, "HelloVerifyRequest", [cookie |-> c.cookie])>>)

\* Faulty variant: a client that repeats its first ClientHello is not heard.
Flight2ParseDeaf(c) ==
    LET pull  == FullPull(c.cache, c.recv_seq, <<Need("ClientHello", "client")>>)
        hello == pull.msgs["ClientHello"]
    IN  IF ~pull.ok THEN Keep(c)
        ELSE IF hello.cookie = None THEN Keep([c EXCEPT !.recv_seq = pull.seq])
        ELSE IF hello.cookie # c.cookie THEN Fail(c)
        ELSE Goto([c EXCEPT !.recv_seq = pull.seq], 4)

\* The second ClientHello; without it, the first one again.
Flight2Parse(c) ==
    LET pull  == FullPull(c.cache, c.recv_seq, <<Need("ClientHello", "client")>>)
        hello == pull.msgs["ClientHello"]
    IN  IF ~pull.ok THEN Flight0Parse(c)
        ELSE IF hello.cookie = None THEN Keep([c EXCEPT !.recv_seq = pull.seq])
        ELSE IF hello.cookie # c.cookie THEN Fail(c)
        ELSE Goto([c EXCEPT !.recv_seq = pull.seq], 4)

-----------------------------------------------------------------------------
(* The server's choice, and the client's view of it *)

ServerHello(c) ==
    HandshakeRecord(c, "ServerHello",
        [suite |-> c.suite, srtp |-> c.srtp, ems |-> c.config.ems # "disable" /\ c.ems])

\* The scheme is chosen by preference; what the key signs with does not depend on it.
ServerKeyExchange(c) ==
    LET cert == c.config.cert
    IN  HandshakeRecord(c, "ServerKeyExchange",
            [curve |-> c.curve, scheme |-> SelectScheme(c.config.schemes, cert),
             signature |-> Sign(cert, c.curve)])

Flight4Generate(c) ==
    IF SelectScheme(c.config.schemes, c.config.cert) = None THEN Fail(c)
    ELSE Sending(c,
            <<ServerHello(c), HandshakeRecord(c, "Certificate", [cert |-> c.config.cert]),
              ServerKeyExchange(c)>>
              \o (IF c.config.auth = NoClientCert THEN <<>>
                  ELSE <<HandshakeRecord(c, "CertificateRequest", NoMsg)>>)
              \o <<HandshakeRecord(c, "ServerHelloDone", NoMsg)>>)

\* A pre-master secret comes of a known curve only, and needs two keys of one curve.
PreMaster(curve, public_key) ==
    IF curve \in SupportedCurves /\ public_key = curve THEN curve ELSE None

ServerHelloFits(c, hello) ==
    /\ hello.srtp # None => hello.srtp \in ToSet(c.config.srtp)
    /\ c.config.ems = "require" => hello.ems
    /\ c.config.srtp # <<>> => hello.srtp # None
    /\ hello.suite \in ToSet(c.config.suites)

\* Another HelloVerifyRequest, or the whole of flight 4.
Flight3Parse(c) ==
    LET again  == FullPull(c.cache, c.recv_seq, <<May("HelloVerifyRequest", "server")>>)
        pull   == FullPull(c.cache, c.recv_seq,
                      <<Need("ServerHello", "server"), May("Certificate", "server"),
                        Need("ServerKeyExchange", "server"), May("CertificateRequest", "server"),
                        Need("ServerHelloDone", "server")>>)
        hello  == pull.msgs["ServerHello"]
        key_exchange == pull.msgs["ServerKeyExchange"]
    IN  IF again.ok /\ "HelloVerifyRequest" \in DOMAIN again.msgs
        THEN Goto([c EXCEPT !.cookie = again.msgs["HelloVerifyRequest"].cookie,
                            !.recv_seq = again.seq], 3)
        ELSE IF ~pull.ok THEN Keep(c)
        ELSE IF ~ServerHelloFits(c, hello) \/ PreMaster(key_exchange.curve, key_exchange.curve) = None
        THEN Fail(c)
        ELSE Goto([c EXCEPT !.recv_seq = pull.seq, !.suite = hello.suite, !.srtp = hello.srtp,
                            !.ems = c.ems \/ (hello.ems /\ c.config.ems # "disable"),
                            !.peer_cert = IF "Certificate" \in DOMAIN pull.msgs
                                          THEN pull.msgs["Certificate"].cert ELSE @,
                            !.keypair = key_exchange.curve,
                            !.pre_master = PreMaster(key_exchange.curve, key_exchange.curve),
                            !.requested = @ \/ "CertificateRequest" \in DOMAIN pull.msgs], 5)

\* The server may answer at once with a ServerHello; a server that does neither is
\* told off.
Flight1Parse(c) ==
    LET pull == FullPull(c.cache, c.recv_seq,
                    <<May("HelloVerifyRequest", "server"), May("ServerHello", "server")>>)
    IN  IF ~pull.ok THEN Keep(c)
        ELSE IF "ServerHello" \in DOMAIN pull.msgs THEN Flight3Parse(c)
        ELSE IF "HelloVerifyRequest" \notin DOMAIN pull.msgs THEN Complain(c)
        ELSE Goto([c EXCEPT !.cookie = pull.msgs["HelloVerifyRequest"].cookie,
                            !.recv_seq = pull.seq], 3)

-----------------------------------------------------------------------------
(* The client's last flight *)

\* Faulty variant: the client's own messages of this flight are not in the hash.
ClientSecretShort(c, sending) == MasterSecret(c, c.pre_master, SessionHash(c.cache, <<>>))

ClientSecret(c, sending) == MasterSecret(c, c.pre_master, SessionHash(c.cache, sending))

\* The server has signed its key with a certificate and a scheme the client takes.
ServerKeyHolds(c, key_exchange) ==
    /\ key_exchange.scheme \in ToSet(c.config.schemes)
    /\ SignatureHolds(key_exchange.signature, key_exchange.scheme, c.peer_cert, key_exchange.curve)
    /\ c.config.verify => c.peer_cert.trusted

Signs(c) == c.requested /\ c.config.cert # None

\* The proof that the client owns its certificate's key, over all that was said.
CertificateVerify(c, sending) ==
    HandshakeRecord(c, "CertificateVerify",
        [scheme |-> SelectScheme(c.config.schemes, c.config.cert),
         signature |-> Sign(c.config.cert, SessionHash(c.cache, sending))])

\* What a Finished message shows.
VerifyData(master, transcript) == [master |-> master, transcript |-> transcript]

\* Messages that are not in the cache yet go into hashes with the numbers they will have.
Flight5Generate(c) ==
    LET unsent == (IF c.requested THEN <<HandshakeRecord(c, "Certificate", [cert |-> c.config.cert])>>
                   ELSE <<>>)
                    \o <<HandshakeRecord(c, "ClientKeyExchange", [public_key |-> c.keypair])>>
        merged == Transcript(Numbered(unsent, c.send_seq))
        flight == unsent \o (IF Signs(c) THEN <<CertificateVerify(c, merged)>> ELSE <<>>)
        keyed  == [c EXCEPT !.master = ClientSecret(c, merged)]
        data   == VerifyData(keyed.master,
                      Pull(c.cache, VerifyRules) \o Transcript(Numbered(flight, c.send_seq)))
    IN  IF \/ ~ServerKeyHolds(c, Latest(c.cache, Need("ServerKeyExchange", "server")).body)
           \/ Signs(c) /\ SelectScheme(c.config.schemes, c.config.cert) = None
        THEN Fail(c)
        ELSE Sending(keyed, flight \o <<ChangeCipherSpec, FinishedRecord(keyed, data)>>)

\* Faulty variant: the client takes its own Finished for the server's.
Flight5ParseOwn(c) ==
    LET pull == FullPull(c.cache, c.send_seq - 1, <<NeedFinished("client")>>)
    IN  IF pull.ok THEN Finish(c) ELSE Keep(c)

Flight5Parse(c) ==
    LET pull == FullPull(c.cache, c.recv_seq, <<NeedFinished("server")>>)
    IN  IF ~pull.ok THEN Keep(c)
        ELSE IF pull.msgs["Finished"].verify_data # VerifyData(c.master, Pull(c.cache, VerifyRules))
        THEN Fail(c)
        ELSE Finish(c)

-----------------------------------------------------------------------------
(* The server's last flight *)

\* The client owns the key of its certificate, and the chain is good where it matters.
ClientProofHolds(c, cert, proof) ==
    /\ cert # None
    /\ proof.scheme \in ToSet(c.config.schemes)
    /\ SignatureHolds(proof.signature, proof.scheme, cert, Pull(c.cache, SessionRules))
    /\ c.config.auth >= VerifyClientCertIfGiven => cert.trusted

\* Keys are derived once; then what waited for them is read.
ServerKeys(c, public_key) ==
    IF HasKeys(c) THEN c
    ELSE [c EXCEPT !.master = MasterSecret(c, PreMaster(c.keypair, public_key), SessionHash(c.cache, <<>>))]

\* The client's certificate, key and proof; with them the keys; with them its
\* Finished, which has to be there and is not looked into.
Flight4Parse(c) ==
    LET keys   == FullPull(c.cache, c.recv_seq,
                      <<May("Certificate", "client"), Need("ClientKeyExchange", "client"),
                        May("CertificateVerify", "client")>>)
        public_key == keys.msgs["ClientKeyExchange"].public_key
        cert   == IF "Certificate" \in DOMAIN keys.msgs THEN keys.msgs["Certificate"].cert ELSE c.peer_cert
        proven == "CertificateVerify" \in DOMAIN keys.msgs
        shown  == [c EXCEPT !.peer_cert = cert,
                            !.verified = IF proven THEN c.config.auth >= VerifyClientCertIfGiven ELSE @]
        read   == HandleQueuedPackets(ServerKeys(shown, public_key))
        pull   == FullPull(read.cache, keys.seq, <<NeedFinished("client")>>)
    IN  IF ~keys.ok THEN Keep(c)
        ELSE IF proven /\ ~ClientProofHolds(c, cert, keys.msgs["CertificateVerify"]) THEN Fail(c)
        ELSE IF ~proven /\ cert # None THEN Keep(shown)
        ELSE IF ~HasKeys(c) /\ PreMaster(c.keypair, public_key) = None THEN Fail(c)
        ELSE IF ~pull.ok THEN Keep(read)
        ELSE IF ~ClientAccepted(c.config.auth, cert, read.verified) THEN Fail(read)
        ELSE Goto([read EXCEPT !.recv_seq = pull.seq], 6)

Flight6Generate(c) ==
    Sending(c, <<ChangeCipherSpec, FinishedRecord(c, VerifyData(c.master, Pull(c.cache, VerifyRules)))>>)

-----------------------------------------------------------------------------

\* What SRTP takes its keys from, or nothing: the seed is the same from both sides.
ExportKeyingMaterial(c) ==
    IF c.local_epoch = 0 \/ c.suite = None THEN <<>>
    ELSE <<c.master, c.suite,
           IF c.role = "client" THEN <<c.role, Peer(c.role)>> ELSE <<Peer(c.role), c.role>> >>

Generate(c) ==
    CASE c.flight = 0 -> Flight0Generate(c)
      [] c.flight = 1 -> Flight1Generate(c)
      [] c.flight = 2 -> Flight2Generate(c)
      [] c.flight = 3 -> Flight3Generate(c)
      [] c.flight = 4 -> Flight4Generate(c)
      [] c.flight = 5 -> Flight5Generate(c)
      [] c.flight = 6 -> Flight6Generate(c)

\* Flight 6 ends the handshake when it is sent.
Parse(c) ==
    CASE c.flight = 0 -> Flight0Parse(c)
      [] c.flight = 1 -> Flight1Parse(c)
      [] c.flight = 2 -> Flight2Parse(c)
      [] c.flight = 3 -> Flight3Parse(c)
      [] c.flight = 4 -> Flight4Parse(c)
      [] c.flight = 5 -> Flight5Parse(c)

IsLastSendFlight(c) == c.flight = 6
HasRetransmit(c) == c.flight # 2

=============================================================================
