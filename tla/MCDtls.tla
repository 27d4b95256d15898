-------------------------------- MODULE MCDtls --------------------------------
(***************************************************************************)
(* Handshakes between a client and a server of chosen configurations: the  *)
(* one of this gateway with a browser, and pairs that differ from it in    *)
(* one respect each.                                                       *)
(***************************************************************************)
EXTENDS DtlsHandshake

\* A browser: its first curve is unknown here (BUG-001), its certificate self-signed.
Browser ==
    [suites |-> <<"other", "gcm", "cbc">>, curves |-> <<"kyber", "X25519", "P256">>,
     srtp |-> <<"aead", "sha1">>, schemes |-> <<"ecdsa-sha256", "ed25519">>,
     ems |-> "request", auth |-> NoClientCert, cert |-> [key |-> "ecdsa", trusted |-> FALSE],
     verify |-> FALSE]

\* The gateway: it asks for a certificate and checks no chain.
Gateway ==
    [suites |-> <<"gcm", "cbc">>, curves |-> <<>>, srtp |-> <<"sha1">>,
     schemes |-> <<"ecdsa-sha256", "ecdsa-sha384", "ed25519">>,
     ems |-> "request", auth |-> RequireAnyClientCert,
     cert |-> [key |-> "ecdsa", trusted |-> FALSE], verify |-> FALSE]

Trusted == [key |-> "ed25519", trusted |-> TRUE]

Meet(client, server, size) == [client |-> client, server |-> server, size |-> size]

\* Where a flight may be torn apart: two records in a datagram, or three.
Torn == {Meet(Browser, Gateway, 3),
         Meet([Browser EXCEPT !.srtp = <<>>], [Gateway EXCEPT !.auth = NoClientCert], 2)}

Fitting ==
    Torn
    \cup {Meet([Browser EXCEPT !.cert = Trusted], [Gateway EXCEPT !.auth = a], 7) :
            a \in {RequestClientCert, RequireAndVerifyClientCert}}
    \cup {Meet([Browser EXCEPT !.cert = None, !.verify = TRUE, !.ems = "disable"],
               [Gateway EXCEPT !.cert = Trusted, !.auth = VerifyClientCertIfGiven], 7)}

Unfitting ==
    {Meet([Browser EXCEPT !.suites = <<"other">>], Gateway, 7),
     Meet([Browser EXCEPT !.curves = <<"kyber">>], Gateway, 7),
     Meet([Browser EXCEPT !.srtp = <<"aead">>], Gateway, 7),
     Meet([Browser EXCEPT !.ems = "disable"], [Gateway EXCEPT !.ems = "require"], 7),
     Meet([Browser EXCEPT !.ems = "require"], [Gateway EXCEPT !.ems = "disable"], 7),
     Meet(Browser, [Gateway EXCEPT !.schemes = <<"ecdsa-sha384", "ecdsa-sha256">>], 7),
     Meet(Browser, [Gateway EXCEPT !.schemes = <<"ed25519">>], 7),
     Meet([Browser EXCEPT !.verify = TRUE], Gateway, 7),
     Meet([Browser EXCEPT !.cert = None], Gateway, 7),
     Meet(Browser, [Gateway EXCEPT !.auth = RequireAndVerifyClientCert], 7)}

MCPairs == Fitting \cup Unfitting

=============================================================================
