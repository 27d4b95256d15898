--------------------------- MODULE DtlsNegotiation ---------------------------
(***************************************************************************)
(* What a DTLS peer chooses and checks without looking at the network: the *)
(* first common element of two preference lists, signature schemes and     *)
(* signatures, and what a server makes of a client's certificate.          *)
(*                                                                         *)
(* A side is configured by a record                                        *)
(*   suites, curves, srtp, schemes : sequences in order of preference      *)
(*   ems    : "request", "require" or "disable" (extended master secret)   *)
(*   auth   : what a server asks of the client, in the order of the code   *)
(*   cert   : None or [key, trusted]                                       *)
(*   verify : a client checks the server's certificate chain               *)
(* Pre-shared keys are left out: the WebRTC stack never configures one.    *)
(***************************************************************************)
EXTENDS Naturals, Sequences, SequencesExt

CONSTANT None

NoClientCert == 0
RequestClientCert == 1
RequireAnyClientCert == 2
VerifyClientCertIfGiven == 3
RequireAndVerifyClientCert == 4

\* The curves generate_keypair has; a list on the wire may hold others.
SupportedCurves == {"X25519", "P256", "P384"}

\* What a connection may not be opened without.
ValidConfig(side, config) ==
    /\ config.suites # <<>>
    /\ side = "server" => config.cert # None
    /\ config.cert # None => config.cert.key \in {"ecdsa", "ed25519"}

-----------------------------------------------------------------------------

\* The first element of offer that is acceptable.
FirstCommon(offer, acceptable) ==
    LET i == SelectInSeq(offer, LAMBDA x : x \in acceptable)
    IN  IF i = 0 THEN None ELSE offer[i]

\* Faulty variant: the first curve of the client, known or not (as before BUG-001).
FirstCurve(offer) == IF offer = <<>> THEN None ELSE offer[1]

ChooseCurve(offer) == FirstCommon(offer, SupportedCurves)

-----------------------------------------------------------------------------
(* Signatures.  A scheme names a hash; a key signs with one hash only.     *)

SchemesOf(key) == IF key = "ecdsa" THEN {"ecdsa-sha256", "ecdsa-sha384"} ELSE {"ed25519"}

SelectScheme(schemes, cert) == FirstCommon(schemes, SchemesOf(cert.key))

Sign(cert, message) ==
    [by |-> cert, scheme |-> IF cert.key = "ecdsa" THEN "ecdsa-sha256" ELSE "ed25519",
     message |-> message]

SignatureHolds(signature, scheme, cert, message) ==
    cert # None /\ signature = [by |-> cert, scheme |-> scheme, message |-> message]

\* What a server makes of a client that has shown this certificate, or none, and has
\* finished the handshake otherwise.
ClientAccepted(auth, cert, verified) ==
    /\ auth \in {RequireAnyClientCert, RequireAndVerifyClientCert} => cert # None
    /\ auth \in {VerifyClientCertIfGiven, RequireAndVerifyClientCert} => cert = None \/ verified

=============================================================================
