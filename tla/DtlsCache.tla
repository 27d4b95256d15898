------------------------------ MODULE DtlsCache ------------------------------
(***************************************************************************)
(* The handshake cache: every handshake message a side has sent or taken   *)
(* from its fragment buffer, a set of records with at least the fields     *)
(*   typ, from ("client" or "server"), epoch, seq, body.                   *)
(* Flights pull the messages they wait for from it, and transcripts for    *)
(* hashes and signatures are merged from it.                               *)
(***************************************************************************)
EXTENDS Naturals, Sequences, FiniteSets, SequencesExt

Rule(typ, from, epoch, optional) ==
    [typ |-> typ, from |-> from, epoch |-> epoch, optional |-> optional]

Need(typ, from) == Rule(typ, from, 0, FALSE)
May(typ, from) == Rule(typ, from, 0, TRUE)
NeedFinished(from) == Rule("Finished", from, 1, FALSE)

\* The first message of a side with a number stays.  The items pushed together have
\* numbers of their own.
PushAll(cache, items) ==
    cache \cup {m \in items : ~\E i \in cache : i.seq = m.seq /\ i.from = m.from}

Matching(cache, rule) ==
    {i \in cache : i.typ = rule.typ /\ i.from = rule.from /\ i.epoch = rule.epoch}

\* Of several matches the last, the ClientHello with the cookie for example.
Latest(cache, rule) ==
    CHOOSE i \in Matching(cache, rule) : \A j \in Matching(cache, rule) : j.seq <= i.seq

Pull(cache, rules) ==
    FlattenSeq([i \in DOMAIN rules |->
                  IF Matching(cache, rules[i]) = {} THEN <<>> ELSE <<Latest(cache, rules[i])>>])

\* Everything that is not optional is there and nothing is missing in between,
\* counting from start.  msgs holds the bodies by type, seq the number expected next.
FullPull(cache, start, rules) ==
    LET items == Pull(cache, rules)
        found == {r \in ToSet(rules) : Matching(cache, r) # {}}
    IN  [ok   |-> /\ \A r \in ToSet(rules) : r.optional \/ r \in found
                  /\ \A i \in DOMAIN items : items[i].seq = start + i - 1,
         seq  |-> start + Len(items),
         msgs |-> [t \in {r.typ : r \in found} |->
                      Latest(cache, CHOOSE r \in found : r.typ = t).body]]

-----------------------------------------------------------------------------
(* Transcripts *)

SessionRules ==
    <<Need("ClientHello", "client"), Need("ServerHello", "server"),
      Need("Certificate", "server"), Need("ServerKeyExchange", "server"),
      Need("CertificateRequest", "server"), Need("ServerHelloDone", "server"),
      Need("Certificate", "client"), Need("ClientKeyExchange", "client")>>

\* What the extended master secret is bound to.
SessionHash(cache, additional) == Pull(cache, SessionRules) \o additional

\* What the Finished messages are about.
VerifyRules ==
    SessionRules \o <<Need("CertificateVerify", "client"), NeedFinished("client")>>

=============================================================================
