------------------------------ MODULE Dtls_proofs ------------------------------
(***************************************************************************)
(* What a DTLS handshake may be relied upon, for every pair of             *)
(* configurations and every order in which its datagrams are lost or       *)
(* arrive: the two sides derive the same secret from what they agreed on,  *)
(* none ends before the other can follow, none takes anything for          *)
(* encrypted too early, and only their configurations decide whether one   *)
(* fails.                                                                  *)
(*                                                                         *)
(* The argument: a side knows of its peer's messages exactly the first     *)
(* ones, without a gap.  A message that says a flight is complete comes    *)
(* last in it, so with it the side knows the flight; and what a side sends *)
(* follows from the two configurations.  The invariant, Inv, says this of  *)
(* two records and a set of datagrams, so that a lemma about a step speaks *)
(* of constants; IInv says it of the variables.                            *)
(***************************************************************************)
EXTENDS DtlsHandshake, Recursion, SequenceTheorems, FiniteSetTheorems, TLAPS

--------------------------------------------------------------------------------
(* Negotiation *)

\* Of every offer the first acceptable element is taken; None is the answer exactly
\* when there is none (find_matching_srtp_profile, find_matching_cipher_suite, lib.rs;
\* select_signature_scheme, signature_hash_algorithm/mod.rs).
THEOREM FirstOfOffer ==
  ASSUME NEW D, NEW offer \in Seq(D), NEW acceptable
  PROVE  \/ /\ \A j \in DOMAIN offer : offer[j] \notin acceptable
            /\ FirstCommon(offer, acceptable) = None
         \/ \E i \in DOMAIN offer :
              /\ FirstCommon(offer, acceptable) = offer[i]
              /\ offer[i] \in acceptable
              /\ \A j \in DOMAIN offer : j < i => offer[j] \notin acceptable
<1> DEFINE I == {i \in 1 .. Len(offer) : offer[i] \in acceptable}
<1>1. FirstCommon(offer, acceptable) =
        LET k == IF I # {} THEN Min(I) ELSE 0 IN IF k = 0 THEN None ELSE offer[k]
  BY DEF FirstCommon, SelectInSeq
<1>2. I \in SUBSET Nat /\ 0 \notin I /\ DOMAIN offer = 1 .. Len(offer)
  OBVIOUS
<1>3. CASE I = {}
  BY <1>1, <1>2, <1>3
<1>4. CASE I # {}
  <2>1. Min(I) \in I /\ \A j \in I : Min(I) <= j
    BY <1>2, <1>4, LeastIsMin
  <2>2. Min(I) \in 1 .. Len(offer) /\ offer[Min(I)] \in acceptable
    BY <2>1
  <2>3. FirstCommon(offer, acceptable) = offer[Min(I)]
    BY <1>1, <1>2, <1>4, <2>1
  <2>4. ASSUME NEW j \in DOMAIN offer, j < Min(I) PROVE offer[j] \notin acceptable
    BY <1>2, <2>1, <2>2, <2>4
  <2> QED
    BY <1>2, <2>2, <2>3, <2>4
<1> QED
  BY <1>3, <1>4

\* Whatever curves a client offers, known or not and in whatever order, the gateway uses
\* one it has whenever the offer holds one, and one from the offer (Flight0::parse; the
\* code took the first, known or not, before BUG-001).
THEOREM CurveIsKnown ==
  ASSUME NEW D, NEW offer \in Seq(D), None \notin SupportedCurves
  PROVE  /\ (\E i \in DOMAIN offer : offer[i] \in SupportedCurves)
               <=> ChooseCurve(offer) \in SupportedCurves
         /\ ChooseCurve(offer) # None => \E i \in DOMAIN offer : offer[i] = ChooseCurve(offer)
BY FirstOfOffer DEF ChooseCurve

--------------------------------------------------------------------------------
(* The cache *)

\* The numbers in a cache are bounded.
Bounded(cache) == \E n \in Nat : \A m \in cache : m.seq \in Nat /\ m.seq < n

\* Of the messages that match one is the latest.
LEMMA LatestIs ==
  ASSUME NEW cache, NEW rule, Bounded(cache), Matching(cache, rule) # {}
  PROVE  Latest(cache, rule) \in Matching(cache, rule)
<1>1. PICK n \in Nat : \A m \in cache : m.seq \in Nat /\ m.seq < n
  BY DEF Bounded
<1> DEFINE M == Matching(cache, rule)
           S == {m.seq + 1 : m \in M}
<1>2. \A m \in M : m.seq \in Nat /\ m.seq + 1 \in 1 .. n
  BY <1>1 DEF Matching
<1>3. S \in SUBSET (1 .. n) /\ S # {}
  BY <1>2
<1>4. Max(S) \in S /\ \A j \in S : j <= Max(S)
  <2> HIDE DEF S
  <2> QED
    BY <1>3, Greatest
<1>5. PICK m \in M : Max(S) = m.seq + 1
  BY <1>4
<1>6. \A j \in M : j.seq <= m.seq
  <2> SUFFICES ASSUME NEW j \in M PROVE j.seq <= m.seq
    OBVIOUS
  <2>1. j.seq + 1 <= m.seq + 1
    BY <1>4, <1>5
  <2> QED
    BY <1>2, <2>1
<1> QED
  BY <1>5, <1>6 DEF Latest

\* What a pull of everything tells: nothing that is needed is missing, a type in its
\* answer was in the cache, and its body is that of a message in the cache.
LEMMA Pulled ==
  ASSUME NEW cache, NEW start, NEW rules
  PROVE  /\ FullPull(cache, start, rules).ok =>
              \A r \in ToSet(rules) : r.optional \/ Matching(cache, r) # {}
         /\ \A t \in DOMAIN FullPull(cache, start, rules).msgs :
              \E r \in ToSet(rules) : r.typ = t /\ Matching(cache, r) # {}
BY DEF FullPull

\* A type that some message matches is in the answer of a pull, with the body of one
\* of the messages that match.
LEMMA Heard ==
  ASSUME NEW cache, NEW start, NEW rules, NEW r \in ToSet(rules), Bounded(cache),
         \A q \in ToSet(rules) : q.typ = r.typ => q = r, Matching(cache, r) # {}
  PROVE  /\ r.typ \in DOMAIN FullPull(cache, start, rules).msgs
         /\ \E m \in Matching(cache, r) : FullPull(cache, start, rules).msgs[r.typ] = m.body
<1> DEFINE found == {q \in ToSet(rules) : Matching(cache, q) # {}}
<1>1. r.typ \in {q.typ : q \in found}
  OBVIOUS
<1>2. (CHOOSE q \in found : q.typ = r.typ) = r
  OBVIOUS
<1>3. FullPull(cache, start, rules).msgs =
        [t \in {q.typ : q \in found} |-> Latest(cache, CHOOSE q \in found : q.typ = t).body]
  BY DEF FullPull
<1> HIDE DEF found
<1>4. FullPull(cache, start, rules).msgs[r.typ] = Latest(cache, r).body
  <2>1. FullPull(cache, start, rules).msgs[r.typ] =
          Latest(cache, CHOOSE q \in found : q.typ = r.typ).body
    BY <1>1, <1>3
  <2> QED
    BY <1>2, <2>1
<1> QED
  BY <1>1, <1>3, <1>4, LatestIs

\* A pull depends on what matches its rules, and on nothing else.
LEMMA PullOfSame ==
  ASSUME NEW A, NEW B, NEW rules,
         \A i \in DOMAIN rules : Matching(A, rules[i]) = Matching(B, rules[i])
  PROVE  Pull(A, rules) = Pull(B, rules)
<1>1. \A i \in DOMAIN rules : Latest(A, rules[i]) = Latest(B, rules[i])
  BY DEF Latest
<1> QED
  BY <1>1 DEF Pull

\* What one rule contributes.
Item(cache, rule) == IF Matching(cache, rule) = {} THEN <<>> ELSE <<Latest(cache, rule)>>

Items(cache) == [i \in 1 .. 8 |-> Item(cache, SessionRules[i])]
Found(cache) == {Latest(cache, SessionRules[i]) : i \in 1 .. 8}

\* The items of a session's pull are sequences, and the pull is their concatenation.
LEMMA ItemsType ==
  ASSUME NEW cache
  PROVE  /\ \A i \in 1 .. 8 : Items(cache)[i] \in Seq(Found(cache))
         /\ Items(cache) \in Seq(Seq(Found(cache))) /\ Len(Items(cache)) = 8
         /\ \A i \in 1 .. 8 : Items(cache)[i] = Item(cache, SessionRules[i])
         /\ Pull(cache, SessionRules) = FlattenSeq(Items(cache))
<1> DEFINE T == Found(cache)
<1>1. \A i \in 1 .. 8 : Item(cache, SessionRules[i]) \in Seq(T)
  <2> SUFFICES ASSUME NEW i \in 1 .. 8 PROVE Item(cache, SessionRules[i]) \in Seq(T)
    OBVIOUS
  <2>1. Latest(cache, SessionRules[i]) \in T
    BY DEF Found
  <2> HIDE DEF T
  <2> QED
    BY <2>1 DEF Item
<1> HIDE DEF T
<1>2. DOMAIN SessionRules = 1 .. 8
  BY DEF SessionRules
<1>3. Pull(cache, SessionRules) = FlattenSeq(Items(cache))
  BY <1>2 DEF Pull, Items, Item
<1>4. \A i \in 1 .. 8 : Items(cache)[i] = Item(cache, SessionRules[i])
  BY DEF Items
<1>5. Items(cache) \in Seq(Seq(T)) /\ Len(Items(cache)) = 8
  BY <1>1 DEF Items
<1> QED
  BY <1>1, <1>3, <1>4, <1>5 DEF T

\* The pull, joined item by item.
LEMMA ItemsFlattened ==
  ASSUME NEW cache
  PROVE  \E h : /\ h \in [1 .. 8 -> Seq(Found(cache))]
                /\ \A i \in 1 .. 8 : h[i] = IF i = 1 THEN Items(cache)[i] ELSE h[i - 1] \o Items(cache)[i]
                /\ Flattened(h, Items(cache), Found(cache))
                /\ Pull(cache, SessionRules) = h[8]
<1> DEFINE ss == Items(cache)
           P == Found(cache)
<1>1. ss \in Seq(Seq(P)) /\ Len(ss) = 8 /\ Pull(cache, SessionRules) = FlattenSeq(ss)
  BY ItemsType
<1> HIDE DEF ss, P
<1>2. Len(ss) # 0
  BY <1>1
<1>3. PICK h : Flattened(h, ss, P) /\ FlattenSeq(ss) = h[Len(ss)]
  BY <1>1, <1>2, FlattenIs
<1>4. /\ h \in [1 .. 8 -> Seq(P)]
      /\ \A i \in 1 .. 8 : h[i] = IF i = 1 THEN ss[i] ELSE h[i - 1] \o ss[i]
  BY <1>1, <1>3 DEF Flattened
<1> QED
  BY <1>1, <1>3, <1>4 DEF ss, P

\* A session's pull is a sequence, so nothing changes when nothing is put behind it.
LEMMA PullIsSequence ==
  ASSUME NEW cache
  PROVE  Pull(cache, SessionRules) \o <<>> = Pull(cache, SessionRules)
<1>1. PICK h \in [1 .. 8 -> Seq(Found(cache))] : Pull(cache, SessionRules) = h[8]
  BY ItemsFlattened
<1>2. 8 \in 1 .. 8
  OBVIOUS
<1>3. Pull(cache, SessionRules) \in Seq(Found(cache))
  BY <1>1, <1>2
<1> QED
  BY <1>3, ConcatEmptySeq

\* The same with the additional messages at the end.
LEMMA PullWithMore ==
  ASSUME NEW A, NEW B,
         \A i \in 1 .. 6 : Matching(A, SessionRules[i]) = Matching(B, SessionRules[i]),
         Matching(A, SessionRules[7]) = {}, Matching(A, SessionRules[8]) = {}
  PROVE  Pull(B, SessionRules) =
           Pull(A, SessionRules) \o (Item(B, SessionRules[7]) \o Item(B, SessionRules[8]))
<1> DEFINE T == Found(A) \cup Found(B)
           y == Item(B, SessionRules[7])
           z == Item(B, SessionRules[8])
<1>1. PICK g : /\ g \in [1 .. 8 -> Seq(Found(A))]
               /\ \A i \in 1 .. 8 : g[i] = IF i = 1 THEN Items(A)[i] ELSE g[i - 1] \o Items(A)[i]
               /\ Flattened(g, Items(A), Found(A)) /\ Pull(A, SessionRules) = g[8]
  BY ItemsFlattened
<1>2. PICK h : /\ h \in [1 .. 8 -> Seq(Found(B))]
               /\ \A i \in 1 .. 8 : h[i] = IF i = 1 THEN Items(B)[i] ELSE h[i - 1] \o Items(B)[i]
               /\ Flattened(h, Items(B), Found(B)) /\ Pull(B, SessionRules) = h[8]
  BY ItemsFlattened
<1>3. \A i \in 1 .. 6 : Items(A)[i] = Items(B)[i]
  <2> SUFFICES ASSUME NEW i \in 1 .. 6 PROVE Items(A)[i] = Items(B)[i]
    OBVIOUS
  <2>1. i \in 1 .. 8
    OBVIOUS
  <2>2. Matching(A, SessionRules[i]) = Matching(B, SessionRules[i])
    OBVIOUS
  <2>3. Item(A, SessionRules[i]) = Item(B, SessionRules[i])
    BY <2>2 DEF Item, Latest
  <2> QED
    BY <2>1, <2>3, ItemsType
<1>4. g[6] = h[6]
  <2>1. Len(Items(A)) = 8 /\ Len(Items(B)) = 8
    BY ItemsType
  <2> DEFINE ss == Items(A) tt == Items(B) n == 6
  <2>2. /\ Len(ss) \in Nat /\ Len(tt) \in Nat /\ n \in Nat /\ n # 0 /\ n <= Len(ss) /\ n <= Len(tt)
        /\ Flattened(g, ss, Found(A)) /\ Flattened(h, tt, Found(B)) /\ \A i \in 1 .. n : ss[i] = tt[i]
    BY <1>1, <1>2, <1>3, <2>1
  <2> HIDE DEF ss, tt, n
  <2>3. g[n] = h[n]
    BY <2>2, FlattenedAlike
  <2> QED
    BY <2>3 DEF n
<1>5. /\ g[7] = g[6] \o Items(A)[7] /\ g[8] = g[7] \o Items(A)[8]
      /\ h[7] = h[6] \o Items(B)[7] /\ h[8] = h[7] \o Items(B)[8]
  <2>1. 7 \in 1 .. 8 /\ 8 \in 1 .. 8 /\ 7 # 1 /\ 8 # 1 /\ 7 - 1 = 6 /\ 8 - 1 = 7
    OBVIOUS
  <2>3. /\ g[7] = g[7 - 1] \o Items(A)[7] /\ g[8] = g[8 - 1] \o Items(A)[8]
        /\ h[7] = h[7 - 1] \o Items(B)[7] /\ h[8] = h[8 - 1] \o Items(B)[8]
    BY <1>1, <1>2, <2>1
  <2> QED
    BY <2>1, <2>3
<1>6. Items(A)[7] = <<>> /\ Items(A)[8] = <<>> /\ Items(B)[7] = y /\ Items(B)[8] = z
  <2>1. 7 \in 1 .. 8 /\ 8 \in 1 .. 8
    OBVIOUS
  <2>2. Item(A, SessionRules[7]) = <<>> /\ Item(A, SessionRules[8]) = <<>>
    BY DEF Item
  <2> QED
    BY <2>1, <2>2, ItemsType
<1>7. g[6] \in Seq(T) /\ y \in Seq(T) /\ z \in Seq(T)
  <2>1. 6 \in 1 .. 8 /\ 7 \in 1 .. 8 /\ 8 \in 1 .. 8
    OBVIOUS
  <2>2. g[6] \in Seq(Found(A)) /\ y \in Seq(Found(B)) /\ z \in Seq(Found(B))
    BY <1>1, <1>6, <2>1, ItemsType
  <2> QED
    BY <2>2
<1> HIDE DEF T, y, z
<1>8. g[8] = g[6]
  <2>1. g[6] \o <<>> = g[6]
    BY <1>7, ConcatEmptySeq
  <2> QED
    BY <1>5, <1>6, <2>1
<1>9. (g[6] \o y) \o z = g[6] \o (y \o z)
  <2> DEFINE x == g[6]
  <2>1. x \in Seq(T)
    BY <1>7
  <2> HIDE DEF x
  <2>2. (x \o y) \o z = x \o (y \o z)
    BY <1>7, <2>1
  <2> QED
    BY <2>2 DEF x
<1>10. h[8] = (g[6] \o y) \o z
  BY <1>4, <1>5, <1>6
<1> QED
  BY <1>1, <1>2, <1>8, <1>9, <1>10 DEF y, z

--------------------------------------------------------------------------------
(* The inductive invariant *)

\* What a side has sent, what it has taken from its peer, and what it has made, sent or not.
Sent(s, c) == {m \in c.cache : m.from = s}
Got(s, c) == {m \in c.cache : m.from = Peer(s)}
Made(s, c) == Sent(s, c) \cup Messages(c.packets)

Said(K) == Made("client", K["client"]) \cup Made("server", K["server"])

Fields ==
    {"role", "config", "flight", "fsm", "packets", "send_seq", "recv_seq", "local_epoch",
     "remote_epoch", "cookie", "suite", "srtp", "ems", "curve", "keypair", "requested",
     "peer_cert", "verified", "pre_master", "master", "cache", "reader", "fragments", "next",
     "queue", "rendezvous"}

IsConn(c) == c = [f \in Fields |-> c[f]]

Typed(P, s, c) ==
    /\ IsConn(c) /\ c.role = s /\ c.config = P[s]
    /\ c.flight \in IF s = "client" THEN {1, 3, 5} ELSE {0, 2, 4, 6}
    /\ c.fsm \in {"preparing", "sending", "waiting", "finished", "failed"}
    /\ c.reader \in {"up", "gone"} /\ c.rendezvous \in BOOLEAN
    /\ c.ems \in BOOLEAN /\ c.requested \in BOOLEAN
    /\ c.local_epoch \in 0 .. 1 /\ c.remote_epoch \in 0 .. 1
    /\ c.send_seq \in Nat /\ c.next \in Nat
    /\ c.packets \in Seq(ToSet(c.packets)) /\ c.queue \in Seq(ToSet(c.queue))
    /\ IsFiniteSet(c.fragments)
    /\ \A m \in c.cache : m.from \in Sides

\* A record that carries one of the messages, or whose sender has begun this epoch.
Genuine(r, epoch, messages) ==
    \/ r.content = "handshake" /\ r.msg \in messages
    \/ r.content = "ccs" /\ epoch = 1
    \/ r.content = "alert"

\* A message has a number of its own, and is in the cache of its sender once it is sent.
Own(s, c) ==
    /\ \A m \in Made(s, c) :
          /\ m.from = s /\ m.seq \in Nat /\ m.seq < c.send_seq
          /\ m.epoch = IF m.typ = "Finished" THEN 1 ELSE 0
    /\ \A m, n \in Made(s, c) : m.seq = n.seq => m = n
    /\ c.fsm # "sending" => Messages(c.packets) \subseteq c.cache
    /\ c.local_epoch = 1 => HasKeys(c)
    /\ \A r \in ToSet(c.packets) : Genuine(r, c.local_epoch, Made(s, c))

\* A side has its peer's messages before next, all of them, and no other; what waits to
\* be read is its peer's.
Taken(s, c, p) ==
    /\ \A m \in c.fragments : m \in Sent(Peer(s), p) /\ m.seq > c.next
    /\ \A m \in Got(s, c) : m \in Sent(Peer(s), p) /\ m.seq < c.next
    /\ \A n \in Nat : n < c.next => \E m \in Got(s, c) : m.seq = n
    /\ \A r \in ToSet(c.queue) : Genuine(r, p.local_epoch, Sent(Peer(s), p))
    /\ c.remote_epoch = 1 => HasKeys(c) /\ p.local_epoch = 1

\* What the two configurations come to.
Suite(P) == FirstCommon(P["client"].suites, ToSet(P["server"].suites))
Srtp(P) == FirstCommon(P["client"].srtp, ToSet(P["server"].srtp))
Curve(P) == ChooseCurve(P["client"].curves)
Ems(P) == P["client"].ems # "disable" /\ P["server"].ems # "disable"
Asked(P) == P["server"].auth # NoClientCert

Secret(P, said) == <<Suite(P), Curve(P), IF Ems(P) THEN Pull(said, SessionRules) ELSE <<>> >>

\* The client's messages: what they say, and in what order.
ClientMade(P, c) ==
    \A m \in Made("client", c) :
        /\ m.typ # "ClientHello" => HasKeys(c)
        /\ m.typ = "ClientHello" =>
              /\ m.body.suites = P["client"].suites /\ m.body.curves = P["client"].curves
              /\ m.body.srtp = P["client"].srtp
              /\ m.body.ems \in BOOLEAN /\ (m.body.ems <=> P["client"].ems # "disable")
        /\ m.typ = "Certificate" => m.body.cert = P["client"].cert /\ Asked(P)
        /\ m.typ = "ClientKeyExchange" =>
              /\ m.body.public_key = Curve(P)
              /\ Asked(P) => \E x \in Made("client", c) : x.typ = "Certificate" /\ x.seq < m.seq
              /\ \A x \in Made("client", c) :
                    x.typ \in {"ClientHello", "Certificate", "ClientKeyExchange"} => x.seq <= m.seq

\* The client has the whole of flight 4, and then its keys.
ClientChose(P, c) ==
    /\ c.flight # 5 => c.ems = FALSE /\ c.requested = FALSE
    /\ c.flight = 5 =>
          /\ \E m \in Got("client", c) : m.typ = "ServerHelloDone"
          /\ c.suite = Suite(P) /\ c.srtp = Srtp(P)
          /\ c.keypair = Curve(P) /\ c.pre_master = Curve(P)
          /\ (c.ems <=> Ems(P)) /\ (c.requested <=> Asked(P))
          /\ c.fsm \in {"sending", "waiting", "finished"} => HasKeys(c)
    /\ HasKeys(c) => c.flight = 5 /\ c.fsm # "preparing" /\ c.local_epoch = 1
    /\ c.fsm = "finished" => HasKeys(c) /\ \E m \in Got("client", c) : m.typ = "Finished"

HelloVerifyRequest ==
    [typ |-> "HelloVerifyRequest", from |-> "server", epoch |-> 0, seq |-> 0,
     body |-> [cookie |-> "cookie"]]

\* The server's messages, in order.
ServerMade(P, c) ==
    /\ (c.flight \in {0, 2} \/ (c.flight = 4 /\ c.fsm = "preparing")) =>
          \A m \in Made("server", c) : m = HelloVerifyRequest
    /\ \A m \in Made("server", c) :
          /\ m.typ = "ServerHello" =>
                /\ m.body.suite = Suite(P) /\ m.body.srtp = Srtp(P)
                /\ m.body.ems \in BOOLEAN /\ (m.body.ems <=> Ems(P))
          /\ m.typ = "ServerKeyExchange" => m.body.curve = Curve(P)
          /\ m.typ = "CertificateRequest" => Asked(P)
          /\ m.typ = "ServerHelloDone" =>
                /\ Asked(P) => \E x \in Made("server", c) : x.typ = "CertificateRequest" /\ x.seq < m.seq
                /\ \A x \in Made("server", c) : x.typ # "Finished" => x.seq <= m.seq
          /\ m.typ = "Finished" => c.flight = 6 /\ c.fsm # "preparing"
    /\ \A m \in Sent("server", c) : m.typ = "Finished" => c.fsm = "finished"

\* What the server has agreed to, and its keys.
ServerChose(P, c) ==
    /\ c.flight = 0 => c.keypair = None /\ c.ems = FALSE
    /\ (c.flight = 0 /\ c.fsm = "preparing") \/ c.cookie = "cookie"
    /\ c.flight # 0 =>
          /\ c.suite = Suite(P) /\ Suite(P) # None /\ c.srtp = Srtp(P) /\ (c.ems <=> Ems(P))
          /\ c.curve = Curve(P) /\ c.keypair = Curve(P) /\ Curve(P) \in SupportedCurves
    /\ HasKeys(c) =>
          /\ c.flight \in {4, 6} /\ (c.flight = 4 => c.fsm # "preparing")
          /\ \E m \in Got("server", c) : m.typ = "ClientKeyExchange"
    /\ c.peer_cert # None => Asked(P) /\ c.peer_cert = P["client"].cert
    /\ c.flight = 6 =>
          /\ HasKeys(c) /\ c.fsm \in {"preparing", "sending", "finished"}
          /\ c.fsm # "preparing" => c.local_epoch = 1
          /\ c.peer_cert = IF Asked(P) THEN P["client"].cert ELSE None
    /\ c.fsm = "finished" => c.flight = 6

\* A side, with what holds of the client or of the server.
Side(P, s, c, p) ==
    /\ Typed(P, s, c) /\ Own(s, c) /\ Taken(s, c, p)
    /\ s = "client" => ClientMade(P, c) /\ ClientChose(P, c)
    /\ s = "server" => ServerMade(P, c) /\ ServerChose(P, c)

\* What is on its way to a side is its peer's.
Arrives(P, d, K) ==
    /\ d.to \in Sides /\ d.records \in Seq(ToSet(d.records)) /\ Len(d.records) \in 1 .. P.size
    /\ \A r \in ToSet(d.records) :
          Genuine(r, K[Peer(d.to)].local_epoch, Sent(Peer(d.to), K[Peer(d.to)]))

\* Whoever has keys has the secret of what both have said.
Keyed(P, K) == \A s \in Sides : HasKeys(K[s]) => K[s].master = Secret(P, Said(K))

Inv(P, K, N) ==
    /\ P \in Pairs /\ K = [s \in Sides |-> K[s]]
    /\ \A s \in Sides : Side(P, s, K[s], K[Peer(s)])
    /\ \A d \in N : Arrives(P, d, K)
    /\ Keyed(P, K)

IInv == Inv(pair, conn, net)

--------------------------------------------------------------------------------
(* What follows from it *)

\* The fields of a connection.
LEMMA FieldNames ==
  /\ "role" \in Fields /\ "config" \in Fields /\ "flight" \in Fields /\ "fsm" \in Fields
  /\ "packets" \in Fields /\ "send_seq" \in Fields /\ "recv_seq" \in Fields
  /\ "local_epoch" \in Fields /\ "remote_epoch" \in Fields /\ "cookie" \in Fields
  /\ "suite" \in Fields /\ "srtp" \in Fields /\ "ems" \in Fields /\ "curve" \in Fields
  /\ "keypair" \in Fields /\ "requested" \in Fields /\ "peer_cert" \in Fields
  /\ "verified" \in Fields /\ "pre_master" \in Fields /\ "master" \in Fields
  /\ "cache" \in Fields /\ "reader" \in Fields /\ "fragments" \in Fields
  /\ "next" \in Fields /\ "queue" \in Fields /\ "rendezvous" \in Fields
BY DEF Fields

\* There are two sides, each the other's peer.
LEMMA TwoSides ==
  /\ "client" \in Sides /\ "server" \in Sides /\ "client" # "server"
  /\ Peer("client") = "server" /\ Peer("server") = "client"
  /\ \A s \in Sides : Peer(s) \in Sides /\ Peer(s) # s /\ Peer(Peer(s)) = s
  /\ \A s \in Sides : s = "client" \/ s = "server"
BY DEF Sides, Peer

\* Both sides of the invariant, by name.
LEMMA TwoRecords ==
  ASSUME NEW P, NEW K, NEW N, Inv(P, K, N)
  PROVE  /\ Side(P, "client", K["client"], K["server"])
         /\ Side(P, "server", K["server"], K["client"])
         /\ ClientMade(P, K["client"]) /\ ClientChose(P, K["client"])
         /\ ServerMade(P, K["server"]) /\ ServerChose(P, K["server"])
BY TwoSides DEF Inv, Side

\* A message that a side has taken is one its peer has made.
LEMMA TakenIsMade ==
  ASSUME NEW P, NEW K, NEW N, Inv(P, K, N), NEW s \in Sides, NEW m \in Got(s, K[s])
  PROVE  m \in Sent(Peer(s), K[Peer(s)]) /\ m \in Made(Peer(s), K[Peer(s)]) /\ m.seq < K[s].next
BY DEF Inv, Side, Taken, Made

\* Keys of the server need the client's key exchange, and with that the client has keys.
LEMMA ClientHasKeys ==
  ASSUME NEW P, NEW K, NEW N, Inv(P, K, N), HasKeys(K["server"])
  PROVE  HasKeys(K["client"])
<1>1. PICK m \in Got("server", K["server"]) : m.typ = "ClientKeyExchange"
  BY TwoRecords DEF ServerChose
<1>2. m \in Made("client", K["client"])
  BY <1>1, TwoSides, TakenIsMade
<1> QED
  BY <1>1, <1>2, TwoRecords DEF ClientMade

\* A client in its last flight has heard a server that has made its choice.
LEMMA ServerHasChosen ==
  ASSUME NEW P, NEW K, NEW N, Inv(P, K, N), K["client"].flight = 5
  PROVE  /\ K["server"].flight \notin {0, 2}
         /\ ~(K["server"].flight = 4 /\ K["server"].fsm = "preparing")
         /\ Suite(P) # None
<1>1. PICK m \in Got("client", K["client"]) : m.typ = "ServerHelloDone"
  BY TwoRecords DEF ClientChose
<1>2. m \in Made("server", K["server"])
  BY <1>1, TwoSides, TakenIsMade
<1>3. m # HelloVerifyRequest
  BY <1>1 DEF HelloVerifyRequest
<1>4. /\ K["server"].flight \notin {0, 2}
      /\ ~(K["server"].flight = 4 /\ K["server"].fsm = "preparing")
  BY <1>2, <1>3, TwoRecords DEF ServerMade
<1> QED
  BY <1>4, TwoRecords DEF ServerChose

\* What TLC checks as a type invariant.
LEMMA TypesFollow == IInv => TypeOK
<1> SUFFICES ASSUME IInv PROVE TypeOK
  OBVIOUS
<1>1. pair \in Pairs /\ \A s \in Sides : Typed(pair, s, conn[s]) /\ Own(s, conn[s]) /\ Taken(s, conn[s], conn[Peer(s)])
  BY DEF IInv, Inv, Side
<1>2. \A d \in net : d.to \in Sides /\ Len(d.records) \in 1 .. pair.size
  BY DEF IInv, Inv, Arrives
<1>3. ASSUME NEW s \in Sides
      PROVE  /\ \A m \in conn[s].cache : m.seq < (IF m.from = s THEN conn[s].send_seq ELSE conn[s].next)
             /\ \A m \in conn[s].fragments : m.from = Peer(s) /\ m.seq > conn[s].next
  <2>1. ASSUME NEW m \in conn[s].cache
        PROVE  m.seq < (IF m.from = s THEN conn[s].send_seq ELSE conn[s].next)
    <3>1. CASE m.from = s
      BY <1>1, <3>1 DEF Own, Made, Sent
    <3>2. CASE m.from # s
      <4>1. m.from = Peer(s)
        BY <1>1, <3>2, TwoSides DEF Typed, Sides, Peer
      <4> QED
        BY <1>1, <3>2, <4>1 DEF Taken, Got
    <3> QED
      BY <3>1, <3>2
  <2>2. \A m \in conn[s].fragments : m.from = Peer(s) /\ m.seq > conn[s].next
    BY <1>1 DEF Taken, Sent
  <2> QED
    BY <2>1, <2>2
<1>4. \A s \in Sides :
        /\ conn[s].role = s /\ conn[s].config = pair[s]
        /\ conn[s].flight \in IF s = "client" THEN {1, 3, 5} ELSE {0, 2, 4, 6}
        /\ conn[s].fsm \in {"preparing", "sending", "waiting", "finished", "failed"}
        /\ conn[s].reader \in {"up", "gone"} /\ conn[s].rendezvous \in BOOLEAN
        /\ conn[s].local_epoch \in 0 .. 1 /\ conn[s].remote_epoch \in 0 .. 1
  BY <1>1 DEF Typed
<1> QED
  BY <1>1, <1>2, <1>3, <1>4 DEF TypeOK

\* Two sides with keys have the same, and have them from the two configurations.
LEMMA SecretFollows == IInv => OneSecret
<1> SUFFICES ASSUME IInv PROVE OneSecret
  OBVIOUS
<1> DEFINE c == conn["client"]
           s == conn["server"]
<1>1. Inv(pair, conn, net)
  BY DEF IInv
<1>2. /\ Typed(pair, "client", c) /\ Typed(pair, "server", s)
      /\ ClientChose(pair, c) /\ ServerChose(pair, s)
      /\ Own("client", c) /\ Own("server", s)
  BY <1>1, TwoRecords DEF Side
<1>3. /\ HasKeys(c) => c.master = Secret(pair, Said(conn))
      /\ HasKeys(s) => s.master = Secret(pair, Said(conn))
  BY <1>1, TwoSides DEF Inv, Keyed
<1>4. HasKeys(c) => c.flight = 5 /\ c.suite = Suite(pair) /\ c.srtp = Srtp(pair) /\ c.keypair = Curve(pair) /\ (c.ems <=> Ems(pair))
  BY <1>2 DEF ClientChose
<1>5. HasKeys(s) => s.suite = Suite(pair) /\ s.srtp = Srtp(pair) /\ s.keypair = Curve(pair) /\ (s.ems <=> Ems(pair))
  BY <1>2 DEF ServerChose
<1>6. c.ems \in BOOLEAN /\ s.ems \in BOOLEAN /\ c.role = "client" /\ s.role = "server"
      /\ c.config = pair["client"] /\ s.config = pair["server"]
  BY <1>2 DEF Typed
<1>7. HasKeys(c) \/ HasKeys(s) => Suite(pair) # None
  <2>1. HasKeys(c) => Suite(pair) # None
    BY <1>1, <1>4, ServerHasChosen
  <2> QED
    BY <1>1, <2>1, ClientHasKeys
<1>8. /\ c.local_epoch = 1 => HasKeys(c)
      /\ s.local_epoch = 1 => HasKeys(s)
      /\ c.fsm = "finished" => c.local_epoch = 1
      /\ s.fsm = "finished" => s.local_epoch = 1
      /\ c.local_epoch \in 0 .. 1 /\ s.local_epoch \in 0 .. 1
  BY <1>2 DEF Own, ClientChose, ServerChose, Typed
<1> HIDE DEF c, s
<1> DEFINE seed == <<"client", "server">>
           exported == <<Secret(pair, Said(conn)), Suite(pair), seed>>
<1>9. ExportKeyingMaterial(c) = IF c.local_epoch = 1 THEN exported ELSE <<>>
  <2>1. CASE c.local_epoch = 1
    <3>1. HasKeys(c)
      BY <1>8, <2>1
    <3>2. c.suite = Suite(pair) /\ Suite(pair) # None /\ c.master = Secret(pair, Said(conn))
      BY <1>3, <1>4, <1>7, <3>1
    <3> QED
      BY <1>6, <2>1, <3>2 DEF ExportKeyingMaterial, Peer
  <2>2. CASE c.local_epoch # 1
    <3>1. c.local_epoch = 0
      BY <1>8, <2>2
    <3> QED
      BY <2>2, <3>1 DEF ExportKeyingMaterial
  <2> QED
    BY <2>1, <2>2
<1>10. ExportKeyingMaterial(s) = IF s.local_epoch = 1 THEN exported ELSE <<>>
  <2>1. CASE s.local_epoch = 1
    <3>1. HasKeys(s)
      BY <1>8, <2>1
    <3>2. s.suite = Suite(pair) /\ Suite(pair) # None /\ s.master = Secret(pair, Said(conn))
      BY <1>3, <1>5, <1>7, <3>1
    <3> QED
      BY <1>6, <2>1, <3>2 DEF ExportKeyingMaterial, Peer
  <2>2. CASE s.local_epoch # 1
    <3>1. s.local_epoch = 0
      BY <1>8, <2>2
    <3> QED
      BY <2>2, <3>1 DEF ExportKeyingMaterial
  <2> QED
    BY <2>1, <2>2
<1>11. exported # <<>>
  OBVIOUS
<1> HIDE DEF exported
<1>12. ASSUME HasKeys(c) /\ HasKeys(s)
       PROVE  /\ c.master = s.master
              /\ <<c.suite, c.srtp, c.ems, c.keypair>> = <<s.suite, s.srtp, s.ems, s.keypair>>
              /\ c.srtp = FirstCommon(c.config.srtp, ToSet(s.config.srtp))
  <2>1. c.ems = s.ems
    BY <1>4, <1>5, <1>6, <1>12
  <2>2. c.srtp = Srtp(pair) /\ c.srtp = s.srtp /\ c.suite = s.suite /\ c.keypair = s.keypair /\ c.master = s.master
    BY <1>3, <1>4, <1>5, <1>12
  <2> QED
    BY <1>6, <2>1, <2>2 DEF Srtp
<1>13. ASSUME NEW x \in Sides, Finished(x)
       PROVE  /\ ExportKeyingMaterial(conn[x]) # <<>>
              /\ ExportKeyingMaterial(conn[Peer(x)]) \in {<<>>, ExportKeyingMaterial(conn[x])}
  <2>1. CASE x = "client"
    BY <1>8, <1>9, <1>10, <1>11, <1>13, <2>1, TwoSides DEF c, s, Finished
  <2>2. CASE x = "server"
    BY <1>8, <1>9, <1>10, <1>11, <1>13, <2>2, TwoSides DEF c, s, Finished
  <2> QED
    BY <2>1, <2>2, TwoSides
<1> QED
  BY <1>12, <1>13 DEF OneSecret, c, s

\* The client ends behind the server, the server with the certificate it asked for.
LEMMA OrderFollows == IInv => ClientFinishesLast
<1> SUFFICES ASSUME IInv PROVE ClientFinishesLast
  OBVIOUS
<1>1. Inv(pair, conn, net)
  BY DEF IInv
<1>2. Finished("client") => Finished("server")
  <2> SUFFICES ASSUME Finished("client") PROVE Finished("server")
    OBVIOUS
  <2>1. PICK m \in Got("client", conn["client"]) : m.typ = "Finished"
    BY <1>1, TwoRecords DEF ClientChose, Finished
  <2>2. m \in Sent("server", conn["server"])
    BY <1>1, <2>1, TwoSides, TakenIsMade
  <2> QED
    BY <1>1, <2>1, <2>2, TwoRecords DEF ServerMade, Finished
<1>3. ASSUME Finished("server")
      PROVE  /\ HasKeys(conn["client"])
             /\ conn["server"].peer_cert = IF pair.server.auth # NoClientCert THEN pair.client.cert ELSE None
  <2>1. /\ HasKeys(conn["server"])
        /\ conn["server"].peer_cert = IF Asked(pair) THEN pair["client"].cert ELSE None
    BY <1>1, <1>3, TwoRecords DEF ServerChose, Finished
  <2> QED
    BY <1>1, <2>1, ClientHasKeys DEF Asked
<1> QED
  BY <1>2, <1>3 DEF ClientFinishesLast

\* Nothing is taken for encrypted too early.
LEMMA EpochFollows == IInv => EpochIsBacked
<1> SUFFICES ASSUME IInv, NEW s \in Sides, conn[s].remote_epoch = 1
             PROVE  /\ HasKeys(conn[s])
                    /\ conn[Peer(s)].local_epoch = 1
                    /\ conn[Peer(s)].master = conn[s].master
  BY DEF EpochIsBacked
<1>1. HasKeys(conn[s]) /\ conn[Peer(s)].local_epoch = 1
  BY DEF IInv, Inv, Side, Taken
<1>2. HasKeys(conn[Peer(s)])
  BY <1>1, TwoSides DEF IInv, Inv, Side, Own
<1> QED
  BY <1>1, <1>2, TwoSides DEF IInv, Inv, Keyed

--------------------------------------------------------------------------------
(* The beginning, and how a step is framed *)

\* No records, no messages.
LEMMA NoMessages == Messages(<<>>) = {}
<1>1. ToSet(<<>>) = {}
  BY DEF ToSet
<1> QED
  BY <1>1 DEF Messages

\* A new connection has the fields of one.
LEMMA NewConnIs ==
  ASSUME NEW s \in Sides, NEW config
  PROVE  IsConn(NewConn(s, config))
BY DEF IsConn, NewConn, Fields

\* The invariant holds when nothing has been said.
LEMMA Beginning == Init => IInv
<1> SUFFICES ASSUME Init PROVE Inv(pair, conn, net)
  BY DEF IInv
<1>1. /\ pair \in Pairs /\ net = {} /\ conn = [s \in Sides |-> conn[s]]
      /\ \A s \in Sides : conn[s] = NewConn(s, pair[s])
  BY DEF Init
<1>2. ASSUME NEW s \in Sides
      PROVE  /\ Side(pair, s, conn[s], conn[Peer(s)])
             /\ ~HasKeys(conn[s])
  <2> DEFINE c == conn[s]
  <2>1. c = NewConn(s, pair[s])
    BY <1>1
  <2>2. /\ c.role = s /\ c.config = pair[s] /\ c.flight = (IF s = "client" THEN 1 ELSE 0)
        /\ c.fsm = "preparing" /\ c.packets = <<>> /\ c.queue = <<>> /\ c.cache = {}
        /\ c.fragments = {} /\ c.next = 0 /\ c.send_seq = 0 /\ c.local_epoch = 0 /\ c.remote_epoch = 0
        /\ c.reader = "up" /\ c.rendezvous = FALSE /\ c.ems = FALSE /\ c.requested = FALSE
        /\ c.keypair = None /\ c.peer_cert = None /\ c.master = <<>>
    BY <2>1 DEF NewConn
  <2>3. IsConn(c)
    BY <2>1, NewConnIs
  <2> HIDE DEF c
  <2>4. Made(s, c) = {} /\ Sent(s, c) = {} /\ Got(s, c) = {} /\ ToSet(<<>>) = {} /\ ~HasKeys(c)
    BY <2>2, NoMessages DEF Made, Sent, Got, ToSet, HasKeys
  <2>5. Typed(pair, s, c)
    <3>1. IsFiniteSet(c.fragments)
      BY <2>2, FS_EmptySet
    <3>2. c.packets \in Seq(ToSet(c.packets)) /\ c.queue \in Seq(ToSet(c.queue))
      <4>1. \A S : <<>> \in Seq(S)
        OBVIOUS
      <4> QED
        BY <2>2, <4>1
    <3>3. c.rendezvous \in BOOLEAN /\ c.ems \in BOOLEAN /\ c.requested \in BOOLEAN
      BY <2>2
    <3>4. c.flight \in (IF s = "client" THEN {1, 3, 5} ELSE {0, 2, 4, 6})
      BY <2>2
    <3>5. c.fsm \in {"preparing", "sending", "waiting", "finished", "failed"} /\ c.reader \in {"up", "gone"}
      BY <2>2
    <3>6. /\ c.local_epoch \in 0 .. 1 /\ c.remote_epoch \in 0 .. 1
          /\ c.send_seq \in Nat /\ c.next \in Nat /\ c.role = s /\ c.config = pair[s]
          /\ \A m \in c.cache : m.from \in Sides
      BY <2>2
    <3> QED
      BY <2>3, <3>1, <3>2, <3>3, <3>4, <3>5, <3>6 DEF Typed
  <2>6. Own(s, c)
    BY <2>2, <2>4, NoMessages DEF Own
  <2>7. Taken(s, c, conn[Peer(s)])
    BY <2>2, <2>4 DEF Taken
  <2>8. s = "client" => ClientMade(pair, c) /\ ClientChose(pair, c)
    BY <2>2, <2>4 DEF ClientMade, ClientChose
  <2>9. s = "server" => ServerMade(pair, c) /\ ServerChose(pair, c)
    BY <2>2, <2>4 DEF ServerMade, ServerChose
  <2>10. Side(pair, s, c, conn[Peer(s)]) /\ ~HasKeys(c)
    BY <2>4, <2>5, <2>6, <2>7, <2>8, <2>9 DEF Side
  <2> QED
    BY <2>10 DEF c
<1> QED
  BY <1>1, <1>2 DEF Inv, Keyed

\* What one side does, its peer can only gain from: it has not said less, and its epoch
\* does not end.
LEMMA PeerGains ==
  ASSUME NEW s \in Sides, NEW c, NEW p, NEW q, Taken(s, c, p),
         Sent(Peer(s), p) \subseteq Sent(Peer(s), q), p.local_epoch = 1 => q.local_epoch = 1
  PROVE  Taken(s, c, q)
BY DEF Taken, Genuine

\* A step of one side keeps the invariant if it keeps what the invariant says of that
\* side, of what arrives, and of the keys.
LEMMA Advance ==
  ASSUME NEW P, NEW K, NEW N, NEW M, Inv(P, K, N), NEW s \in Sides, NEW c,
         Side(P, s, c, K[Peer(s)]),
         Sent(s, K[s]) \subseteq Sent(s, c), K[s].local_epoch = 1 => c.local_epoch = 1,
         \A d \in M : d \in N \/ Arrives(P, d, [K EXCEPT ![s] = c]),
         Keyed(P, [K EXCEPT ![s] = c])
  PROVE  Inv(P, [K EXCEPT ![s] = c], M)
<1> DEFINE L == [K EXCEPT ![s] = c]
<1>1. /\ K = [x \in Sides |-> K[x]] /\ P \in Pairs
      /\ \A x \in Sides : Side(P, x, K[x], K[Peer(x)])
      /\ \A d \in N : Arrives(P, d, K)
  BY DEF Inv
<1>2. L = [x \in Sides |-> L[x]] /\ L[s] = c /\ \A x \in Sides : x # s => L[x] = K[x]
  BY <1>1
<1> HIDE DEF L
<1>3. ASSUME NEW x \in Sides PROVE Side(P, x, L[x], L[Peer(x)])
  <2>1. CASE x = s
    BY <1>2, <2>1, TwoSides
  <2>2. CASE x # s
    <3>1. Peer(x) = s /\ L[x] = K[x]
      BY <1>2, <2>2, TwoSides
    <3>2. Side(P, x, K[x], K[s])
      BY <1>1, <3>1
    <3>3. Taken(x, K[x], c)
      BY <3>1, <3>2, PeerGains DEF Side
    <3> QED
      BY <1>2, <3>1, <3>2, <3>3 DEF Side
  <2> QED
    BY <2>1, <2>2
<1>4. ASSUME NEW d \in N PROVE Arrives(P, d, L)
  <2>1. Arrives(P, d, K)
    BY <1>1
  <2>2. d.to \in Sides /\ Peer(d.to) \in Sides
    BY <2>1, TwoSides DEF Arrives
  <2>3. CASE Peer(d.to) = s
    BY <1>2, <2>1, <2>3 DEF Arrives, Genuine
  <2>4. CASE Peer(d.to) # s
    <3>1. L[Peer(d.to)] = K[Peer(d.to)]
      BY <1>2, <2>2, <2>4
    <3> QED
      BY <2>1, <3>1 DEF Arrives
  <2> QED
    BY <2>3, <2>4
<1>5. \A d \in M : Arrives(P, d, L)
  BY <1>4 DEF L
<1>6. Keyed(P, L)
  BY DEF L
<1>7. Inv(P, L, M)
  BY <1>1, <1>2, <1>3, <1>5, <1>6 DEF Inv
<1> QED
  BY <1>7 DEF L

\* What both have said, after a step of one.
LEMMA SaidThen ==
  ASSUME NEW P, NEW K, NEW N, Inv(P, K, N), NEW s \in Sides, NEW c
  PROVE  Said([K EXCEPT ![s] = c]) = Made(s, c) \cup Made(Peer(s), K[Peer(s)])
<1>1. K = [x \in Sides |-> K[x]]
  BY DEF Inv
<1>2. [K EXCEPT ![s] = c][s] = c /\ \A x \in Sides : x # s => [K EXCEPT ![s] = c][x] = K[x]
  BY <1>1
<1>3. CASE s = "client"
  BY <1>2, <1>3, TwoSides DEF Said
<1>4. CASE s = "server"
  BY <1>2, <1>4, TwoSides DEF Said
<1> QED
  BY <1>3, <1>4, TwoSides

\* Who says nothing and gets no keys leaves the keys alone.
LEMMA KeysStay ==
  ASSUME NEW P, NEW K, NEW N, Inv(P, K, N), NEW s \in Sides, NEW c,
         Made(s, c) = Made(s, K[s]), c.master = K[s].master
  PROVE  Keyed(P, [K EXCEPT ![s] = c])
<1> DEFINE L == [K EXCEPT ![s] = c]
<1>1. K = [x \in Sides |-> K[x]] /\ Keyed(P, K)
  BY DEF Inv
<1>2. L[s] = c /\ \A x \in Sides : x # s => L[x] = K[x]
  BY <1>1
<1>3. Said(L) = Said(K)
  <2>1. Said(L) = Made(s, K[s]) \cup Made(Peer(s), K[Peer(s)])
    BY SaidThen
  <2>2. CASE s = "client"
    BY <2>1, <2>2, TwoSides DEF Said
  <2>3. CASE s = "server"
    BY <2>1, <2>3, TwoSides DEF Said
  <2> QED
    BY <2>2, <2>3, TwoSides
<1>4. \A x \in Sides : L[x].master = K[x].master
  BY <1>2
<1> HIDE DEF L
<1>5. Keyed(P, L)
  BY <1>1, <1>3, <1>4 DEF Keyed, HasKeys
<1> QED
  BY <1>5 DEF L

--------------------------------------------------------------------------------
(* Steps that say nothing new *)

\* One record is the other but for the fields in moved.
Same(c, d, moved) == IsConn(d) /\ \A f \in Fields \ moved : d[f] = c[f]

\* What the handshake task changes without sending or reading anything.
ChoiceFields ==
    {"flight", "fsm", "recv_seq", "cookie", "suite", "srtp", "ems", "curve", "keypair",
     "requested", "peer_cert", "verified", "pre_master", "reader", "rendezvous"}

\* What a choice leaves alone.
LEMMA ChoicesKeep ==
  ASSUME NEW c, NEW d, Same(c, d, ChoiceFields)
  PROVE  /\ IsConn(d) /\ d.role = c.role /\ d.config = c.config /\ d.packets = c.packets
         /\ d.send_seq = c.send_seq /\ d.local_epoch = c.local_epoch
         /\ d.remote_epoch = c.remote_epoch /\ d.master = c.master /\ d.cache = c.cache
         /\ d.fragments = c.fragments /\ d.next = c.next /\ d.queue = c.queue
<1>1. /\ "role" \notin ChoiceFields /\ "config" \notin ChoiceFields /\ "packets" \notin ChoiceFields
      /\ "send_seq" \notin ChoiceFields /\ "local_epoch" \notin ChoiceFields
      /\ "remote_epoch" \notin ChoiceFields
      /\ "master" \notin ChoiceFields /\ "cache" \notin ChoiceFields /\ "fragments" \notin ChoiceFields
      /\ "next" \notin ChoiceFields /\ "queue" \notin ChoiceFields
  BY DEF ChoiceFields
<1> QED
  BY <1>1, FieldNames DEF Same

\* The fields whose types a choice may change.
ChoiceTypes(s, d) ==
    /\ d.flight \in IF s = "client" THEN {1, 3, 5} ELSE {0, 2, 4, 6}
    /\ d.fsm \in {"preparing", "sending", "waiting", "finished", "failed"}
    /\ d.reader \in {"up", "gone"} /\ d.rendezvous \in BOOLEAN
    /\ d.ems \in BOOLEAN /\ d.requested \in BOOLEAN

\* A choice says nothing new and takes nothing.
LEMMA QuietSide ==
  ASSUME NEW P, NEW s \in Sides, NEW c, NEW p, NEW d, Side(P, s, c, p), c.fsm # "sending",
         Same(c, d, ChoiceFields), ChoiceTypes(s, d)
  PROVE  /\ Typed(P, s, d) /\ Own(s, d) /\ Taken(s, d, p)
         /\ Made(s, d) = Made(s, c) /\ Sent(s, d) = Sent(s, c) /\ Got(s, d) = Got(s, c)
         /\ HasKeys(d) <=> HasKeys(c)
         /\ s = "client" => ClientMade(P, d)
<1>1. /\ IsConn(d) /\ d.role = c.role /\ d.config = c.config /\ d.packets = c.packets
      /\ d.send_seq = c.send_seq /\ d.local_epoch = c.local_epoch
      /\ d.remote_epoch = c.remote_epoch /\ d.master = c.master /\ d.cache = c.cache
      /\ d.fragments = c.fragments /\ d.next = c.next /\ d.queue = c.queue
  BY ChoicesKeep
<1>2. /\ Made(s, d) = Made(s, c) /\ Sent(s, d) = Sent(s, c) /\ Got(s, d) = Got(s, c)
      /\ HasKeys(d) <=> HasKeys(c)
  BY <1>1 DEF Made, Sent, Got, HasKeys
<1>3. Typed(P, s, d)
  <2>1. Typed(P, s, c)
    BY DEF Side
  <2> QED
    BY <1>1, <2>1 DEF Typed, ChoiceTypes
<1>4. Own(s, d)
  BY <1>1, <1>2 DEF Side, Own
<1>5. Taken(s, d, p)
  BY <1>1, <1>2 DEF Side, Taken
<1>6. s = "client" => ClientMade(P, d)
  BY <1>2 DEF Side, ClientMade
<1> QED
  BY <1>2, <1>3, <1>4, <1>5, <1>6

\* An alert says nothing.
LEMMA AlertArrives ==
  ASSUME NEW P \in Pairs, NEW K, NEW c, c.role \in Sides
  PROVE  Arrives(P, AlertDatagram(c), K)
<1> DEFINE d == AlertDatagram(c)
           r == AlertRecord(c)
<1>1. d.to = Peer(c.role) /\ d.records = <<r>>
  BY DEF AlertDatagram
<1>2. r.content = "alert"
  BY DEF AlertRecord
<1> HIDE DEF d, r
<1>3. ToSet(<<r>>) = {r} /\ <<r>> \in Seq({r}) /\ Len(<<r>>) = 1
  BY DEF ToSet
<1>4. P.size \in Nat \ {0}
  BY PairsAssumption
<1>5. Arrives(P, d, K)
  BY <1>1, <1>2, <1>3, <1>4, TwoSides DEF Arrives, Genuine
<1> QED
  BY <1>5 DEF d

\* A choice that follows the configurations keeps the invariant.
LEMMA QuietStep ==
  ASSUME NEW P, NEW K, NEW N, NEW M, Inv(P, K, N), NEW s \in Sides, NEW d,
         K[s].fsm # "sending", Same(K[s], d, ChoiceFields), ChoiceTypes(s, d),
         s = "client" => ClientChose(P, d),
         s = "server" => ServerMade(P, d) /\ ServerChose(P, d),
         \A x \in M : x \in N \/ x = AlertDatagram(d)
  PROVE  Inv(P, [K EXCEPT ![s] = d], M)
<1>1. Side(P, s, K[s], K[Peer(s)]) /\ P \in Pairs
  BY DEF Inv
<1>2. /\ Typed(P, s, d) /\ Own(s, d) /\ Taken(s, d, K[Peer(s)])
      /\ Made(s, d) = Made(s, K[s]) /\ Sent(s, d) = Sent(s, K[s])
      /\ s = "client" => ClientMade(P, d)
  BY <1>1, QuietSide
<1>3. Side(P, s, d, K[Peer(s)])
  BY <1>2 DEF Side
<1>4. d.role = s /\ d.local_epoch = K[s].local_epoch /\ d.master = K[s].master
  BY <1>2, ChoicesKeep DEF Typed
<1>5. \A x \in M : x \in N \/ Arrives(P, x, [K EXCEPT ![s] = d])
  BY <1>1, <1>4, AlertArrives
<1>6. Keyed(P, [K EXCEPT ![s] = d])
  BY <1>2, <1>4, KeysStay
<1> QED
  BY <1>2, <1>3, <1>4, <1>5, <1>6, Advance

\* The timer, and the end of the reader.
LEMMA WaitEnds ==
  ASSUME NEW P, NEW K, NEW N, Inv(P, K, N), NEW s \in Sides, K[s].fsm = "waiting",
         NEW fsm \in {"sending", "failed"}
  PROVE  Inv(P, [K EXCEPT ![s].fsm = fsm], N)
<1> DEFINE c == K[s]
           d == [c EXCEPT !.fsm = fsm]
<1>1. Side(P, s, c, K[Peer(s)]) /\ Typed(P, s, c)
  BY DEF Inv, Side
<1>2. IsConn(c)
  BY <1>1 DEF Typed
<1>3. IsConn(d) /\ d.fsm = fsm /\ \A f \in Fields : f # "fsm" => d[f] = c[f]
  BY <1>2, FieldNames DEF IsConn
<1>4. Same(c, d, ChoiceFields)
  <2>1. "fsm" \in ChoiceFields
    BY DEF ChoiceFields
  <2> HIDE DEF c, d
  <2> QED
    BY <1>3, <2>1 DEF Same
<1>5. /\ d.flight = c.flight /\ d.reader = c.reader /\ d.rendezvous = c.rendezvous
      /\ d.ems = c.ems /\ d.requested = c.requested /\ d.suite = c.suite /\ d.srtp = c.srtp
      /\ d.keypair = c.keypair /\ d.pre_master = c.pre_master /\ d.curve = c.curve
      /\ d.cookie = c.cookie /\ d.peer_cert = c.peer_cert
  <2> HIDE DEF c, d
  <2> QED
    BY <1>3, FieldNames
<1> HIDE DEF d
<1>6. ChoiceTypes(s, d)
  BY <1>1, <1>3, <1>5 DEF Typed, ChoiceTypes
<1>7. /\ Made(s, d) = Made(s, c) /\ Sent(s, d) = Sent(s, c) /\ Got(s, d) = Got(s, c)
      /\ HasKeys(d) <=> HasKeys(c)
  BY <1>1, <1>4, <1>6, QuietSide
<1>8. s = "client" => ClientChose(P, d)
  <2> SUFFICES ASSUME s = "client" PROVE ClientChose(P, d)
    OBVIOUS
  <2>1. ClientChose(P, c)
    BY <1>1 DEF Side
  <2>2. d.local_epoch = c.local_epoch
    BY <1>4, ChoicesKeep
  <2> HIDE DEF c
  <2> QED
    BY <1>3, <1>5, <1>7, <2>1, <2>2 DEF ClientChose, c
<1>9. s = "server" => ServerMade(P, d) /\ ServerChose(P, d)
  <2> SUFFICES ASSUME s = "server" PROVE ServerMade(P, d) /\ ServerChose(P, d)
    OBVIOUS
  <2>1. ServerMade(P, c) /\ ServerChose(P, c)
    BY <1>1 DEF Side
  <2>2. d.local_epoch = c.local_epoch /\ c.fsm = "waiting"
    BY <1>4, ChoicesKeep
  <2> HIDE DEF c
  <2>3. c.flight # 6
    BY <2>1, <2>2 DEF ServerChose
  <2>4. ServerMade(P, d)
    BY <1>3, <1>5, <1>7, <2>1, <2>2 DEF ServerMade
  <2>5. ServerChose(P, d)
    BY <1>3, <1>5, <1>7, <2>1, <2>2, <2>3 DEF ServerChose
  <2> QED
    BY <2>4, <2>5
<1>10. Inv(P, [K EXCEPT ![s] = d], N)
  BY <1>4, <1>6, <1>8, <1>9, QuietStep
<1>11. [K EXCEPT ![s].fsm = fsm] = [K EXCEPT ![s] = d]
  BY DEF d
<1> QED
  BY <1>10, <1>11

--------------------------------------------------------------------------------
(* Sending *)

\* What is pushed is there, when messages with the same number are the same.
LEMMA PushesAll ==
  ASSUME NEW s \in Sides, NEW c, Own(s, c)
  PROVE  PushAll(c.cache, Messages(c.packets)) = c.cache \cup Messages(c.packets)
<1>1. ASSUME NEW m \in Messages(c.packets), NEW i \in c.cache, i.seq = m.seq, i.from = m.from
      PROVE  i = m
  <2>1. m \in Made(s, c) /\ m.from = s
    BY DEF Own, Made
  <2>2. i \in Made(s, c)
    BY <1>1, <2>1 DEF Made, Sent
  <2> QED
    BY <1>1, <2>1, <2>2 DEF Own
<1> QED
  BY <1>1 DEF PushAll

\* The records of a datagram are records of the flight.
LEMMA DatagramIsCut ==
  ASSUME NEW c, NEW size \in Nat \ {0}, c.packets \in Seq(ToSet(c.packets)),
         NEW d \in Datagrams(c, size)
  PROVE  /\ d.to = Peer(c.role)
         /\ d.records \in Seq(ToSet(d.records)) /\ Len(d.records) \in 1 .. size
         /\ ToSet(d.records) \subseteq ToSet(c.packets)
<1> DEFINE q == c.packets
           S == ToSet(c.packets)
<1>1. PICK i \in 1 .. Len(q) :
        /\ (i - 1) * size < Len(q)
        /\ d = [to |-> Peer(c.role), flight |-> c.flight, part |-> i,
                records |-> SubSeq(q, (i - 1) * size + 1, IF i * size < Len(q) THEN i * size ELSE Len(q))]
  BY DEF Datagrams
<1> DEFINE a == (i - 1) * size
           e == IF i * size < Len(q) THEN i * size ELSE Len(q)
<1>2. a \in Nat /\ i * size = a + size /\ Len(q) \in Nat
  <2>1. i - 1 \in Nat
    OBVIOUS
  <2>2. (i - 1) * size + size = i * size
    BY <2>1
  <2>3. (i - 1) * size \in Nat
    BY <2>1
  <2> QED
    BY <2>2, <2>3
<1>3. d.to = Peer(c.role) /\ d.records = SubSeq(q, a + 1, e) /\ a < Len(q) /\ q \in Seq(S)
  BY <1>1
<1> HIDE DEF a, q, S
<1>4. e \in Nat /\ e <= Len(q) /\ a + 1 <= e /\ e <= a + size
  BY <1>2, <1>3
<1> HIDE DEF e
<1>5. a + 1 \in 1 .. Len(q) + 1 /\ e \in (a + 1) - 1 .. Len(q) /\ (e - (a + 1)) + 1 = e - a /\ e - a \in 1 .. size
  BY <1>2, <1>3, <1>4
<1> DEFINE t == SubSeq(q, a + 1, e)
<1>6. t \in Seq(S) /\ Len(t) = e - a
  BY <1>2, <1>3, <1>4, <1>5
<1> HIDE DEF t
<1>7. ToSet(t) \subseteq S /\ t \in Seq(ToSet(t))
  <2>1. \A k \in 1 .. Len(t) : t[k] \in S /\ DOMAIN t = 1 .. Len(t)
    BY <1>6
  <2>2. t = [k \in 1 .. Len(t) |-> t[k]] /\ Len(t) \in Nat
    BY <1>6
  <2>3. \A k \in 1 .. Len(t) : t[k] \in ToSet(t)
    BY <1>6 DEF ToSet
  <2>4. t \in Seq(ToSet(t))
    BY <2>2, <2>3
  <2>5. ToSet(t) \subseteq S
    BY <1>6 DEF ToSet
  <2> QED
    BY <2>4, <2>5
<1> QED
  BY <1>3, <1>5, <1>6, <1>7 DEF t, S

AfterSend(c) ==
    [c EXCEPT !.cache = PushAll(@, Messages(c.packets)),
              !.fsm = IF IsLastSendFlight(c) THEN "finished" ELSE "waiting",
              !.rendezvous = @ /\ ~IsLastSendFlight(c)]

\* Sending puts a flight into its sender's cache and on its way, and keeps the invariant.
LEMMA SendKeeps ==
  ASSUME NEW P, NEW K, NEW N, NEW M, Inv(P, K, N), NEW s \in Sides, K[s].fsm = "sending",
         M \subseteq N \cup Datagrams(K[s], P.size), NEW d,
         d = AfterSend(K[s])
  PROVE  Inv(P, [K EXCEPT ![s] = d], M)
<1> DEFINE c == K[s]
           p == K[Peer(s)]
<1>1. /\ P \in Pairs /\ K = [x \in Sides |-> K[x]]
      /\ Side(P, s, c, p) /\ Typed(P, s, c) /\ Own(s, c) /\ Taken(s, c, p)
  BY DEF Inv, Side
<1>2. IsConn(c)
  BY <1>1 DEF Typed
<1>3. /\ IsConn(d) /\ d.cache = c.cache \cup Messages(c.packets)
      /\ d.fsm = (IF c.flight = 6 THEN "finished" ELSE "waiting")
      /\ d.rendezvous \in BOOLEAN
      /\ \A f \in Fields \ {"cache", "fsm", "rendezvous"} : d[f] = c[f]
  <2>1. PushAll(c.cache, Messages(c.packets)) = c.cache \cup Messages(c.packets)
    BY <1>1, PushesAll
  <2>2. c.rendezvous \in BOOLEAN
    BY <1>1 DEF Typed
  <2> QED
    BY <1>2, <2>1, <2>2, FieldNames DEF IsConn, IsLastSendFlight, AfterSend
<1>4. /\ d.role = c.role /\ d.config = c.config /\ d.flight = c.flight /\ d.packets = c.packets
      /\ d.send_seq = c.send_seq /\ d.local_epoch = c.local_epoch /\ d.remote_epoch = c.remote_epoch
      /\ d.cookie = c.cookie /\ d.suite = c.suite /\ d.srtp = c.srtp /\ d.ems = c.ems
      /\ d.curve = c.curve /\ d.keypair = c.keypair /\ d.requested = c.requested
      /\ d.peer_cert = c.peer_cert /\ d.pre_master = c.pre_master /\ d.master = c.master
      /\ d.reader = c.reader /\ d.fragments = c.fragments /\ d.next = c.next /\ d.queue = c.queue
  <2> HIDE DEF c
  <2> QED
    BY <1>3, FieldNames
<1> HIDE DEF c, p
<1>5. c.fsm = "sending"
  BY DEF c
<1>6. /\ \A m \in Messages(c.packets) : m.from = s
      /\ Peer(s) # s /\ s \in Sides
  BY <1>1, TwoSides DEF Own, Made
<1>7. Sent(s, d) = Made(s, c) /\ Made(s, d) = Made(s, c) /\ Got(s, d) = Got(s, c) /\ (HasKeys(d) <=> HasKeys(c))
  BY <1>3, <1>4, <1>6 DEF Sent, Made, Got, HasKeys
<1>8. Typed(P, s, d)
  <2>1. \A m \in d.cache : m.from \in Sides
    BY <1>1, <1>3, <1>6 DEF Typed
  <2> QED
    BY <1>1, <1>3, <1>4, <2>1 DEF Typed
<1>9. Own(s, d)
  <2>1. Messages(d.packets) \subseteq d.cache
    BY <1>3, <1>4
  <2> QED
    BY <1>1, <1>4, <1>7, <2>1 DEF Own
<1>10. Taken(s, d, p)
  BY <1>1, <1>4, <1>7 DEF Taken
<1>11. s = "client" => ClientMade(P, d) /\ ClientChose(P, d)
  <2> SUFFICES ASSUME s = "client" PROVE ClientMade(P, d) /\ ClientChose(P, d)
    OBVIOUS
  <2>1. ClientMade(P, c) /\ ClientChose(P, c) /\ c.flight \in {1, 3, 5}
    BY <1>1 DEF Side, Typed
  <2>2. ClientMade(P, d)
    BY <1>7, <2>1 DEF ClientMade
  <2>3. d.fsm = "waiting"
    BY <1>3, <2>1
  <2>4. ClientChose(P, d)
    BY <1>4, <1>5, <1>7, <2>1, <2>3 DEF ClientChose
  <2> QED
    BY <2>2, <2>4
<1>12. s = "server" => ServerMade(P, d) /\ ServerChose(P, d)
  <2> SUFFICES ASSUME s = "server" PROVE ServerMade(P, d) /\ ServerChose(P, d)
    OBVIOUS
  <2>1. ServerMade(P, c) /\ ServerChose(P, c)
    BY <1>1 DEF Side
  <2>2. ServerMade(P, d)
    BY <1>3, <1>4, <1>5, <1>7, <2>1 DEF ServerMade
  <2>3. ServerChose(P, d)
    BY <1>3, <1>4, <1>5, <1>7, <2>1 DEF ServerChose
  <2> QED
    BY <2>2, <2>3
<1>13. Side(P, s, d, p)
  BY <1>8, <1>9, <1>10, <1>11, <1>12 DEF Side
<1> DEFINE L == [K EXCEPT ![s] = d]
<1>14. L[s] = d
  BY <1>1
<1>15. ASSUME NEW x \in M PROVE x \in N \/ Arrives(P, x, L)
  <2> SUFFICES ASSUME x \in Datagrams(c, P.size) PROVE Arrives(P, x, L)
    BY DEF c
  <2>1. P.size \in Nat \ {0}
    BY <1>1, PairsAssumption
  <2>2. c.packets \in Seq(ToSet(c.packets)) /\ c.role = s
    BY <1>1 DEF Typed
  <2>3. /\ x.to = Peer(s)
        /\ x.records \in Seq(ToSet(x.records)) /\ Len(x.records) \in 1 .. P.size
        /\ ToSet(x.records) \subseteq ToSet(c.packets)
    BY <2>1, <2>2, DatagramIsCut
  <2>4. x.to \in Sides /\ Peer(x.to) = s
    BY <2>3, TwoSides
  <2>5. \A r \in ToSet(x.records) : Genuine(r, d.local_epoch, Sent(s, d))
    BY <1>1, <1>4, <1>7, <2>3 DEF Own
  <2> HIDE DEF L
  <2> QED
    BY <1>14, <2>3, <2>4, <2>5 DEF Arrives
<1>16. Keyed(P, L)
  BY <1>4, <1>7, KeysStay DEF c
<1>17. Sent(s, K[s]) \subseteq Sent(s, d) /\ (K[s].local_epoch = 1 => d.local_epoch = 1)
  BY <1>4, <1>7 DEF c, Made
<1> QED
  BY <1>13, <1>15, <1>16, <1>17, Advance DEF p

--------------------------------------------------------------------------------
(* Reading *)

\* Before complete messages come out a fragment may have the number that comes next.
Waits(s, c, p) ==
    /\ \A m \in c.fragments : m \in Sent(Peer(s), p) /\ m.seq >= c.next
    /\ \A m \in Got(s, c) : m \in Sent(Peer(s), p) /\ m.seq < c.next
    /\ \A n \in Nat : n < c.next => \E m \in Got(s, c) : m.seq = n
    /\ c.next \in Nat /\ IsFiniteSet(c.fragments)

\* As many fragments cannot have one number more than they are.
LEMMA OneIsMissing ==
  ASSUME NEW F, IsFiniteSet(F), NEW next \in Nat, \A f \in F : f.seq \in Nat
  PROVE  \E n \in next .. next + Cardinality(F) : \A f \in F : f.seq # n
<1> DEFINE k == Cardinality(F)
           T == {f.seq : f \in F}
           g == [f \in F |-> f.seq]
<1> SUFFICES ASSUME \A n \in next .. next + k : n \in T PROVE FALSE
  OBVIOUS
<1>1. k \in Nat
  BY FS_CardinalityType
<1>2. g \in Surjection(F, T)
  BY DEF Surjection
<1>3. IsFiniteSet(T) /\ Cardinality(T) <= k
  <2> HIDE DEF T, g
  <2> QED
    BY <1>2, FS_Surjection
<1>4. Cardinality(T) \in Nat
  <2> HIDE DEF T
  <2> QED
    BY <1>3, FS_CardinalityType
<1> HIDE DEF T, g, k
<1>5. next .. next + k \in SUBSET T
  OBVIOUS
<1>6. Cardinality(next .. next + k) <= Cardinality(T)
  BY <1>3, <1>5, FS_Subset
<1>7. Cardinality(next .. next + k) = k + 1
  <2>1. next \in Int /\ next + k \in Int /\ ~(next > next + k) /\ ((next + k) - next) + 1 = k + 1
    BY <1>1
  <2> QED
    BY <2>1, FS_Interval
<1> QED
  BY <1>1, <1>3, <1>4, <1>6, <1>7

\* What comes out of the fragment buffer.
LEMMA PopIs ==
  ASSUME NEW s \in Sides, NEW c, NEW p, Waits(s, c, p), Own(Peer(s), p), IsConn(c)
  PROVE  \E n \in Nat :
           /\ n >= c.next /\ \A f \in c.fragments : f.seq # n
           /\ \A k \in Nat : c.next <= k /\ k < n => \E f \in c.fragments : f.seq = k
           /\ PopFragments(c) =
                [c EXCEPT !.fragments = {f \in c.fragments : f.seq > n}, !.next = n,
                          !.cache = c.cache \cup {f \in c.fragments : f.seq < n}]
<1> DEFINE F == c.fragments
           I == {n \in c.next .. c.next + Cardinality(F) : \A f \in F : f.seq # n}
           n == Min(I)
           complete == {f \in F : f.seq < n}
<1>1. \A f \in F : f \in Sent(Peer(s), p) /\ f.seq \in Nat /\ f.from = Peer(s) /\ f.seq >= c.next
  BY DEF Waits, Own, Made
<1>2. c.next \in Nat /\ IsFiniteSet(F) /\ Cardinality(F) \in Nat
  BY FS_CardinalityType DEF Waits
<1>3. I # {}
  BY <1>1, <1>2, OneIsMissing
<1>4. I \in SUBSET Nat
  BY <1>2
<1>5. n \in I /\ \A j \in I : n <= j
  <2> HIDE DEF I
  <2> QED
    BY <1>3, <1>4, LeastIsMin
<1>6. n \in Nat /\ n >= c.next /\ n <= c.next + Cardinality(F) /\ \A f \in F : f.seq # n
  <2> HIDE DEF n
  <2> QED
    BY <1>2, <1>5
<1>7. \A k \in Nat : c.next <= k /\ k < n => \E f \in F : f.seq = k
  <2> SUFFICES ASSUME NEW k \in Nat, c.next <= k, k < n, \A f \in F : f.seq # k PROVE FALSE
    OBVIOUS
  <2>1. k \in c.next .. c.next + Cardinality(F)
    <3> HIDE DEF n
    <3> QED
      BY <1>2, <1>6
  <2>2. n <= k
    <3> HIDE DEF n
    <3> QED
      BY <1>5, <2>1
  <2> QED
    BY <1>6, <2>2
<1>8. PopFragments(c) =
        [c EXCEPT !.fragments = @ \ complete, !.next = n, !.cache = PushAll(@, complete)]
  BY DEF PopFragments
<1> HIDE DEF n
<1>9. F \ complete = {f \in F : f.seq > n}
  BY <1>1, <1>6
<1>10. PushAll(c.cache, complete) = c.cache \cup complete
  <2>1. ASSUME NEW m \in complete, NEW i \in c.cache, i.seq = m.seq, i.from = m.from PROVE FALSE
    <3>1. i \in Got(s, c)
      BY <1>1, <2>1 DEF Got
    <3>2. i.seq < c.next /\ m.seq >= c.next /\ i.seq \in Nat
      BY <1>1, <2>1, <3>1 DEF Waits
    <3> QED
      BY <1>2, <2>1, <3>2
  <2> QED
    BY <2>1 DEF PushAll
<1>11. PopFragments(c) =
         [c EXCEPT !.fragments = {f \in F : f.seq > n}, !.next = n, !.cache = c.cache \cup complete]
  BY <1>8, <1>9, <1>10
<1> QED
  BY <1>6, <1>7, <1>11

\* What the reader changes.
Moving == {"fragments", "next", "cache", "queue", "remote_epoch"}

\* What reading leaves alone.
LEMMA MovingKeeps ==
  ASSUME NEW c, NEW d, Same(c, d, Moving)
  PROVE  /\ IsConn(d) /\ d.role = c.role /\ d.config = c.config /\ d.flight = c.flight
         /\ d.fsm = c.fsm /\ d.packets = c.packets /\ d.send_seq = c.send_seq
         /\ d.recv_seq = c.recv_seq /\ d.local_epoch = c.local_epoch /\ d.cookie = c.cookie
         /\ d.suite = c.suite /\ d.srtp = c.srtp /\ d.ems = c.ems /\ d.curve = c.curve
         /\ d.keypair = c.keypair /\ d.requested = c.requested /\ d.peer_cert = c.peer_cert
         /\ d.verified = c.verified /\ d.pre_master = c.pre_master /\ d.master = c.master
         /\ d.reader = c.reader /\ d.rendezvous = c.rendezvous
<1>1. Fields \ Moving =
        {"role", "config", "flight", "fsm", "packets", "send_seq", "recv_seq", "local_epoch",
         "cookie", "suite", "srtp", "ems", "curve", "keypair", "requested", "peer_cert",
         "verified", "pre_master", "master", "reader", "rendezvous"}
  BY DEF Fields, Moving
<1> QED
  BY <1>1 DEF Same

\* A connection that the reader has made of another one with the records in Q.
ReadOn(s, c, p, Q, d) ==
    /\ Same(c, d, Moving) /\ Taken(s, d, p)
    /\ d.next \in Nat /\ d.remote_epoch \in 0 .. 1 /\ IsFiniteSet(d.fragments)
    /\ d.queue \in Seq(Q)
    /\ Sent(s, d) = Sent(s, c) /\ Got(s, c) \subseteq Got(s, d)
    /\ \A m \in d.cache : m.from \in Sides

\* A side that has taken, or holds back, a message of its peer.
HeardOne(c) == c.next > 0 \/ c.fragments # {}

\* A message goes into the fragment buffer, and what is complete comes out.
LEMMA TakesMessage ==
  ASSUME NEW s \in Sides, NEW c, NEW p, NEW Q, NEW d, ReadOn(s, c, p, Q, d),
         Own(Peer(s), p), NEW m \in Sent(Peer(s), p)
  PROVE  /\ ReadOn(s, c, p, Q, PopFragments(PushFragment(d, m)))
         /\ HeardOne(PopFragments(PushFragment(d, m)))
<1> DEFINE e == PushFragment(d, m)
<1>1. Same(c, d, Moving) /\ Taken(s, d, p) /\ IsConn(d) /\ d.next \in Nat /\ IsFiniteSet(d.fragments)
  BY DEF ReadOn, Same
<1>2. \A f \in Sent(Peer(s), p) : f.seq \in Nat /\ f.from = Peer(s)
  BY DEF Own, Made
<1>3. \/ e = d
      \/ m.seq >= d.next /\ e = [d EXCEPT !.fragments = @ \cup {m}]
  BY <1>1, <1>2 DEF PushFragment
<1>4. /\ IsConn(e) /\ e.fragments \subseteq d.fragments \cup {m} /\ IsFiniteSet(e.fragments)
      /\ \A f \in e.fragments : f \in d.fragments \/ (f = m /\ m.seq >= d.next)
      /\ \A f \in Fields \ {"fragments"} : e[f] = d[f]
  <2>1. CASE e = d
    BY <1>1, <2>1
  <2>2. CASE m.seq >= d.next /\ e = [d EXCEPT !.fragments = @ \cup {m}]
    <3>1. IsFiniteSet(d.fragments \cup {m})
      BY <1>1, FS_AddElement
    <3> HIDE DEF e
    <3> QED
      BY <1>1, <2>2, <3>1, FieldNames DEF IsConn
  <2> QED
    BY <1>3, <2>1, <2>2
<1>17. m.seq < e.next \/ e.fragments # {}
  BY <1>1, <1>3, <1>4, FieldNames DEF PushFragment, IsConn
<1> HIDE DEF e
<1>5. e.next = d.next /\ e.cache = d.cache /\ e.queue = d.queue /\ e.remote_epoch = d.remote_epoch
      /\ e.master = d.master
  BY <1>4, FieldNames
<1>6. Waits(s, e, p)
  <2>1. \A f \in e.fragments : f \in Sent(Peer(s), p) /\ f.seq >= e.next
    BY <1>1, <1>2, <1>4, <1>5 DEF Taken
  <2>2. Got(s, e) = Got(s, d)
    BY <1>5 DEF Got
  <2> QED
    BY <1>1, <1>4, <1>5, <2>1, <2>2 DEF Waits, Taken
<1>7. PICK n \in Nat :
        /\ n >= e.next /\ \A f \in e.fragments : f.seq # n
        /\ \A k \in Nat : e.next <= k /\ k < n => \E f \in e.fragments : f.seq = k
        /\ PopFragments(e) =
             [e EXCEPT !.fragments = {f \in e.fragments : f.seq > n}, !.next = n,
                       !.cache = e.cache \cup {f \in e.fragments : f.seq < n}]
  BY <1>4, <1>6, PopIs
<1> DEFINE g == PopFragments(e)
           out == {f \in e.fragments : f.seq < n}
<1>8. /\ IsConn(g) /\ g.fragments = {f \in e.fragments : f.seq > n} /\ g.next = n
      /\ g.cache = e.cache \cup out
      /\ \A f \in Fields \ {"fragments", "next", "cache"} : g[f] = e[f]
  BY <1>4, <1>7, FieldNames DEF IsConn
<1> HIDE DEF g
<1>9. /\ g.queue = d.queue /\ g.remote_epoch = d.remote_epoch /\ g.master = d.master
  BY <1>5, <1>8, FieldNames
<1>10. Same(c, g, Moving)
  <2>1. \A f \in Fields \ Moving : f \notin {"fragments", "next", "cache"}
    BY DEF Moving
  <2>2. \A f \in Fields \ Moving : g[f] = c[f]
    BY <1>1, <1>4, <1>8, <2>1 DEF Same
  <2> QED
    BY <1>8, <2>2 DEF Same
<1>11. \A f \in out : f \in Sent(Peer(s), p) /\ f.from = Peer(s) /\ f.seq \in Nat
  BY <1>2, <1>6 DEF Waits
<1>12. Sent(s, g) = Sent(s, d) /\ Got(s, g) = Got(s, d) \cup out
  BY <1>5, <1>8, <1>11, TwoSides DEF Sent, Got
<1>13. Taken(s, g, p)
  <2>1. \A f \in g.fragments : f \in Sent(Peer(s), p) /\ f.seq > g.next
    BY <1>6, <1>8 DEF Waits
  <2>2. \A f \in Got(s, g) : f \in Sent(Peer(s), p) /\ f.seq < g.next
    <3>1. \A f \in Got(s, d) : f \in Sent(Peer(s), p) /\ f.seq \in Nat /\ f.seq < d.next
      BY <1>1, <1>2 DEF Taken
    <3> QED
      BY <1>1, <1>5, <1>7, <1>8, <1>11, <1>12, <3>1
  <2>3. ASSUME NEW k \in Nat, k < g.next PROVE \E f \in Got(s, g) : f.seq = k
    <3>1. CASE k < d.next
      BY <1>1, <1>12, <3>1 DEF Taken
    <3>2. CASE ~(k < d.next)
      <4>1. e.next <= k /\ k < n
        BY <1>1, <1>5, <1>8, <2>3, <3>2
      <4>2. PICK f \in e.fragments : f.seq = k
        BY <1>7, <4>1
      <4> QED
        BY <1>12, <4>1, <4>2
    <3> QED
      BY <3>1, <3>2
  <2>4. HasKeys(g) <=> HasKeys(d)
    BY <1>9 DEF HasKeys
  <2> QED
    BY <1>1, <1>9, <2>1, <2>2, <2>3, <2>4 DEF Taken
<1>14. IsFiniteSet(g.fragments)
  <2>1. g.fragments \in SUBSET e.fragments
    BY <1>8
  <2> QED
    BY <1>4, <2>1, FS_Subset
<1>15. \A f \in g.cache : f.from \in Sides
  BY <1>5, <1>8, <1>11, TwoSides DEF ReadOn
<1>16. ReadOn(s, c, p, Q, g)
  BY <1>8, <1>9, <1>10, <1>12, <1>13, <1>14, <1>15 DEF ReadOn
<1>18. HeardOne(g)
  <2>1. CASE n > 0
    BY <1>8, <2>1 DEF HeardOne
  <2>2. CASE n = 0
    <3>1. e.next = 0 /\ e.fragments # {}
      BY <1>1, <1>2, <1>5, <1>7, <1>17, <2>2
    <3>2. \A f \in e.fragments : f.seq \in Nat /\ f.seq # n
      BY <1>2, <1>6, <1>7 DEF Waits
    <3>3. \A f \in e.fragments : f \in g.fragments
      BY <1>8, <2>2, <3>2
    <3> QED
      BY <3>1, <3>3 DEF HeardOne
  <2> QED
    BY <2>1, <2>2
<1> QED
  BY <1>16, <1>18 DEF g, e

\* A record that has to wait, and one that says that the peer encrypts now.
LEMMA Waiting ==
  ASSUME NEW s \in Sides, NEW c, NEW p, NEW Q, NEW d, ReadOn(s, c, p, Q, d),
         NEW r \in Q, Genuine(r, p.local_epoch, Sent(Peer(s), p)), NEW enqueue \in BOOLEAN
  PROVE  ReadOn(s, c, p, Q, Deferred(d, r, enqueue))
<1> DEFINE q == Enqueue(d.queue, r)
           e == [d EXCEPT !.queue = q]
<1>1. q = d.queue \/ q = Append(d.queue, r)
  BY DEF Enqueue
<1>2. d.queue \in Seq(Q) /\ IsConn(d)
  BY DEF ReadOn, Same
<1>3. q \in Seq(Q)
  BY <1>1, <1>2, AppendProperties
<1>4. ASSUME NEW x \in ToSet(q) PROVE x \in ToSet(d.queue) \/ x = r
  <2>1. CASE q = d.queue
    BY <1>4, <2>1
  <2>2. CASE q = Append(d.queue, r)
    <3>1. PICK i \in 1 .. Len(d.queue) + 1 : x = Append(d.queue, r)[i]
      <4>1. Len(Append(d.queue, r)) = Len(d.queue) + 1 /\ Append(d.queue, r) \in Seq(Q)
        BY <1>2, AppendProperties
      <4> HIDE DEF q
      <4> QED
        BY <1>4, <2>2, <4>1 DEF ToSet
    <3>2. CASE i = Len(d.queue) + 1
      BY <1>2, <3>1, <3>2, AppendProperties
    <3>3. CASE i # Len(d.queue) + 1
      <4>1. i \in 1 .. Len(d.queue) /\ x = d.queue[i]
        BY <1>2, <3>1, <3>3, AppendProperties
      <4> QED
        BY <1>2, <4>1 DEF ToSet
    <3> QED
      BY <3>2, <3>3
  <2> QED
    BY <1>1, <2>1, <2>2
<1> HIDE DEF q
<1>5. /\ IsConn(e) /\ e.queue = q /\ \A f \in Fields \ {"queue"} : e[f] = d[f]
  BY <1>2, FieldNames DEF IsConn
<1> HIDE DEF e
<1>6. /\ e.fragments = d.fragments /\ e.next = d.next /\ e.cache = d.cache
      /\ e.remote_epoch = d.remote_epoch /\ e.master = d.master
  BY <1>5, FieldNames
<1>7. Same(c, e, Moving)
  <2>1. "queue" \in Moving
    BY DEF Moving
  <2> QED
    BY <1>5, <2>1 DEF ReadOn, Same
<1>8. Sent(s, e) = Sent(s, d) /\ Got(s, e) = Got(s, d) /\ (HasKeys(e) <=> HasKeys(d))
  BY <1>6 DEF Sent, Got, HasKeys
<1>9. Taken(s, e, p)
  BY <1>4, <1>5, <1>6, <1>8 DEF ReadOn, Taken
<1>10. ReadOn(s, c, p, Q, e)
  BY <1>3, <1>5, <1>6, <1>7, <1>8, <1>9 DEF ReadOn
<1> QED
  BY <1>10 DEF Deferred, e, q

\* A ChangeCipherSpec counts with keys, and waits for them otherwise.
LEMMA Begins ==
  ASSUME NEW s \in Sides, NEW c, NEW p, NEW Q, NEW d, ReadOn(s, c, p, Q, d),
         NEW r \in Q, Genuine(r, p.local_epoch, Sent(Peer(s), p)), r.content = "ccs",
         NEW enqueue \in BOOLEAN
  PROVE  ReadOn(s, c, p, Q, AcceptCcs(d, r, enqueue))
<1>1. CASE ~HasKeys(d)
  BY <1>1, Waiting DEF AcceptCcs
<1>2. CASE HasKeys(d)
  <2> DEFINE e == [d EXCEPT !.remote_epoch = 1]
  <2>1. IsConn(d)
    BY DEF ReadOn, Same
  <2>2. /\ IsConn(e) /\ e.remote_epoch = 1 /\ \A f \in Fields \ {"remote_epoch"} : e[f] = d[f]
    BY <2>1, FieldNames DEF IsConn
  <2>3. AcceptCcs(d, r, enqueue) = e
    BY <1>2 DEF AcceptCcs
  <2> HIDE DEF e
  <2>4. /\ e.fragments = d.fragments /\ e.next = d.next /\ e.cache = d.cache
        /\ e.queue = d.queue /\ e.master = d.master
    BY <2>2, FieldNames
  <2>5. Same(c, e, Moving)
    <3>1. "remote_epoch" \in Moving
      BY DEF Moving
    <3> QED
      BY <2>2, <3>1 DEF ReadOn, Same
  <2>6. Sent(s, e) = Sent(s, d) /\ Got(s, e) = Got(s, d) /\ (HasKeys(e) <=> HasKeys(d))
    BY <2>4 DEF Sent, Got, HasKeys
  <2>7. p.local_epoch = 1
    BY DEF Genuine
  <2>8. Taken(s, e, p)
    BY <1>2, <2>4, <2>6, <2>7 DEF ReadOn, Taken
  <2>9. ReadOn(s, c, p, Q, e)
    BY <2>2, <2>4, <2>5, <2>6, <2>8 DEF ReadOn
  <2> QED
    BY <2>3, <2>9
<1> QED
  BY <1>1, <1>2

\* What reading has come to, and that one more record keeps it.
IsRead(s, c, p, Q, x) ==
    /\ x = [conn |-> x.conn, handshake |-> x.handshake, alert |-> x.alert]
    /\ x.handshake \in BOOLEAN /\ x.alert \in BOOLEAN
    /\ ReadOn(s, c, p, Q, x.conn)
    /\ x.handshake => HeardOne(x.conn)
    /\ x.alert => \E r \in Q : r.content = "alert"

\* One genuine record read keeps what reading has come to.
LEMMA HandleKeeps ==
  ASSUME NEW s \in Sides, NEW c, NEW p, NEW Q, NEW x, IsRead(s, c, p, Q, x),
         Own(Peer(s), p), NEW r \in Q, Genuine(r, p.local_epoch, Sent(Peer(s), p)),
         NEW enqueue \in BOOLEAN
  PROVE  IsRead(s, c, p, Q, HandleIncomingPacket(x, r, enqueue))
<1> DEFINE d == x.conn
           y == HandleIncomingPacket(x, r, enqueue)
<1>1. ReadOn(s, c, p, Q, d)
  BY DEF IsRead
<1>2. ReadOn(s, c, p, Q, Deferred(d, r, enqueue))
  BY <1>1, Waiting
<1>3. r.content = "ccs" => ReadOn(s, c, p, Q, AcceptCcs(d, r, enqueue))
  BY <1>1, Begins
<1>4. r.content = "handshake" =>
        /\ ReadOn(s, c, p, Q, PopFragments(PushFragment(d, r.msg)))
        /\ HeardOne(PopFragments(PushFragment(d, r.msg)))
  <2> SUFFICES ASSUME r.content = "handshake"
               PROVE  /\ ReadOn(s, c, p, Q, PopFragments(PushFragment(d, r.msg)))
                      /\ HeardOne(PopFragments(PushFragment(d, r.msg)))
    OBVIOUS
  <2>1. r.msg \in Sent(Peer(s), p)
    BY DEF Genuine
  <2> QED
    BY <1>1, <2>1, TakesMessage
<1>5. r.content \in {"handshake", "ccs", "alert"}
  BY DEF Genuine
<1>6. \/ y = x
      \/ y = [x EXCEPT !.conn = Deferred(d, r, enqueue)]
      \/ r.content = "handshake"
         /\ y = [x EXCEPT !.conn = PopFragments(PushFragment(d, r.msg)), !.handshake = TRUE]
      \/ r.content = "ccs" /\ y = [x EXCEPT !.conn = AcceptCcs(d, r, enqueue)]
      \/ r.content = "alert" /\ y = [x EXCEPT !.alert = TRUE]
  BY <1>5 DEF HandleIncomingPacket
<1>12. HeardOne(d) => HeardOne(Deferred(d, r, enqueue)) /\ HeardOne(AcceptCcs(d, r, enqueue))
  <2>1. IsConn(d)
    BY <1>1 DEF ReadOn, Same
  <2>2. /\ Deferred(d, r, enqueue).next = d.next /\ AcceptCcs(d, r, enqueue).next = d.next
        /\ Deferred(d, r, enqueue).fragments = d.fragments
        /\ AcceptCcs(d, r, enqueue).fragments = d.fragments
    BY <2>1, FieldNames DEF Deferred, AcceptCcs, IsConn
  <2> QED
    BY <2>2 DEF HeardOne
<1> HIDE DEF y
<1>7. CASE y = x
  BY <1>7 DEF y
<1>8. CASE y = [x EXCEPT !.conn = Deferred(d, r, enqueue)]
  <2>1. IsRead(s, c, p, Q, y)
    BY <1>2, <1>8, <1>12 DEF IsRead
  <2> QED
    BY <2>1 DEF y
<1>9. CASE r.content = "handshake"
           /\ y = [x EXCEPT !.conn = PopFragments(PushFragment(d, r.msg)), !.handshake = TRUE]
  <2>1. IsRead(s, c, p, Q, y)
    BY <1>4, <1>9 DEF IsRead
  <2> QED
    BY <2>1 DEF y
<1>10. CASE r.content = "ccs" /\ y = [x EXCEPT !.conn = AcceptCcs(d, r, enqueue)]
  <2>1. IsRead(s, c, p, Q, y)
    BY <1>3, <1>10, <1>12 DEF IsRead
  <2> QED
    BY <2>1 DEF y
<1>11. CASE r.content = "alert" /\ y = [x EXCEPT !.alert = TRUE]
  <2>1. IsRead(s, c, p, Q, y)
    BY <1>11 DEF IsRead
  <2> QED
    BY <2>1 DEF y
<1> QED
  BY <1>6, <1>7, <1>8, <1>9, <1>10, <1>11

\* All values a field may get, so that what reading may come to is a set.
Values(s, c, p, Q) ==
    {c[f] : f \in Fields} \cup (SUBSET (c.cache \cup Sent(Peer(s), p))) \cup Nat \cup Seq(Q)

Reads(s, c, p, Q) ==
    {x \in [conn : [Fields -> Values(s, c, p, Q)], handshake : BOOLEAN, alert : BOOLEAN] :
       IsRead(s, c, p, Q, x)}

\* What reading may come to is in a set, which the fold over the records needs.
LEMMA ReadsAre ==
  ASSUME NEW s \in Sides, NEW c, NEW p, NEW Q, NEW x, IsRead(s, c, p, Q, x)
  PROVE  x \in Reads(s, c, p, Q)
<1> DEFINE d == x.conn
           V == Values(s, c, p, Q)
<1>1. ReadOn(s, c, p, Q, d) /\ IsConn(d)
  BY DEF IsRead, ReadOn, Same
<1>2. \A f \in Fields \ Moving : d[f] \in V
  BY <1>1 DEF ReadOn, Same, Values
<1>3. d.fragments \in V
  BY <1>1 DEF ReadOn, Taken, Values
<1>4. d.next \in V /\ d.remote_epoch \in V /\ d.queue \in V
  BY <1>1 DEF ReadOn, Values
<1>5. d.cache \in V
  <2>1. ASSUME NEW m \in d.cache PROVE m \in c.cache \cup Sent(Peer(s), p)
    <3>1. CASE m.from = s
      <4>1. m \in Sent(s, d)
        BY <3>1 DEF Sent
      <4>2. Sent(s, d) = Sent(s, c)
        BY <1>1 DEF ReadOn
      <4> QED
        BY <4>1, <4>2 DEF Sent
    <3>2. CASE m.from # s
      <4>1. m.from = Peer(s)
        BY <1>1, <3>2, TwoSides DEF ReadOn, Sides, Peer
      <4> QED
        BY <1>1, <4>1 DEF ReadOn, Taken, Got
    <3> QED
      BY <3>1, <3>2
  <2>2. d.cache \in SUBSET (c.cache \cup Sent(Peer(s), p))
    BY <2>1
  <2> QED
    BY <2>2 DEF Values
<1> HIDE DEF V, d
<1>6. \A f \in Fields : d[f] \in V
  <2>1. \A f \in Moving : d[f] \in V
    BY <1>3, <1>4, <1>5 DEF Moving
  <2> QED
    BY <1>2, <2>1
<1>7. d \in [Fields -> V]
  BY <1>1, <1>6 DEF IsConn
<1>8. /\ x = [conn |-> d, handshake |-> x.handshake, alert |-> x.alert]
      /\ x.handshake \in BOOLEAN /\ x.alert \in BOOLEAN
  BY DEF IsRead, d
<1> DEFINE h == x.handshake a == x.alert
<1> HIDE DEF h, a
<1>9. [conn |-> d, handshake |-> h, alert |-> a] \in [conn : [Fields -> V], handshake : BOOLEAN, alert : BOOLEAN]
  <2>1. h \in BOOLEAN /\ a \in BOOLEAN
    BY <1>8 DEF h, a
  <2> QED
    BY <1>7, <2>1
<1>10. x = [conn |-> d, handshake |-> h, alert |-> a]
  BY <1>8 DEF h, a
<1>11. x \in [conn : [Fields -> V], handshake : BOOLEAN, alert : BOOLEAN]
  BY <1>9, <1>10
<1> QED
  BY <1>11 DEF Reads, V

\* What reading records in order comes to.
HandleAll(xs, r, enqueue) == {HandleIncomingPacket(x, r, enqueue) : x \in xs}

\* So do all the records of a datagram.
LEMMA ReadAllKeeps ==
  ASSUME NEW s \in Sides, NEW c, NEW p, NEW Q, NEW first, ReadOn(s, c, p, Q, first),
         Own(Peer(s), p), NEW records \in Seq(Q),
         \A r \in ToSet(records) : Genuine(r, p.local_epoch, Sent(Peer(s), p)),
         NEW enqueue \in BOOLEAN
  PROVE  /\ ReadAll(first, records, enqueue) # {}
         /\ \A x \in ReadAll(first, records, enqueue) : IsRead(s, c, p, Q, x)
<1> DEFINE N == Len(records)
           R == Reads(s, c, p, Q)
           X == (SUBSET R) \ {{}}
           start == {ReadOf(first)}
           Folds(h) == h = [S \in SUBSET (1 .. N) |->
                              IF S = {} THEN start ELSE HandleAll(h[S \ {Max(S)}], records[Max(S)], enqueue)]
           h == CHOOSE h : Folds(h)
           G == [y \in X \X (1 .. N) |-> HandleAll(y[1], records[y[2]], enqueue)]
<1>0. start \in X
  <2>1. IsRead(s, c, p, Q, ReadOf(first))
    BY DEF IsRead, ReadOf
  <2>2. ReadOf(first) \in R
    BY <2>1, ReadsAre
  <2> HIDE DEF R
  <2> QED
    BY <2>2
<1>1. N \in Nat /\ DOMAIN records = 1 .. N
      /\ \A i \in 1 .. N : records[i] \in Q /\ Genuine(records[i], p.local_epoch, Sent(Peer(s), p))
  BY DEF ToSet
<1>2. ReadAll(first, records, enqueue) = h[1 .. N]
  BY <1>1 DEF ReadAll, FoldLeft, MapThenFoldSet, HandleAll
<1>3. ASSUME NEW xs \in X, NEW i \in 1 .. N PROVE HandleAll(xs, records[i], enqueue) \in X
  <2>1. ASSUME NEW x \in xs PROVE HandleIncomingPacket(x, records[i], enqueue) \in R
    <3>1. IsRead(s, c, p, Q, x)
      BY <1>3, <2>1 DEF Reads
    <3>2. IsRead(s, c, p, Q, HandleIncomingPacket(x, records[i], enqueue))
      BY <1>1, <3>1, HandleKeeps
    <3> QED
      BY <3>2, ReadsAre
  <2>2. xs # {}
    BY <1>3
  <2> HIDE DEF R
  <2> QED
    BY <2>1, <2>2 DEF HandleAll
<1> HIDE DEF X, start
<1>4. G \in [X \X (1 .. N) -> X]
  <2>1. \A y \in X \X (1 .. N) : HandleAll(y[1], records[y[2]], enqueue) \in X
    BY <1>3
  <2> QED
    BY <2>1
<1>5. \E g : Folds(g)
  <2>0. PICK g : Folded(g, X, start, N, G)
    <3> HIDE DEF N, G
    <3> QED
      BY <1>0, <1>1, <1>4, FoldExists
  <2>1. /\ g \in [SUBSET (1 .. N) -> X]
        /\ \A S \in SUBSET (1 .. N) : g[S] = IF S = {} THEN start ELSE G[<<g[S \ {Max(S)}], Max(S)>>]
    <3> HIDE DEF N, G
    <3> QED
      BY <2>0 DEF Folded
  <2>2. ASSUME NEW S \in SUBSET (1 .. N)
        PROVE  g[S] = IF S = {} THEN start ELSE HandleAll(g[S \ {Max(S)}], records[Max(S)], enqueue)
    <3>1. CASE S = {}
      BY <2>1, <3>1
    <3>2. CASE S # {}
      <4> DEFINE x == g[S \ {Max(S)}]
                 m == Max(S)
      <4>1. m \in 1 .. N
        BY <1>1, <3>2, Greatest
      <4>2. x \in X /\ g[S] = G[<<x, m>>]
        BY <2>1, <3>2
      <4> HIDE DEF x, m
      <4>3. G[<<x, m>>] = HandleAll(x, records[m], enqueue)
        BY <4>1, <4>2
      <4> QED
        BY <3>2, <4>2, <4>3 DEF x, m
    <3> QED
      BY <3>1, <3>2
  <2>3. g = [S \in SUBSET (1 .. N) |-> g[S]]
    BY <2>1
  <2>4. Folds(g)
    <3> HIDE DEF G, N
    <3> QED
      BY <2>2, <2>3
  <2> QED
    BY <2>4
<1>6. Folds(h)
  <2> HIDE DEF Folds
  <2> QED
    BY <1>5
<1> HIDE DEF h
<1>7. h[{}] \in X
  BY <1>0, <1>6
<1>8. ASSUME NEW n \in 0 .. N - 1, h[1 .. n] \in X PROVE h[1 .. n + 1] \in X
  <2>1. n \in Nat /\ n + 1 \in 1 .. N /\ 1 .. n + 1 \in SUBSET (1 .. N)
    BY <1>1
  <2>2. Max(1 .. n + 1) = n + 1 /\ (1 .. n + 1) \ {n + 1} = 1 .. n /\ 1 .. n + 1 # {}
    BY <2>1, GreatestOfFirst
  <2>3. h[1 .. n + 1] = HandleAll(h[(1 .. n + 1) \ {Max(1 .. n + 1)}], records[Max(1 .. n + 1)], enqueue)
    BY <1>6, <2>1, <2>2
  <2>4. h[1 .. n + 1] = HandleAll(h[1 .. n], records[n + 1], enqueue)
    BY <2>2, <2>3
  <2> QED
    BY <1>8, <1>3, <2>1, <2>4
<1>9. h[1 .. N] \in X
  <2> HIDE DEF N, Folds
  <2> QED
    BY <1>1, <1>7, <1>8, FoldKeeps
<1>10. ReadAll(first, records, enqueue) # {} /\ ReadAll(first, records, enqueue) \subseteq R
  BY <1>2, <1>9 DEF X
<1> QED
  BY <1>10 DEF Reads

\* A connection has not read anything, or not its queue, before it begins.
LEMMA ReadBegins ==
  ASSUME NEW P, NEW s \in Sides, NEW c, NEW p, NEW Q, Side(P, s, c, p), ToSet(c.queue) \subseteq Q
  PROVE  ReadOn(s, c, p, Q, c) /\ ReadOn(s, c, p, Q, [c EXCEPT !.queue = <<>>])
<1>1. Typed(P, s, c) /\ Taken(s, c, p)
  BY DEF Side
<1>2. ReadOn(s, c, p, Q, c)
  <2>1. Same(c, c, Moving)
    BY <1>1 DEF Typed, Same
  <2>2. c.queue \in Seq(Q)
    BY <1>1 DEF Typed
  <2> QED
    BY <1>1, <2>1, <2>2 DEF ReadOn, Typed
<1> DEFINE d == [c EXCEPT !.queue = <<>>]
<1>3. IsConn(c)
  BY <1>1 DEF Typed
<1>4. IsConn(d) /\ d.queue = <<>> /\ \A f \in Fields \ {"queue"} : d[f] = c[f]
  BY <1>3, FieldNames DEF IsConn
<1> HIDE DEF d
<1>5. /\ d.fragments = c.fragments /\ d.next = c.next /\ d.cache = c.cache
      /\ d.remote_epoch = c.remote_epoch /\ d.master = c.master
  BY <1>4, FieldNames
<1>6. Same(c, d, Moving)
  <2>1. "queue" \in Moving
    BY DEF Moving
  <2> QED
    BY <1>4, <2>1 DEF Same
<1>7. Sent(s, d) = Sent(s, c) /\ Got(s, d) = Got(s, c) /\ (HasKeys(d) <=> HasKeys(c))
  BY <1>5 DEF Sent, Got, HasKeys
<1>8. Taken(s, d, p)
  <2>1. ToSet(d.queue) = {}
    BY <1>4 DEF ToSet
  <2> QED
    BY <1>1, <1>5, <1>7, <2>1 DEF Taken
<1>9. ReadOn(s, c, p, Q, d)
  <2>1. d.queue \in Seq(Q)
    BY <1>4
  <2> QED
    BY <1>2, <1>5, <1>6, <1>7, <1>8, <2>1 DEF ReadOn
<1> QED
  BY <1>2, <1>9 DEF d

\* Reading leaves a side what it is.
LEMMA ReadSide ==
  ASSUME NEW P, NEW s \in Sides, NEW c, NEW p, NEW Q, NEW d, Side(P, s, c, p), ReadOn(s, c, p, Q, d)
  PROVE  /\ Side(P, s, d, p)
         /\ Made(s, d) = Made(s, c) /\ Sent(s, d) = Sent(s, c) /\ Got(s, c) \subseteq Got(s, d)
         /\ d.master = c.master /\ d.local_epoch = c.local_epoch
<1>1. /\ IsConn(d) /\ d.role = c.role /\ d.config = c.config /\ d.flight = c.flight
      /\ d.fsm = c.fsm /\ d.packets = c.packets /\ d.send_seq = c.send_seq
      /\ d.local_epoch = c.local_epoch /\ d.cookie = c.cookie
      /\ d.suite = c.suite /\ d.srtp = c.srtp /\ d.ems = c.ems /\ d.curve = c.curve
      /\ d.keypair = c.keypair /\ d.requested = c.requested /\ d.peer_cert = c.peer_cert
      /\ d.pre_master = c.pre_master /\ d.master = c.master
      /\ d.reader = c.reader /\ d.rendezvous = c.rendezvous
  BY MovingKeeps DEF ReadOn
<1>2. /\ Typed(P, s, c) /\ Own(s, c) /\ Taken(s, d, p)
      /\ d.next \in Nat /\ d.remote_epoch \in 0 .. 1 /\ IsFiniteSet(d.fragments)
      /\ d.queue \in Seq(Q)
      /\ Sent(s, d) = Sent(s, c) /\ Got(s, c) \subseteq Got(s, d)
      /\ \A m \in d.cache : m.from \in Sides
  BY DEF ReadOn, Side
<1>3. Made(s, d) = Made(s, c) /\ (HasKeys(d) <=> HasKeys(c))
  BY <1>1, <1>2 DEF Made, HasKeys
<1>4. Typed(P, s, d)
  <2>1. d.queue \in Seq(ToSet(d.queue))
    BY <1>2 DEF ToSet
  <2> QED
    BY <1>1, <1>2, <2>1 DEF Typed
<1>5. Own(s, d)
  <2>1. c.fsm # "sending" => Messages(c.packets) \subseteq d.cache
    <3> SUFFICES ASSUME c.fsm # "sending", NEW m \in Messages(c.packets) PROVE m \in d.cache
      OBVIOUS
    <3>1. m \in c.cache /\ m.from = s
      BY <1>2 DEF Own, Made
    <3>2. m \in Sent(s, d)
      BY <1>2, <3>1 DEF Sent
    <3> QED
      BY <3>2 DEF Sent
  <2> QED
    BY <1>1, <1>2, <1>3, <2>1 DEF Own
<1>6. s = "client" => ClientMade(P, d) /\ ClientChose(P, d)
  <2> SUFFICES ASSUME s = "client" PROVE ClientMade(P, d) /\ ClientChose(P, d)
    OBVIOUS
  <2>1. ClientMade(P, c) /\ ClientChose(P, c)
    BY DEF Side
  <2>2. ClientMade(P, d)
    BY <1>3, <2>1 DEF ClientMade
  <2>3. ClientChose(P, d)
    BY <1>1, <1>2, <1>3, <2>1 DEF ClientChose
  <2> QED
    BY <2>2, <2>3
<1>7. s = "server" => ServerMade(P, d) /\ ServerChose(P, d)
  <2> SUFFICES ASSUME s = "server" PROVE ServerMade(P, d) /\ ServerChose(P, d)
    OBVIOUS
  <2>1. ServerMade(P, c) /\ ServerChose(P, c)
    BY DEF Side
  <2>2. ServerMade(P, d)
    BY <1>1, <1>2, <1>3, <2>1 DEF ServerMade
  <2>3. ServerChose(P, d)
    BY <1>1, <1>2, <1>3, <2>1 DEF ServerChose
  <2> QED
    BY <2>2, <2>3
<1> QED
  BY <1>1, <1>2, <1>3, <1>4, <1>5, <1>6, <1>7 DEF Side

\* Whether the reader runs or waits matters to none of the rest.
Flags == {"reader", "rendezvous"}

\* The state of the reader task matters to nothing else.
LEMMA FlagSide ==
  ASSUME NEW P, NEW s \in Sides, NEW c, NEW p, NEW d, Side(P, s, c, p), Same(c, d, Flags),
         d.reader \in {"up", "gone"}, d.rendezvous \in BOOLEAN
  PROVE  /\ Side(P, s, d, p)
         /\ Made(s, d) = Made(s, c) /\ Sent(s, d) = Sent(s, c) /\ Got(s, d) = Got(s, c)
         /\ d.master = c.master /\ d.local_epoch = c.local_epoch
<1>1. Typed(P, s, c)
  BY DEF Side
<1>2. IsConn(d) /\ \A f \in Fields \ {"reader", "rendezvous"} : d[f] = c[f]
  BY DEF Same, Flags
<1>3. /\ d.role = c.role /\ d.config = c.config /\ d.flight = c.flight
      /\ d.fsm = c.fsm /\ d.packets = c.packets /\ d.send_seq = c.send_seq
      /\ d.local_epoch = c.local_epoch /\ d.cookie = c.cookie /\ d.remote_epoch = c.remote_epoch
      /\ d.suite = c.suite /\ d.srtp = c.srtp /\ d.ems = c.ems /\ d.curve = c.curve
      /\ d.keypair = c.keypair /\ d.requested = c.requested /\ d.peer_cert = c.peer_cert
      /\ d.pre_master = c.pre_master /\ d.master = c.master /\ d.cache = c.cache
      /\ d.fragments = c.fragments /\ d.next = c.next /\ d.queue = c.queue
  BY <1>2, FieldNames
<1>4. /\ Made(s, d) = Made(s, c) /\ Sent(s, d) = Sent(s, c) /\ Got(s, d) = Got(s, c)
      /\ (HasKeys(d) <=> HasKeys(c))
  BY <1>3 DEF Made, Sent, Got, HasKeys
<1>5. Typed(P, s, d)
  BY <1>1, <1>2, <1>3 DEF Typed
<1>6. Own(s, d)
  BY <1>3, <1>4 DEF Side, Own
<1>7. Taken(s, d, p)
  BY <1>3, <1>4 DEF Side, Taken
<1>8. s = "client" => ClientMade(P, d) /\ ClientChose(P, d)
  BY <1>3, <1>4 DEF Side, ClientMade, ClientChose
<1>9. s = "server" => ServerMade(P, d) /\ ServerChose(P, d)
  <2> SUFFICES ASSUME s = "server" PROVE ServerMade(P, d) /\ ServerChose(P, d)
    OBVIOUS
  <2>1. ServerMade(P, c) /\ ServerChose(P, c)
    BY DEF Side
  <2>2. ServerMade(P, d)
    BY <1>3, <1>4, <2>1 DEF ServerMade
  <2>3. ServerChose(P, d)
    BY <1>3, <1>4, <2>1 DEF ServerChose
  <2> QED
    BY <2>2, <2>3
<1>10. Side(P, s, d, p)
  BY <1>5, <1>6, <1>7, <1>8, <1>9 DEF Side
<1> QED
  BY <1>3, <1>4, <1>10

\* A datagram.
AfterRead(x) ==
    [x.conn EXCEPT !.reader = IF x.alert THEN "gone" ELSE @,
                   !.rendezvous = x.handshake /\ ~x.alert /\ ~Completed(x.conn)]

\* Reading a datagram keeps the invariant.
LEMMA ReadStep ==
  ASSUME NEW P, NEW K, NEW N, NEW M, Inv(P, K, N), NEW s \in Sides, NEW d \in N, d.to = s,
         NEW x \in ReadAll(K[s], d.records, TRUE), NEW e, e = AfterRead(x),
         \A y \in M : y \in N \/ y = AlertDatagram(x.conn)
  PROVE  Inv(P, [K EXCEPT ![s] = e], M)
<1> DEFINE c == K[s]
           p == K[Peer(s)]
           Q == ToSet(c.queue) \cup ToSet(d.records)
           b == x.conn
<1>1. P \in Pairs /\ Side(P, s, c, p) /\ Own(Peer(s), p) /\ Arrives(P, d, K)
  BY TwoSides DEF Inv, Side
<1>2. /\ d.records \in Seq(ToSet(d.records))
      /\ \A r \in ToSet(d.records) : Genuine(r, p.local_epoch, Sent(Peer(s), p))
  BY <1>1 DEF Arrives
<1> HIDE DEF c, p
<1>3. ReadOn(s, c, p, Q, c)
  BY <1>1, ReadBegins
<1>4. d.records \in Seq(Q)
  BY <1>2
<1> HIDE DEF Q
<1>5. IsRead(s, c, p, Q, x)
  <2>1. x \in ReadAll(c, d.records, TRUE)
    BY DEF c
  <2>2. TRUE \in BOOLEAN
    OBVIOUS
  <2> QED
    BY <1>1, <1>2, <1>3, <1>4, <2>1, <2>2, ReadAllKeeps
<1>6. x.handshake \in BOOLEAN /\ x.alert \in BOOLEAN /\ ReadOn(s, c, p, Q, b)
  BY <1>5 DEF IsRead
<1> HIDE DEF b
<1>7. /\ Side(P, s, b, p)
      /\ Made(s, b) = Made(s, c) /\ Sent(s, b) = Sent(s, c)
      /\ b.master = c.master /\ b.local_epoch = c.local_epoch
  BY <1>1, <1>6, ReadSide
<1>8. b.role = s /\ b.reader \in {"up", "gone"} /\ IsConn(b)
  BY <1>7 DEF Side, Typed
<1>9. Same(b, e, Flags) /\ e.reader \in {"up", "gone"} /\ e.rendezvous \in BOOLEAN
  <2>1. e = [b EXCEPT !.reader = IF x.alert THEN "gone" ELSE @,
                      !.rendezvous = x.handshake /\ ~x.alert /\ ~Completed(b)]
    BY DEF AfterRead, b
  <2> QED
    BY <1>8, <2>1, FieldNames DEF Same, Flags, IsConn
<1>10. /\ Side(P, s, e, p)
       /\ Made(s, e) = Made(s, b) /\ Sent(s, e) = Sent(s, b)
       /\ e.master = b.master /\ e.local_epoch = b.local_epoch
  BY <1>7, <1>9, FlagSide
<1>11. Keyed(P, [K EXCEPT ![s] = e])
  <2>1. Made(s, e) = Made(s, K[s]) /\ e.master = K[s].master
    BY <1>7, <1>10 DEF c
  <2> QED
    BY <2>1, KeysStay
<1>12. \A y \in M : y \in N \/ Arrives(P, y, [K EXCEPT ![s] = e])
  BY <1>1, <1>8, AlertArrives DEF b
<1> QED
  BY <1>7, <1>10, <1>11, <1>12, Advance DEF c, p

--------------------------------------------------------------------------------
(* Parsing: what a side makes of its cache *)

\* A side and its peer.
Two(P, s, c, p) ==
    /\ P \in Pairs /\ Side(P, s, c, p) /\ Typed(P, s, c) /\ Own(s, c) /\ Taken(s, c, p)
    /\ Own(Peer(s), p)
    /\ s = "client" => ClientMade(P, c) /\ ClientChose(P, c) /\ ServerMade(P, p)
    /\ s = "server" => ServerMade(P, c) /\ ServerChose(P, c) /\ ClientMade(P, p)

\* A side's cache has the numbers it has given out and those it has taken.
LEMMA CacheIsBounded ==
  ASSUME NEW P, NEW s \in Sides, NEW c, NEW p, Two(P, s, c, p)
  PROVE  Bounded(c.cache)
<1> DEFINE n == c.send_seq + c.next
<1>1. c.send_seq \in Nat /\ c.next \in Nat /\ \A m \in c.cache : m.from \in Sides
  BY DEF Two, Typed
<1>2. ASSUME NEW m \in c.cache PROVE m.seq \in Nat /\ m.seq < n
  <2>1. CASE m.from = s
    <3>1. m \in Made(s, c)
      BY <2>1 DEF Made, Sent
    <3>2. m.seq \in Nat /\ m.seq < c.send_seq
      BY <3>1 DEF Two, Own
    <3> QED
      BY <1>1, <3>2
  <2>2. CASE m.from # s
    <3>1. m \in Got(s, c)
      BY <1>1, <2>2, TwoSides DEF Got, Sides, Peer
    <3>2. m \in Made(Peer(s), p) /\ m.seq < c.next
      BY <3>1 DEF Two, Taken, Made
    <3>3. m.seq \in Nat
      BY <3>2 DEF Two, Own
    <3> QED
      BY <1>1, <3>2, <3>3
  <2> QED
    BY <2>1, <2>2
<1>3. n \in Nat
  BY <1>1
<1> QED
  BY <1>2, <1>3 DEF Bounded

\* What a side finds of its peer is what the peer has sent.
LEMMA FoundIsSent ==
  ASSUME NEW P, NEW s \in Sides, NEW c, NEW p, Two(P, s, c, p),
         NEW rule, rule.from = Peer(s), NEW m \in Matching(c.cache, rule)
  PROVE  /\ m \in Got(s, c) /\ m \in Sent(Peer(s), p) /\ m \in Made(Peer(s), p)
         /\ m.typ = rule.typ /\ m.seq < c.next
<1>1. m \in Got(s, c) /\ m.typ = rule.typ
  BY DEF Matching, Got
<1>2. m \in Sent(Peer(s), p) /\ m.seq < c.next
  BY <1>1 DEF Two, Taken
<1> QED
  BY <1>1, <1>2 DEF Made

\* Who has a message has all before it.
LEMMA KnowsEarlier ==
  ASSUME NEW P, NEW s \in Sides, NEW c, NEW p, Two(P, s, c, p),
         NEW m \in Got(s, c), NEW x \in Made(Peer(s), p), x.seq <= m.seq
  PROVE  x \in Got(s, c)
<1>1. m \in Made(Peer(s), p) /\ m.seq < c.next /\ c.next \in Nat
  BY DEF Two, Taken, Typed, Made
<1>2. m.seq \in Nat /\ x.seq \in Nat
  BY <1>1 DEF Two, Own
<1>3. x.seq < c.next
  BY <1>1, <1>2
<1>4. PICK y \in Got(s, c) : y.seq = x.seq
  BY <1>2, <1>3 DEF Two, Taken
<1>5. y \in Made(Peer(s), p)
  BY DEF Two, Taken, Made
<1>6. y = x
  BY <1>4, <1>5 DEF Two, Own
<1> QED
  BY <1>6

\* What a parse may make of a connection.
Chosen(P, s, c, d) ==
    /\ Same(c, d, ChoiceFields) /\ ChoiceTypes(s, d)
    /\ s = "client" => ClientChose(P, d)
    /\ s = "server" => ServerMade(P, d) /\ ServerChose(P, d)

Failing(c) == Fail(c).conn

\* Waiting on, or giving up.
LEMMA NothingChosen ==
  ASSUME NEW P, NEW s \in Sides, NEW c, NEW p, Two(P, s, c, p), c.fsm = "waiting"
  PROVE  Chosen(P, s, c, c)
<1>1. Same(c, c, ChoiceFields) /\ ChoiceTypes(s, c)
  BY DEF Two, Typed, Same, ChoiceTypes
<1> QED
  BY <1>1 DEF Two, Chosen

\* A side may fail whatever it knows.
LEMMA FailureChosen ==
  ASSUME NEW P, NEW s \in Sides, NEW c, NEW p, Two(P, s, c, p),
         c.fsm = "waiting" \/ (c.fsm = "preparing" /\ c.flight \in {4, 5}), NEW d, d = Failing(c)
  PROVE  Chosen(P, s, c, d)
<1>1. Typed(P, s, c) /\ IsConn(c) /\ Side(P, s, c, p)
  BY DEF Two, Typed
<1>2. /\ IsConn(d) /\ d.fsm = "failed" /\ d.reader = "gone"
      /\ \A f \in Fields \ {"fsm", "reader"} : d[f] = c[f]
  BY <1>1, FieldNames DEF IsConn, Failing, Fail
<1>3. Same(c, d, ChoiceFields)
  <2>1. "fsm" \in ChoiceFields /\ "reader" \in ChoiceFields
    BY DEF ChoiceFields
  <2> QED
    BY <1>2, <2>1 DEF Same
<1>4. /\ d.flight = c.flight /\ d.rendezvous = c.rendezvous
      /\ d.ems = c.ems /\ d.requested = c.requested /\ d.suite = c.suite /\ d.srtp = c.srtp
      /\ d.keypair = c.keypair /\ d.pre_master = c.pre_master /\ d.curve = c.curve
      /\ d.cookie = c.cookie /\ d.peer_cert = c.peer_cert
  BY <1>2, FieldNames
<1>5. ChoiceTypes(s, d)
  BY <1>1, <1>2, <1>4 DEF Typed, ChoiceTypes
<1>6. /\ Made(s, d) = Made(s, c) /\ Sent(s, d) = Sent(s, c) /\ Got(s, d) = Got(s, c)
      /\ (HasKeys(d) <=> HasKeys(c))
  BY <1>1, <1>3, <1>5, QuietSide
<1>7. d.local_epoch = c.local_epoch
  BY <1>3, ChoicesKeep
<1>8. s = "client" => ClientChose(P, d)
  BY <1>2, <1>4, <1>6, <1>7 DEF Two, ClientChose
<1>9. s = "server" => ServerMade(P, d) /\ ServerChose(P, d)
  <2> SUFFICES ASSUME s = "server" PROVE ServerMade(P, d) /\ ServerChose(P, d)
    OBVIOUS
  <2>1. ServerMade(P, c) /\ ServerChose(P, c) /\ c.flight # 6
    BY DEF Two, ServerChose
  <2>2. ServerMade(P, d)
    BY <1>2, <1>4, <1>6, <2>1 DEF ServerMade
  <2>3. ServerChose(P, d)
    BY <1>2, <1>4, <1>6, <1>7, <2>1 DEF ServerChose
  <2> QED
    BY <2>2, <2>3
<1> QED
  BY <1>3, <1>5, <1>8, <1>9 DEF Chosen

\* What the server hears from a client.
LEMMA HelloHeard ==
  ASSUME NEW P, NEW c, NEW p, Two(P, "server", c, p), NEW start, NEW pull,
         pull = FullPull(c.cache, start, <<Need("ClientHello", "client")>>), pull.ok
  PROVE  LET hello == pull.msgs["ClientHello"]
         IN  /\ hello.suites = P["client"].suites /\ hello.curves = P["client"].curves
             /\ hello.srtp = P["client"].srtp
             /\ hello.ems \in BOOLEAN /\ (hello.ems <=> P["client"].ems # "disable")
<1> DEFINE rule == Need("ClientHello", "client")
<1>1. rule.typ = "ClientHello" /\ rule.from = "client" /\ rule.optional = FALSE
  BY DEF Need, Rule
<1> HIDE DEF rule
<1>2. ToSet(<<rule>>) = {rule}
  BY DEF ToSet
<1>3. pull = FullPull(c.cache, start, <<rule>>)
  BY DEF rule
<1>4. Matching(c.cache, rule) # {}
  BY <1>1, <1>2, <1>3, Pulled
<1>5. Bounded(c.cache)
  BY CacheIsBounded, TwoSides
<1>6. \E m \in Matching(c.cache, rule) : pull.msgs[rule.typ] = m.body
  <2>1. rule \in ToSet(<<rule>>) /\ \A q \in ToSet(<<rule>>) : q.typ = rule.typ => q = rule
    BY <1>2
  <2> QED
    BY <1>3, <1>4, <1>5, <2>1, Heard
<1>7. PICK m \in Matching(c.cache, rule) : pull.msgs["ClientHello"] = m.body
  BY <1>1, <1>6
<1>8. m \in Made("client", p) /\ m.typ = "ClientHello"
  BY <1>1, FoundIsSent, TwoSides
<1>9. ClientMade(P, p)
  BY DEF Two
<1> QED
  BY <1>7, <1>8, <1>9 DEF ClientMade

\* The server agrees to what the two configurations come to.
LEMMA ServerAgrees ==
  ASSUME NEW P, NEW c, NEW p, Two(P, "server", c, p), c.fsm = "waiting", c.flight \in {0, 2}
  PROVE  Chosen(P, "server", c, Flight0Parse(c).conn)
<1> DEFINE pull  == FullPull(c.cache, 0, <<Need("ClientHello", "client")>>)
           hello == pull.msgs["ClientHello"]
           suite == FirstCommon(hello.suites, ToSet(c.config.suites))
           curve == ChooseCurve(hello.curves)
           srtp  == FirstCommon(hello.srtp, ToSet(c.config.srtp))
           ems   == c.ems \/ (hello.ems /\ c.config.ems # "disable")
           d == [c EXCEPT !.recv_seq = pull.seq, !.suite = suite, !.curve = curve,
                          !.srtp = srtp, !.ems = ems, !.keypair = IF @ = None THEN curve ELSE @,
                          !.flight = 2, !.fsm = "preparing"]
<1>1. \/ Flight0Parse(c).conn = c
      \/ Flight0Parse(c).conn = Failing(c)
      \/ /\ pull.ok /\ suite # None /\ curve \in SupportedCurves
         /\ Flight0Parse(c).conn = d
  BY DEF Flight0Parse, Keep, Goto, Failing
<1>2. Chosen(P, "server", c, c) /\ Chosen(P, "server", c, Failing(c))
  BY NothingChosen, FailureChosen, TwoSides
<1>3. ASSUME pull.ok, suite # None, curve \in SupportedCurves
      PROVE  Chosen(P, "server", c, d)
  <2>1. c.config = P["server"] /\ IsConn(c) /\ Typed(P, "server", c) /\ Side(P, "server", c, p)
    BY DEF Two, Typed
  <2>2. /\ hello.suites = P["client"].suites /\ hello.curves = P["client"].curves
        /\ hello.srtp = P["client"].srtp
        /\ hello.ems \in BOOLEAN /\ (hello.ems <=> P["client"].ems # "disable")
    BY <1>3, HelloHeard
  <2> HIDE DEF pull, hello
  <2>3. suite = Suite(P) /\ curve = Curve(P) /\ srtp = Srtp(P)
    BY <2>1, <2>2 DEF Suite, Curve, Srtp
  <2>4. ServerMade(P, c) /\ ServerChose(P, c) /\ c.ems \in BOOLEAN
    BY DEF Two, Typed
  <2>5. ems \in BOOLEAN /\ (ems <=> Ems(P))
    BY <2>1, <2>2, <2>4 DEF Ems, ServerChose
  <2>6. (IF c.keypair = None THEN curve ELSE c.keypair) = Curve(P)
    BY <2>3, <2>4 DEF ServerChose
  <2> HIDE DEF suite, curve, srtp, ems
  <2>7. /\ IsConn(d) /\ d.flight = 2 /\ d.fsm = "preparing" /\ d.suite = suite /\ d.curve = curve
        /\ d.srtp = srtp /\ d.ems = ems /\ d.keypair = (IF c.keypair = None THEN curve ELSE c.keypair)
        /\ \A f \in Fields \ {"recv_seq", "suite", "curve", "srtp", "ems", "keypair", "flight", "fsm"} : d[f] = c[f]
    BY <2>1, FieldNames DEF IsConn
  <2> HIDE DEF d
  <2>8. Same(c, d, ChoiceFields)
    <3>1. {"recv_seq", "suite", "curve", "srtp", "ems", "keypair", "flight", "fsm"} \subseteq ChoiceFields
      BY DEF ChoiceFields
    <3> QED
      BY <2>7, <3>1 DEF Same
  <2>9. /\ d.reader = c.reader /\ d.rendezvous = c.rendezvous /\ d.requested = c.requested
        /\ d.cookie = c.cookie /\ d.peer_cert = c.peer_cert
    BY <2>7, FieldNames
  <2>10. ChoiceTypes("server", d)
    BY <2>1, <2>5, <2>7, <2>9 DEF Typed, ChoiceTypes
  <2>11. /\ Made("server", d) = Made("server", c) /\ Sent("server", d) = Sent("server", c)
         /\ Got("server", d) = Got("server", c) /\ (HasKeys(d) <=> HasKeys(c))
    BY <2>1, <2>8, <2>10, QuietSide, TwoSides
  <2>12. ~HasKeys(c) /\ c.cookie = "cookie"
    BY <2>4 DEF ServerChose
  <2>13. ServerMade(P, d)
    BY <2>4, <2>7, <2>11 DEF ServerMade
  <2>14. ServerChose(P, d)
    <3>1. d.suite = Suite(P) /\ Suite(P) # None /\ d.srtp = Srtp(P) /\ (d.ems <=> Ems(P))
          /\ d.curve = Curve(P) /\ d.keypair = Curve(P) /\ Curve(P) \in SupportedCurves
      BY <1>3, <2>3, <2>5, <2>6, <2>7
    <3>2. d.flight = 2 /\ d.fsm = "preparing" /\ d.cookie = "cookie" /\ ~HasKeys(d)
          /\ d.peer_cert = c.peer_cert
      BY <2>7, <2>9, <2>11, <2>12
    <3>3. c.peer_cert # None => Asked(P) /\ c.peer_cert = P["client"].cert
      BY <2>4 DEF ServerChose
    <3> QED
      BY <3>1, <3>2, <3>3 DEF ServerChose
  <2> QED
    BY <2>8, <2>10, <2>13, <2>14, TwoSides DEF Chosen
<1> QED
  BY <1>1, <1>2, <1>3

\* Another number to go on from, and a flight to make: nothing else.
LEMMA CookieMatches ==
  ASSUME NEW P, NEW c, NEW p, Two(P, "server", c, p), c.fsm = "waiting", c.flight = 2
  PROVE  Chosen(P, "server", c, Flight2Parse(c).conn)
<1> DEFINE pull  == FullPull(c.cache, c.recv_seq, <<Need("ClientHello", "client")>>)
           hello == pull.msgs["ClientHello"]
           d == [c EXCEPT !.recv_seq = pull.seq]
           e == [c EXCEPT !.recv_seq = pull.seq, !.flight = 4, !.fsm = "preparing"]
<1>1. \/ Flight2Parse(c) = Flight0Parse(c)
      \/ Flight2Parse(c).conn = Failing(c)
      \/ Flight2Parse(c).conn = d
      \/ Flight2Parse(c).conn = e
  BY DEF Flight2Parse, Keep, Goto, Failing
<1>2. Chosen(P, "server", c, Flight0Parse(c).conn) /\ Chosen(P, "server", c, Failing(c))
  BY ServerAgrees, FailureChosen, TwoSides
<1>3. IsConn(c) /\ Typed(P, "server", c) /\ Side(P, "server", c, p) /\ ServerMade(P, c) /\ ServerChose(P, c)
  BY DEF Two, Typed
<1> HIDE DEF pull
<1>4. /\ IsConn(d) /\ \A f \in Fields \ {"recv_seq"} : d[f] = c[f]
      /\ IsConn(e) /\ \A f \in Fields \ {"recv_seq", "flight", "fsm"} : e[f] = c[f]
      /\ e.flight = 4 /\ e.fsm = "preparing"
  BY <1>3, FieldNames DEF IsConn
<1> HIDE DEF d, e
<1>5. Same(c, d, ChoiceFields) /\ Same(c, e, ChoiceFields)
  <2>1. {"recv_seq", "flight", "fsm"} \subseteq ChoiceFields
    BY DEF ChoiceFields
  <2> QED
    BY <1>4, <2>1 DEF Same
<1>6. /\ d.flight = c.flight /\ d.fsm = c.fsm /\ d.reader = c.reader /\ d.rendezvous = c.rendezvous
      /\ d.ems = c.ems /\ d.requested = c.requested /\ d.suite = c.suite /\ d.srtp = c.srtp
      /\ d.keypair = c.keypair /\ d.curve = c.curve /\ d.cookie = c.cookie /\ d.peer_cert = c.peer_cert
  BY <1>4, FieldNames
<1>7. /\ e.reader = c.reader /\ e.rendezvous = c.rendezvous
      /\ e.ems = c.ems /\ e.requested = c.requested /\ e.suite = c.suite /\ e.srtp = c.srtp
      /\ e.keypair = c.keypair /\ e.curve = c.curve /\ e.cookie = c.cookie /\ e.peer_cert = c.peer_cert
  BY <1>4, FieldNames
<1>8. ChoiceTypes("server", d) /\ ChoiceTypes("server", e)
  BY <1>3, <1>4, <1>6, <1>7 DEF Typed, ChoiceTypes
<1>9. /\ Made("server", d) = Made("server", c) /\ Sent("server", d) = Sent("server", c)
      /\ Got("server", d) = Got("server", c) /\ (HasKeys(d) <=> HasKeys(c))
  BY <1>3, <1>5, <1>8, QuietSide, TwoSides
<1>10. /\ Made("server", e) = Made("server", c) /\ Sent("server", e) = Sent("server", c)
       /\ Got("server", e) = Got("server", c) /\ (HasKeys(e) <=> HasKeys(c))
  BY <1>3, <1>5, <1>8, QuietSide, TwoSides
<1>11. Chosen(P, "server", c, d)
  <2>1. d.local_epoch = c.local_epoch
    BY <1>5, ChoicesKeep
  <2>2. ServerMade(P, d)
    BY <1>3, <1>6, <1>9 DEF ServerMade
  <2>3. ServerChose(P, d)
    BY <1>3, <1>6, <1>9, <2>1 DEF ServerChose
  <2> QED
    BY <1>5, <1>8, <2>2, <2>3, TwoSides DEF Chosen
<1>12. Chosen(P, "server", c, e)
  <2>1. ~HasKeys(c)
    BY <1>3 DEF ServerChose
  <2>2. ServerMade(P, e)
    BY <1>3, <1>4, <1>10 DEF ServerMade
  <2>3. ServerChose(P, e)
    BY <1>3, <1>4, <1>7, <1>10, <2>1 DEF ServerChose
  <2> QED
    BY <1>5, <1>8, <2>2, <2>3, TwoSides DEF Chosen
<1> QED
  BY <1>1, <1>2, <1>11, <1>12

\* The client starts over with a cookie: another flight to make, and nothing agreed.
Cookied(c, cookie, seq) ==
    [c EXCEPT !.cookie = cookie, !.recv_seq = seq, !.flight = 3, !.fsm = "preparing"]

\* A client that takes a cookie goes to flight 3 and nowhere else.
LEMMA CookieTaken ==
  ASSUME NEW P, NEW c, NEW p, Two(P, "client", c, p), c.flight \in {1, 3}, NEW cookie, NEW seq,
         NEW d, d = Cookied(c, cookie, seq)
  PROVE  Chosen(P, "client", c, d)
<1>1. IsConn(c) /\ Typed(P, "client", c) /\ Side(P, "client", c, p) /\ ClientChose(P, c)
  BY DEF Two, Typed
<1>2. /\ IsConn(d) /\ \A f \in Fields \ {"cookie", "recv_seq", "flight", "fsm"} : d[f] = c[f]
      /\ d.flight = 3 /\ d.fsm = "preparing"
  BY <1>1, FieldNames DEF IsConn, Cookied
<1>3. Same(c, d, ChoiceFields)
  <2>1. {"cookie", "recv_seq", "flight", "fsm"} \subseteq ChoiceFields
    BY DEF ChoiceFields
  <2> QED
    BY <1>2, <2>1 DEF Same
<1>4. /\ d.reader = c.reader /\ d.rendezvous = c.rendezvous /\ d.ems = c.ems
      /\ d.requested = c.requested
  BY <1>2, FieldNames
<1>5. ChoiceTypes("client", d)
  BY <1>1, <1>2, <1>4 DEF Typed, ChoiceTypes
<1>6. HasKeys(d) <=> HasKeys(c)
  BY <1>3, ChoicesKeep DEF HasKeys
<1>7. ~HasKeys(c)
  BY <1>1 DEF ClientChose
<1>8. ClientChose(P, d)
  <2>1. c.ems = FALSE /\ c.requested = FALSE
    BY <1>1 DEF ClientChose
  <2>2. d.flight = 3 /\ d.fsm = "preparing" /\ d.ems = FALSE /\ d.requested = FALSE /\ ~HasKeys(d)
    BY <1>2, <1>4, <1>6, <1>7, <2>1
  <2> QED
    BY <2>2 DEF ClientChose
<1> QED
  BY <1>3, <1>5, <1>8, TwoSides DEF Chosen

\* What the client hears from a server: the whole of flight 4, of which the last
\* message tells that no other is missing.
ServerRules ==
    <<Need("ServerHello", "server"), May("Certificate", "server"),
      Need("ServerKeyExchange", "server"), May("CertificateRequest", "server"),
      Need("ServerHelloDone", "server")>>

\* What a client waits for in flight 3, a rule for each type.
LEMMA RulesOfServer ==
  /\ ToSet(ServerRules) =
       {Need("ServerHello", "server"), May("Certificate", "server"),
        Need("ServerKeyExchange", "server"), May("CertificateRequest", "server"),
        Need("ServerHelloDone", "server")}
  /\ \A r, q \in ToSet(ServerRules) : q.typ = r.typ => q = r
<1>1. ToSet(ServerRules) =
       {Need("ServerHello", "server"), May("Certificate", "server"),
        Need("ServerKeyExchange", "server"), May("CertificateRequest", "server"),
        Need("ServerHelloDone", "server")}
  <2>1. DOMAIN ServerRules = 1 .. 5
    BY DEF ServerRules
  <2>2. ToSet(ServerRules) = {ServerRules[1], ServerRules[2], ServerRules[3], ServerRules[4], ServerRules[5]}
    <3> HIDE DEF ServerRules
    <3>1. \A i \in 1 .. 5 : i = 1 \/ i = 2 \/ i = 3 \/ i = 4 \/ i = 5
      OBVIOUS
    <3> QED
      BY <2>1, <3>1 DEF ToSet
  <2>3. /\ ServerRules[1] = Need("ServerHello", "server") /\ ServerRules[2] = May("Certificate", "server")
        /\ ServerRules[3] = Need("ServerKeyExchange", "server")
        /\ ServerRules[4] = May("CertificateRequest", "server")
        /\ ServerRules[5] = Need("ServerHelloDone", "server")
    BY DEF ServerRules
  <2> QED
    BY <2>2, <2>3
<1>2. \A r, q \in ToSet(ServerRules) : q.typ = r.typ => q = r
  <2>1. /\ Need("ServerHello", "server").typ = "ServerHello" /\ May("Certificate", "server").typ = "Certificate"
        /\ Need("ServerKeyExchange", "server").typ = "ServerKeyExchange"
        /\ May("CertificateRequest", "server").typ = "CertificateRequest"
        /\ Need("ServerHelloDone", "server").typ = "ServerHelloDone"
    BY DEF Need, May, Rule
  <2> QED
    BY <1>1, <2>1
<1> QED
  BY <1>1, <1>2

\* With all of flight 4 the client knows what the server has chosen, and it is what the
\* configurations lead to.
LEMMA ServerHeard ==
  ASSUME NEW P, NEW c, NEW p, Two(P, "client", c, p), NEW start, NEW pull,
         pull = FullPull(c.cache, start, ServerRules), pull.ok
  PROVE  /\ pull.msgs["ServerHello"].suite = Suite(P) /\ pull.msgs["ServerHello"].srtp = Srtp(P)
         /\ pull.msgs["ServerHello"].ems \in BOOLEAN
         /\ (pull.msgs["ServerHello"].ems <=> Ems(P))
         /\ pull.msgs["ServerKeyExchange"].curve = Curve(P)
         /\ "CertificateRequest" \in DOMAIN pull.msgs <=> Asked(P)
         /\ \E m \in Got("client", c) : m.typ = "ServerHelloDone"
<1>1. Bounded(c.cache) /\ ServerMade(P, p) /\ Own("server", p)
  BY CacheIsBounded, TwoSides DEF Two
<1>2. \A r \in ToSet(ServerRules) : r.from = "server" /\ r.epoch = 0
  BY RulesOfServer DEF Need, May, Rule
<1>3. ASSUME NEW r \in ToSet(ServerRules), Matching(c.cache, r) # {}
      PROVE  \E m \in Made("server", p) : m.typ = r.typ /\ pull.msgs[r.typ] = m.body
  <2>1. \E m \in Matching(c.cache, r) : pull.msgs[r.typ] = m.body
    BY <1>1, <1>3, RulesOfServer, Heard
  <2>2. ASSUME NEW m \in Matching(c.cache, r) PROVE m \in Made("server", p) /\ m.typ = r.typ
    <3>1. r.from = Peer("client") /\ "client" \in Sides /\ Peer("client") = "server"
      BY <1>2, TwoSides
    <3> QED
      BY <3>1, FoundIsSent
  <2> QED
    BY <2>1, <2>2
<1>4. \A r \in ToSet(ServerRules) : r.optional \/ Matching(c.cache, r) # {}
  BY Pulled
<1> DEFINE hello == Need("ServerHello", "server")
           key_exchange == Need("ServerKeyExchange", "server")
           done == Need("ServerHelloDone", "server")
           request == May("CertificateRequest", "server")
<1>5. /\ hello \in ToSet(ServerRules) /\ hello.typ = "ServerHello" /\ ~hello.optional
      /\ key_exchange \in ToSet(ServerRules) /\ key_exchange.typ = "ServerKeyExchange" /\ ~key_exchange.optional
      /\ done \in ToSet(ServerRules) /\ done.typ = "ServerHelloDone" /\ ~done.optional
      /\ request \in ToSet(ServerRules) /\ request.typ = "CertificateRequest"
  BY RulesOfServer DEF Need, May, Rule
<1> HIDE DEF hello, key_exchange, done, request
<1>6. /\ pull.msgs["ServerHello"].suite = Suite(P) /\ pull.msgs["ServerHello"].srtp = Srtp(P)
      /\ pull.msgs["ServerHello"].ems \in BOOLEAN
      /\ (pull.msgs["ServerHello"].ems <=> Ems(P))
  <2>1. PICK m \in Made("server", p) : m.typ = "ServerHello" /\ pull.msgs["ServerHello"] = m.body
    BY <1>3, <1>4, <1>5
  <2> QED
    BY <1>1, <2>1 DEF ServerMade
<1>7. pull.msgs["ServerKeyExchange"].curve = Curve(P)
  <2>1. PICK m \in Made("server", p) : m.typ = "ServerKeyExchange" /\ pull.msgs["ServerKeyExchange"] = m.body
    BY <1>3, <1>4, <1>5
  <2> QED
    BY <1>1, <2>1 DEF ServerMade
<1>8. PICK m \in Matching(c.cache, done) : TRUE
  BY <1>4, <1>5
<1>9. m \in Got("client", c) /\ m \in Made("server", p) /\ m.typ = "ServerHelloDone"
  BY <1>2, <1>5, FoundIsSent, TwoSides
<1>10. ASSUME "CertificateRequest" \in DOMAIN pull.msgs PROVE Asked(P)
  <2>1. PICK r \in ToSet(ServerRules) : r.typ = "CertificateRequest" /\ Matching(c.cache, r) # {}
    BY <1>10, Pulled
  <2>2. PICK x \in Made("server", p) : x.typ = "CertificateRequest"
    BY <1>3, <2>1
  <2> QED
    BY <1>1, <2>2 DEF ServerMade
<1>11. ASSUME Asked(P) PROVE "CertificateRequest" \in DOMAIN pull.msgs
  <2>1. PICK x \in Made("server", p) : x.typ = "CertificateRequest" /\ x.seq < m.seq
    BY <1>1, <1>9, <1>11 DEF ServerMade
  <2>2. x.seq \in Nat /\ m.seq \in Nat /\ x.epoch = 0 /\ x.from = "server"
    BY <1>1, <1>9, <2>1 DEF Own
  <2>3. x \in Got("client", c)
    BY <1>9, <2>1, <2>2, KnowsEarlier, TwoSides
  <2>4. x \in Matching(c.cache, request)
    BY <1>2, <1>5, <2>1, <2>2, <2>3 DEF Matching, Got
  <2>5. request.typ \in DOMAIN pull.msgs
    BY <1>1, <1>5, <2>4, RulesOfServer, Heard
  <2> QED
    BY <1>5, <2>5
<1> QED
  BY <1>6, <1>7, <1>9, <1>10, <1>11

\* With flight 4 the client knows all that is agreed.
LEMMA ClientAgrees ==
  ASSUME NEW P, NEW c, NEW p, Two(P, "client", c, p), c.fsm = "waiting", c.flight \in {1, 3}
  PROVE  Chosen(P, "client", c, Flight3Parse(c).conn)
<1> DEFINE again == FullPull(c.cache, c.recv_seq, <<May("HelloVerifyRequest", "server")>>)
           pull  == FullPull(c.cache, c.recv_seq, ServerRules)
           hello == pull.msgs["ServerHello"]
           curve == pull.msgs["ServerKeyExchange"].curve
           d == [c EXCEPT !.recv_seq = pull.seq, !.suite = hello.suite, !.srtp = hello.srtp,
                          !.ems = c.ems \/ (hello.ems /\ c.config.ems # "disable"),
                          !.peer_cert = IF "Certificate" \in DOMAIN pull.msgs
                                        THEN pull.msgs["Certificate"].cert ELSE @,
                          !.keypair = curve, !.pre_master = PreMaster(curve, curve),
                          !.requested = @ \/ "CertificateRequest" \in DOMAIN pull.msgs,
                          !.flight = 5, !.fsm = "preparing"]
<1>1. \/ Flight3Parse(c).conn = c
      \/ Flight3Parse(c).conn = Failing(c)
      \/ Flight3Parse(c).conn = Cookied(c, again.msgs["HelloVerifyRequest"].cookie, again.seq)
      \/ pull.ok /\ PreMaster(curve, curve) # None /\ Flight3Parse(c).conn = d
  BY DEF Flight3Parse, Keep, Goto, Failing, Cookied, ServerRules
<1>2. Chosen(P, "client", c, c) /\ Chosen(P, "client", c, Failing(c))
  BY NothingChosen, FailureChosen, TwoSides
<1>3. Chosen(P, "client", c, Cookied(c, again.msgs["HelloVerifyRequest"].cookie, again.seq))
  BY CookieTaken
<1>4. ASSUME pull.ok, PreMaster(curve, curve) # None
      PROVE  Chosen(P, "client", c, d)
  <2>1. c.config = P["client"] /\ IsConn(c) /\ Typed(P, "client", c) /\ Side(P, "client", c, p)
        /\ ClientChose(P, c)
    BY DEF Two, Typed
  <2>2. /\ hello.suite = Suite(P) /\ hello.srtp = Srtp(P)
        /\ hello.ems \in BOOLEAN /\ (hello.ems <=> Ems(P)) /\ curve = Curve(P)
        /\ "CertificateRequest" \in DOMAIN pull.msgs <=> Asked(P)
        /\ \E m \in Got("client", c) : m.typ = "ServerHelloDone"
    BY <1>4, ServerHeard
  <2> DEFINE ems == c.ems \/ (hello.ems /\ c.config.ems # "disable")
             requested == c.requested \/ "CertificateRequest" \in DOMAIN pull.msgs
             cert == IF "Certificate" \in DOMAIN pull.msgs THEN pull.msgs["Certificate"].cert ELSE c.peer_cert
  <2>3. c.ems = FALSE /\ c.requested = FALSE /\ ~HasKeys(c)
    BY <2>1 DEF ClientChose
  <2>4. ems \in BOOLEAN /\ (ems <=> Ems(P)) /\ requested \in BOOLEAN /\ (requested <=> Asked(P))
    <3> HIDE DEF pull, hello
    <3> QED
      BY <2>1, <2>2, <2>3 DEF Ems
  <2>5. PreMaster(curve, curve) = Curve(P)
    BY <1>4, <2>2 DEF PreMaster
  <2>6. d = [c EXCEPT !.recv_seq = pull.seq, !.suite = hello.suite, !.srtp = hello.srtp,
                      !.ems = ems, !.peer_cert = cert, !.keypair = curve,
                      !.pre_master = PreMaster(curve, curve), !.requested = requested,
                      !.flight = 5, !.fsm = "preparing"]
    <3> HIDE DEF pull
    <3> QED
      OBVIOUS
  <2> HIDE DEF d, pull, hello, curve, ems, requested, cert
  <2>7. /\ IsConn(d) /\ d.flight = 5 /\ d.fsm = "preparing" /\ d.suite = hello.suite
        /\ d.srtp = hello.srtp /\ d.ems = ems /\ d.keypair = curve
        /\ d.pre_master = PreMaster(curve, curve) /\ d.requested = requested
        /\ \A f \in Fields \ {"recv_seq", "suite", "srtp", "ems", "peer_cert", "keypair",
                              "pre_master", "requested", "flight", "fsm"} : d[f] = c[f]
    BY <2>1, <2>6, FieldNames DEF IsConn
  <2>8. Same(c, d, ChoiceFields)
    <3>1. {"recv_seq", "suite", "srtp", "ems", "peer_cert", "keypair",
           "pre_master", "requested", "flight", "fsm"} \subseteq ChoiceFields
      BY DEF ChoiceFields
    <3> QED
      BY <2>7, <3>1 DEF Same
  <2>9. d.reader = c.reader /\ d.rendezvous = c.rendezvous
    BY <2>7, FieldNames
  <2>10. ChoiceTypes("client", d)
    BY <2>1, <2>4, <2>7, <2>9 DEF Typed, ChoiceTypes
  <2>11. Got("client", d) = Got("client", c) /\ (HasKeys(d) <=> HasKeys(c))
    BY <2>1, <2>8, <2>10, QuietSide, TwoSides
  <2>12. ClientChose(P, d)
    <3>1. d.suite = Suite(P) /\ d.srtp = Srtp(P) /\ d.keypair = Curve(P) /\ d.pre_master = Curve(P)
          /\ (d.ems <=> Ems(P)) /\ (d.requested <=> Asked(P))
          /\ \E m \in Got("client", d) : m.typ = "ServerHelloDone"
      BY <2>2, <2>4, <2>5, <2>7, <2>11
    <3> QED
      BY <2>3, <2>7, <2>11, <3>1 DEF ClientChose
  <2> QED
    BY <2>8, <2>10, <2>12, TwoSides DEF Chosen
<1> QED
  BY <1>1, <1>2, <1>3, <1>4

\* Whatever answers the first ClientHello.
LEMMA FirstAnswer ==
  ASSUME NEW P, NEW c, NEW p, Two(P, "client", c, p), c.fsm = "waiting", c.flight = 1
  PROVE  Chosen(P, "client", c, Flight1Parse(c).conn)
<1> DEFINE pull == FullPull(c.cache, c.recv_seq,
                     <<May("HelloVerifyRequest", "server"), May("ServerHello", "server")>>)
<1>1. \/ Flight1Parse(c).conn = c
      \/ Flight1Parse(c) = Flight3Parse(c)
      \/ Flight1Parse(c).conn = Cookied(c, pull.msgs["HelloVerifyRequest"].cookie, pull.seq)
  BY DEF Flight1Parse, Keep, Goto, Complain, Cookied
<1>2. /\ Chosen(P, "client", c, c) /\ Chosen(P, "client", c, Flight3Parse(c).conn)
      /\ Chosen(P, "client", c, Cookied(c, pull.msgs["HelloVerifyRequest"].cookie, pull.seq))
  BY NothingChosen, ClientAgrees, CookieTaken, TwoSides
<1> QED
  BY <1>1, <1>2

\* The client ends with the server's Finished.
LEMMA LastAnswer ==
  ASSUME NEW P, NEW c, NEW p, Two(P, "client", c, p), c.fsm = "waiting", c.flight = 5
  PROVE  Chosen(P, "client", c, Flight5Parse(c).conn)
<1> DEFINE rule == NeedFinished("server")
           pull == FullPull(c.cache, c.recv_seq, <<rule>>)
           d == [c EXCEPT !.fsm = "finished"]
<1>1. \/ Flight5Parse(c).conn = c
      \/ Flight5Parse(c).conn = Failing(c)
      \/ pull.ok /\ Flight5Parse(c).conn = d
  BY DEF Flight5Parse, Keep, Finish, Failing
<1>2. Chosen(P, "client", c, c) /\ Chosen(P, "client", c, Failing(c))
  BY NothingChosen, FailureChosen, TwoSides
<1>3. ASSUME pull.ok PROVE Chosen(P, "client", c, d)
  <2>1. IsConn(c) /\ Typed(P, "client", c) /\ Side(P, "client", c, p) /\ ClientChose(P, c)
    BY DEF Two, Typed
  <2>2. \E m \in Got("client", c) : m.typ = "Finished"
    <3>1. rule.from = "server" /\ rule.typ = "Finished" /\ ~rule.optional
      BY DEF NeedFinished, Rule
    <3> HIDE DEF rule
    <3>2. rule \in ToSet(<<rule>>)
      BY DEF ToSet
    <3>3. PICK m \in Matching(c.cache, rule) : TRUE
      BY <1>3, <3>1, <3>2, Pulled
    <3>4. rule.from = Peer("client") /\ "client" \in Sides
      BY <3>1, TwoSides
    <3>5. m \in Got("client", c) /\ m.typ = rule.typ
      BY <3>3, <3>4, FoundIsSent
    <3> QED
      BY <3>1, <3>5
  <2>3. IsConn(d) /\ d.fsm = "finished" /\ \A f \in Fields \ {"fsm"} : d[f] = c[f]
    BY <2>1, FieldNames DEF IsConn
  <2> HIDE DEF d
  <2>4. Same(c, d, ChoiceFields)
    <3>1. "fsm" \in ChoiceFields
      BY DEF ChoiceFields
    <3> QED
      BY <2>3, <3>1 DEF Same
  <2>5. /\ d.flight = c.flight /\ d.reader = c.reader /\ d.rendezvous = c.rendezvous
        /\ d.ems = c.ems /\ d.requested = c.requested /\ d.suite = c.suite /\ d.srtp = c.srtp
        /\ d.keypair = c.keypair /\ d.pre_master = c.pre_master
    BY <2>3, FieldNames
  <2>6. ChoiceTypes("client", d)
    BY <2>1, <2>3, <2>5 DEF Typed, ChoiceTypes
  <2>7. Got("client", d) = Got("client", c) /\ (HasKeys(d) <=> HasKeys(c)) /\ d.local_epoch = c.local_epoch
    BY <2>1, <2>4, <2>6, QuietSide, ChoicesKeep, TwoSides
  <2>8. ClientChose(P, d)
    BY <2>1, <2>2, <2>3, <2>5, <2>7 DEF ClientChose
  <2> QED
    BY <2>4, <2>6, <2>8, TwoSides DEF Chosen
<1> QED
  BY <1>1, <1>2, <1>3

\* Who says nothing more and keeps its keys, or gets those of what was said, goes on.
Continues(P, s, c, p, d, secret) ==
    /\ Side(P, s, d, p) /\ d.local_epoch = c.local_epoch
    /\ Made(s, d) = Made(s, c) /\ Sent(s, d) = Sent(s, c) /\ Got(s, c) \subseteq Got(s, d)
    /\ d.master \in {c.master, secret}

\* One step on and then another.
LEMMA Onwards ==
  ASSUME NEW P, NEW s, NEW c, NEW p, NEW d, NEW e, NEW secret,
         Continues(P, s, c, p, d, secret), Continues(P, s, d, p, e, secret)
  PROVE  Continues(P, s, c, p, e, secret)
BY DEF Continues

\* A choice is a step on.
LEMMA ChosenContinues ==
  ASSUME NEW P, NEW s \in Sides, NEW c, NEW p, NEW d, NEW secret, Side(P, s, c, p),
         c.fsm # "sending", Chosen(P, s, c, d)
  PROVE  Continues(P, s, c, p, d, secret)
<1>1. /\ Typed(P, s, d) /\ Own(s, d) /\ Taken(s, d, p)
      /\ Made(s, d) = Made(s, c) /\ Sent(s, d) = Sent(s, c) /\ Got(s, d) = Got(s, c)
      /\ s = "client" => ClientMade(P, d)
  BY QuietSide DEF Chosen
<1>2. d.local_epoch = c.local_epoch /\ d.master = c.master
  BY ChoicesKeep DEF Chosen
<1>3. Side(P, s, d, p)
  BY <1>1 DEF Side, Chosen
<1> QED
  BY <1>1, <1>2, <1>3 DEF Continues

\* A step on keeps the invariant.
LEMMA ContinueStep ==
  ASSUME NEW P, NEW K, NEW N, NEW M, Inv(P, K, N), NEW s \in Sides, NEW d,
         Continues(P, s, K[s], K[Peer(s)], d, Secret(P, Said(K))),
         \A x \in M : x \in N \/ x = AlertDatagram(d)
  PROVE  Inv(P, [K EXCEPT ![s] = d], M)
<1> DEFINE L == [K EXCEPT ![s] = d]
           secret == Secret(P, Said(K))
<1>1. K = [x \in Sides |-> K[x]] /\ Keyed(P, K) /\ P \in Pairs
  BY DEF Inv
<1>2. L[s] = d /\ \A x \in Sides : x # s => L[x] = K[x]
  BY <1>1
<1>3. Said(L) = Said(K)
  <2>1. Said(L) = Made(s, K[s]) \cup Made(Peer(s), K[Peer(s)])
    BY SaidThen DEF Continues
  <2>2. CASE s = "client"
    BY <2>1, <2>2, TwoSides DEF Said
  <2>3. CASE s = "server"
    BY <2>1, <2>3, TwoSides DEF Said
  <2> QED
    BY <2>2, <2>3, TwoSides
<1>4. d.master = K[s].master \/ d.master = secret
  BY DEF Continues
<1>5. \A x \in Sides : HasKeys(K[x]) => K[x].master = secret
  BY <1>1 DEF Keyed
<1>6. d.role = s
  BY DEF Continues, Side, Typed
<1> HIDE DEF secret, L
<1>7. ASSUME NEW x \in Sides, HasKeys(L[x]) PROVE L[x].master = secret
  <2>1. CASE x = s
    BY <1>2, <1>4, <1>5, <1>7, <2>1 DEF HasKeys
  <2>2. CASE x # s
    BY <1>2, <1>5, <1>7, <2>2
  <2> QED
    BY <2>1, <2>2
<1>8. Keyed(P, L)
  BY <1>3, <1>7 DEF Keyed, secret
<1>9. \A x \in M : x \in N \/ Arrives(P, x, L)
  BY <1>1, <1>6, AlertArrives
<1>10. /\ Side(P, s, d, K[Peer(s)])
       /\ Sent(s, K[s]) \subseteq Sent(s, d) /\ (K[s].local_epoch = 1 => d.local_epoch = 1)
  BY DEF Continues
<1> QED
  BY <1>8, <1>9, <1>10, Advance DEF L

\* Both sides of the invariant, for a side that has looked at its cache.
LEMMA TwoOfInv ==
  ASSUME NEW P, NEW K, NEW N, Inv(P, K, N), NEW s \in Sides, NEW c, Side(P, s, c, K[Peer(s)])
  PROVE  Two(P, s, c, K[Peer(s)])
<1> DEFINE p == K[Peer(s)]
<1>1. P \in Pairs /\ Peer(s) \in Sides /\ Side(P, Peer(s), p, K[Peer(Peer(s))])
  BY TwoSides DEF Inv
<1>2. CASE s = "client"
  BY <1>1, <1>2, TwoSides DEF Side, Two
<1>3. CASE s = "server"
  BY <1>1, <1>3, TwoSides DEF Side, Two
<1> QED
  BY <1>2, <1>3, TwoSides

--------------------------------------------------------------------------------
(* The server's keys *)

\* With the client's key exchange a waiting server has all that the secret is bound to.
LEMMA SessionKnown ==
  ASSUME NEW P, NEW c, NEW p, Two(P, "server", c, p), c.fsm = "waiting",
         NEW m \in Got("server", c), m.typ = "ClientKeyExchange"
  PROVE  Pull(c.cache, SessionRules) =
           Pull(Made("client", p) \cup Made("server", c), SessionRules)
<1> DEFINE S == Made("client", p) \cup Made("server", c)
<1>1. /\ \A x \in Got("server", c) : x \in Made("client", p)
      /\ Messages(c.packets) \subseteq c.cache /\ \A x \in c.cache : x.from \in Sides
      /\ ClientMade(P, p)
  BY TwoSides DEF Two, Taken, Own, Typed, Made
<1>2. c.cache \subseteq S
  <2> SUFFICES ASSUME NEW x \in c.cache PROVE x \in S
    OBVIOUS
  <2>1. x \in Got("server", c) \/ x \in Sent("server", c)
    BY <1>1, TwoSides DEF Got, Sent
  <2> QED
    BY <1>1, <2>1 DEF Made
<1>3. \A x \in Made("server", c) : x \in c.cache
  BY <1>1 DEF Made, Sent
<1>4. ASSUME NEW x \in Made("client", p), x.typ \in {"ClientHello", "Certificate", "ClientKeyExchange"}
      PROVE  x \in c.cache
  <2>1. x.seq <= m.seq
    BY <1>1, <1>4 DEF ClientMade
  <2>2. x \in Got("server", c)
    BY <2>1, KnowsEarlier, TwoSides
  <2> QED
    BY <2>2 DEF Got
<1>5. \A x \in Made("client", p) : x.from = "client"
  BY TwoSides DEF Two, Own
<1>6. DOMAIN SessionRules = 1 .. 8
  BY DEF SessionRules
<1>7. \A i \in 1 .. 8 :
        \/ SessionRules[i].from = "server"
        \/ SessionRules[i].typ \in {"ClientHello", "Certificate", "ClientKeyExchange"}
  <2>1. \A i \in 1 .. 8 : i = 1 \/ i = 2 \/ i = 3 \/ i = 4 \/ i = 5 \/ i = 6 \/ i = 7 \/ i = 8
    OBVIOUS
  <2>2. /\ SessionRules[1].typ = "ClientHello" /\ SessionRules[2].from = "server"
        /\ SessionRules[3].from = "server" /\ SessionRules[4].from = "server"
        /\ SessionRules[5].from = "server" /\ SessionRules[6].from = "server"
        /\ SessionRules[7].typ = "Certificate" /\ SessionRules[8].typ = "ClientKeyExchange"
    BY DEF SessionRules, Need, Rule
  <2> HIDE DEF SessionRules
  <2> QED
    BY <2>1, <2>2
<1>8. ASSUME NEW i \in 1 .. 8 PROVE Matching(c.cache, SessionRules[i]) = Matching(S, SessionRules[i])
  <2> DEFINE rule == SessionRules[i]
  <2>1. rule.from = "server" \/ rule.typ \in {"ClientHello", "Certificate", "ClientKeyExchange"}
    BY <1>7
  <2> HIDE DEF rule
  <2>2. ASSUME NEW x \in S, x.typ = rule.typ, x.from = rule.from PROVE x \in c.cache
    <3>1. CASE x \in Made("server", c)
      BY <1>3, <3>1
    <3>2. CASE x \in Made("client", p)
      <4>1. rule.from # "server"
        <5>1. x.from = "client"
          BY <1>5, <3>2
        <5> QED
          BY <2>2, <5>1
      <4> QED
        BY <1>4, <2>1, <2>2, <3>2, <4>1
    <3> QED
      BY <3>1, <3>2
  <2> HIDE DEF S
  <2>3. Matching(c.cache, rule) = Matching(S, rule)
    BY <1>2, <2>2 DEF Matching
  <2> QED
    BY <2>3 DEF rule
<1> HIDE DEF S
<1>9. Pull(c.cache, SessionRules) = Pull(S, SessionRules)
  BY <1>6, <1>8, PullOfSame
<1> QED
  BY <1>9 DEF S

\* What the client has answered to flight 4.
ClientRules ==
    <<May("Certificate", "client"), Need("ClientKeyExchange", "client"),
      May("CertificateVerify", "client")>>

\* What a server waits for in flight 4, a rule for each type.
LEMMA RulesOfClient ==
  /\ ToSet(ClientRules) =
       {May("Certificate", "client"), Need("ClientKeyExchange", "client"),
        May("CertificateVerify", "client")}
  /\ \A r, q \in ToSet(ClientRules) : q.typ = r.typ => q = r
<1>1. ToSet(ClientRules) =
       {May("Certificate", "client"), Need("ClientKeyExchange", "client"),
        May("CertificateVerify", "client")}
  BY DEF ToSet, ClientRules
<1>2. \A r, q \in ToSet(ClientRules) : q.typ = r.typ => q = r
  <2>1. /\ May("Certificate", "client").typ = "Certificate"
        /\ Need("ClientKeyExchange", "client").typ = "ClientKeyExchange"
        /\ May("CertificateVerify", "client").typ = "CertificateVerify"
    BY DEF Need, May, Rule
  <2> QED
    BY <1>1, <2>1
<1> QED
  BY <1>1, <1>2

\* With the client's key exchange the server knows whether there is a certificate before
\* it, and whose.
LEMMA ClientHeard ==
  ASSUME NEW P, NEW c, NEW p, Two(P, "server", c, p), NEW start, NEW pull,
         pull = FullPull(c.cache, start, ClientRules), pull.ok
  PROVE  /\ pull.msgs["ClientKeyExchange"].public_key = Curve(P)
         /\ "Certificate" \in DOMAIN pull.msgs =>
              Asked(P) /\ pull.msgs["Certificate"].cert = P["client"].cert
         /\ Asked(P) => "Certificate" \in DOMAIN pull.msgs
         /\ \E m \in Got("server", c) : m.typ = "ClientKeyExchange"
<1>1. Bounded(c.cache) /\ ClientMade(P, p) /\ Own("client", p)
  BY CacheIsBounded, TwoSides DEF Two
<1>2. \A r \in ToSet(ClientRules) : r.from = "client" /\ r.epoch = 0
  BY RulesOfClient DEF Need, May, Rule
<1>0. ASSUME NEW rule, rule.from = "client", NEW m \in Matching(c.cache, rule)
      PROVE  m \in Got("server", c) /\ m \in Made("client", p) /\ m.typ = rule.typ
  <2>1. m \in Got("server", c) /\ m.typ = rule.typ
    BY <1>0, TwoSides DEF Matching, Got
  <2>2. m \in Sent("client", p)
    BY <2>1, TwoSides DEF Two, Taken
  <2> QED
    BY <2>1, <2>2 DEF Made
<1>3. ASSUME NEW r \in ToSet(ClientRules), Matching(c.cache, r) # {}
      PROVE  \E m \in Made("client", p) : m.typ = r.typ /\ pull.msgs[r.typ] = m.body
  <2>1. \E m \in Matching(c.cache, r) : pull.msgs[r.typ] = m.body
    BY <1>1, <1>3, RulesOfClient, Heard
  <2>2. ASSUME NEW m \in Matching(c.cache, r) PROVE m \in Made("client", p) /\ m.typ = r.typ
    <3>1. r.from = "client"
      BY <1>2
    <3> QED
      BY <1>0, <3>1
  <2> QED
    BY <2>1, <2>2
<1>4. \A r \in ToSet(ClientRules) : r.optional \/ Matching(c.cache, r) # {}
  BY Pulled
<1> DEFINE key == Need("ClientKeyExchange", "client")
           cert == May("Certificate", "client")
<1>5. /\ key \in ToSet(ClientRules) /\ key.typ = "ClientKeyExchange" /\ ~key.optional
      /\ cert \in ToSet(ClientRules) /\ cert.typ = "Certificate"
  BY RulesOfClient DEF Need, May, Rule
<1> HIDE DEF key, cert
<1>6. pull.msgs["ClientKeyExchange"].public_key = Curve(P)
  <2>1. PICK m \in Made("client", p) : m.typ = "ClientKeyExchange" /\ pull.msgs["ClientKeyExchange"] = m.body
    BY <1>3, <1>4, <1>5
  <2> QED
    BY <1>1, <2>1 DEF ClientMade
<1>7. ASSUME "Certificate" \in DOMAIN pull.msgs
      PROVE  Asked(P) /\ pull.msgs["Certificate"].cert = P["client"].cert
  <2>1. PICK r \in ToSet(ClientRules) : r.typ = "Certificate" /\ Matching(c.cache, r) # {}
    BY <1>7, Pulled
  <2>2. PICK m \in Made("client", p) : m.typ = "Certificate" /\ pull.msgs["Certificate"] = m.body
    BY <1>3, <2>1
  <2> QED
    BY <1>1, <2>2 DEF ClientMade
<1>8. PICK m \in Matching(c.cache, key) : TRUE
  BY <1>4, <1>5
<1>9. m \in Got("server", c) /\ m \in Made("client", p) /\ m.typ = "ClientKeyExchange"
  <2>1. key.from = "client"
    BY <1>2, <1>5
  <2> QED
    BY <1>5, <1>0, <2>1
<1>10. ASSUME Asked(P) PROVE "Certificate" \in DOMAIN pull.msgs
  <2>1. PICK x \in Made("client", p) : x.typ = "Certificate" /\ x.seq < m.seq
    BY <1>1, <1>9, <1>10 DEF ClientMade
  <2>2. x.seq \in Nat /\ m.seq \in Nat /\ x.epoch = 0 /\ x.from = "client"
    BY <1>1, <1>9, <2>1 DEF Own
  <2>3. x \in Got("server", c)
    BY <1>9, <2>1, <2>2, KnowsEarlier, TwoSides
  <2>4. x \in Matching(c.cache, cert)
    BY <1>2, <1>5, <2>1, <2>2, <2>3 DEF Matching, Got
  <2>5. cert.typ \in DOMAIN pull.msgs
    BY <1>1, <1>5, <2>4, RulesOfClient, Heard
  <2> QED
    BY <1>5, <2>5
<1> QED
  BY <1>6, <1>7, <1>9, <1>10

\* The certificate the server asked for is there when the key exchange is.
Shown(c, cert, verified) == [c EXCEPT !.peer_cert = cert, !.verified = verified]

\* Keeping the client's certificate is a choice.
LEMMA CertificateShown ==
  ASSUME NEW P, NEW c, NEW p, Two(P, "server", c, p), c.fsm = "waiting", c.flight = 4,
         NEW cert, cert = (IF Asked(P) THEN P["client"].cert ELSE None), NEW verified,
         NEW d, d = Shown(c, cert, verified)
  PROVE  /\ Chosen(P, "server", c, d)
         /\ d.flight = c.flight /\ d.fsm = c.fsm /\ d.peer_cert = cert /\ d.config = c.config
         /\ d.keypair = c.keypair /\ d.queue = c.queue
<1>1. IsConn(c) /\ Typed(P, "server", c) /\ Side(P, "server", c, p) /\ ServerMade(P, c) /\ ServerChose(P, c)
  BY DEF Two, Typed
<1>2. /\ IsConn(d) /\ d.peer_cert = cert
      /\ \A f \in Fields \ {"peer_cert", "verified"} : d[f] = c[f]
  BY <1>1, FieldNames DEF IsConn, Shown
<1>3. Same(c, d, ChoiceFields)
  <2>1. {"peer_cert", "verified"} \subseteq ChoiceFields
    BY DEF ChoiceFields
  <2> QED
    BY <1>2, <2>1 DEF Same
<1>4. /\ d.flight = c.flight /\ d.fsm = c.fsm /\ d.reader = c.reader /\ d.rendezvous = c.rendezvous
      /\ d.ems = c.ems /\ d.requested = c.requested /\ d.suite = c.suite /\ d.srtp = c.srtp
      /\ d.keypair = c.keypair /\ d.curve = c.curve /\ d.cookie = c.cookie /\ d.config = c.config
      /\ d.queue = c.queue
  BY <1>2, FieldNames
<1>5. ChoiceTypes("server", d)
  BY <1>1, <1>4 DEF Typed, ChoiceTypes
<1>6. /\ Made("server", d) = Made("server", c) /\ Sent("server", d) = Sent("server", c)
      /\ Got("server", d) = Got("server", c) /\ (HasKeys(d) <=> HasKeys(c))
  BY <1>1, <1>3, <1>5, QuietSide, TwoSides
<1>7. ServerMade(P, d)
  BY <1>1, <1>4, <1>6 DEF ServerMade
<1>8. ServerChose(P, d)
  <2>1. d.peer_cert # None => Asked(P) /\ d.peer_cert = P["client"].cert
    BY <1>2
  <2> QED
    BY <1>1, <1>4, <1>6, <2>1 DEF ServerChose
<1> QED
  BY <1>2, <1>3, <1>4, <1>5, <1>7, <1>8, TwoSides DEF Chosen

\* The secret is that of what both have said.
LEMMA ServerDerives ==
  ASSUME NEW P, NEW c, NEW p, Two(P, "server", c, p), c.fsm = "waiting", c.flight = 4,
         NEW m \in Got("server", c), m.typ = "ClientKeyExchange",
         HasKeys(c) \/ PreMaster(c.keypair, Curve(P)) # None,
         NEW secret, secret = Secret(P, Made("client", p) \cup Made("server", c)),
         NEW d, d = ServerKeys(c, Curve(P))
  PROVE  /\ Continues(P, "server", c, p, d, secret) /\ HasKeys(d)
         /\ d.flight = c.flight /\ d.fsm = c.fsm /\ d.peer_cert = c.peer_cert
<1>1. IsConn(c) /\ Typed(P, "server", c) /\ Side(P, "server", c, p) /\ ServerMade(P, c) /\ ServerChose(P, c)
  BY DEF Two, Typed
<1>2. CASE HasKeys(c)
  <2>1. d = c
    BY <1>2 DEF ServerKeys
  <2> QED
    BY <1>1, <1>2, <2>1 DEF Continues
<1>3. CASE ~HasKeys(c)
  <2> DEFINE master == MasterSecret(c, PreMaster(c.keypair, Curve(P)), SessionHash(c.cache, <<>>))
  <2>1. d = [c EXCEPT !.master = master]
    BY <1>3 DEF ServerKeys
  <2>2. PreMaster(c.keypair, Curve(P)) = Curve(P)
    BY <1>1, <1>3 DEF PreMaster, ServerChose
  <2>3. SessionHash(c.cache, <<>>) = Pull(Made("client", p) \cup Made("server", c), SessionRules)
    BY PullIsSequence, SessionKnown DEF SessionHash
  <2>4. c.suite = Suite(P) /\ (c.ems <=> Ems(P))
    BY <1>1 DEF ServerChose
  <2>5. master = secret
    BY <2>2, <2>3, <2>4 DEF MasterSecret, Secret
  <2>6. secret # <<>>
    BY DEF Secret
  <2> HIDE DEF master
  <2>7. /\ IsConn(d) /\ d.master = secret /\ \A f \in Fields \ {"master"} : d[f] = c[f]
    BY <1>1, <2>1, <2>5, FieldNames DEF IsConn
  <2>8. /\ d.role = c.role /\ d.config = c.config /\ d.flight = c.flight
        /\ d.fsm = c.fsm /\ d.packets = c.packets /\ d.send_seq = c.send_seq
        /\ d.local_epoch = c.local_epoch /\ d.cookie = c.cookie /\ d.remote_epoch = c.remote_epoch
        /\ d.suite = c.suite /\ d.srtp = c.srtp /\ d.ems = c.ems /\ d.curve = c.curve
        /\ d.keypair = c.keypair /\ d.requested = c.requested /\ d.peer_cert = c.peer_cert
        /\ d.cache = c.cache /\ d.reader = c.reader /\ d.rendezvous = c.rendezvous
        /\ d.fragments = c.fragments /\ d.next = c.next /\ d.queue = c.queue
    BY <2>7, FieldNames
  <2>9. HasKeys(d)
    BY <2>6, <2>7 DEF HasKeys
  <2>10. /\ Made("server", d) = Made("server", c) /\ Sent("server", d) = Sent("server", c)
         /\ Got("server", d) = Got("server", c)
    BY <2>8 DEF Made, Sent, Got
  <2>11. Typed(P, "server", d)
    BY <1>1, <2>7, <2>8 DEF Typed
  <2>12. Own("server", d)
    BY <2>8, <2>9, <2>10 DEF Two, Own
  <2>13. Taken("server", d, p)
    BY <2>8, <2>9, <2>10 DEF Two, Taken
  <2>14. ServerMade(P, d)
    BY <1>1, <2>8, <2>10 DEF ServerMade
  <2>15. ServerChose(P, d)
    <3>1. \E x \in Got("server", d) : x.typ = "ClientKeyExchange"
      BY <2>10
    <3> QED
      BY <1>1, <2>8, <2>9, <3>1 DEF ServerChose
  <2>16. Side(P, "server", d, p)
    BY <2>11, <2>12, <2>13, <2>14, <2>15, TwoSides DEF Side
  <2> QED
    BY <2>7, <2>8, <2>9, <2>10, <2>16 DEF Continues
<1> QED
  BY <1>2, <1>3

\* What waited for the keys is read.
LEMMA QueueIsRead ==
  ASSUME NEW P, NEW s \in Sides, NEW c, NEW p, Two(P, s, c, p), NEW secret,
         NEW d, d = HandleQueuedPackets(c)
  PROVE  /\ Continues(P, s, c, p, d, secret)
         /\ d.flight = c.flight /\ d.fsm = c.fsm /\ d.peer_cert = c.peer_cert /\ d.master = c.master
<1> DEFINE Q == ToSet(c.queue)
           first == [c EXCEPT !.queue = <<>>]
           R == ReadAll(first, c.queue, FALSE)
           x == CHOOSE y \in R : TRUE
           b == x.conn
<1>1. Side(P, s, c, p) /\ Own(Peer(s), p) /\ c.queue \in Seq(Q)
      /\ \A r \in ToSet(c.queue) : Genuine(r, p.local_epoch, Sent(Peer(s), p))
  BY DEF Two, Typed, Taken
<1>2. ReadOn(s, c, p, Q, first)
  BY <1>1, ReadBegins
<1> HIDE DEF first, Q
<1>3. R # {} /\ \A y \in R : IsRead(s, c, p, Q, y)
  <2>1. FALSE \in BOOLEAN
    OBVIOUS
  <2> QED
    BY <1>1, <1>2, <2>1, ReadAllKeeps
<1> HIDE DEF R
<1>4. IsRead(s, c, p, Q, x)
  BY <1>3
<1>5. d = [x.conn EXCEPT !.reader = IF x.alert THEN "gone" ELSE @]
  BY DEF HandleQueuedPackets, x, R, first
<1> HIDE DEF x
<1>6. ReadOn(s, c, p, Q, b)
  BY <1>4 DEF IsRead
<1>7. d = [b EXCEPT !.reader = IF x.alert THEN "gone" ELSE @]
  BY <1>5
<1> HIDE DEF b
<1>8. /\ Side(P, s, b, p)
      /\ Made(s, b) = Made(s, c) /\ Sent(s, b) = Sent(s, c) /\ Got(s, c) \subseteq Got(s, b)
      /\ b.master = c.master /\ b.local_epoch = c.local_epoch
  BY <1>1, <1>6, ReadSide
<1>9. b.flight = c.flight /\ b.fsm = c.fsm /\ b.peer_cert = c.peer_cert
  BY <1>6, MovingKeeps DEF ReadOn
<1>10. IsConn(b) /\ b.reader \in {"up", "gone"} /\ b.rendezvous \in BOOLEAN
  BY <1>8 DEF Side, Typed
<1>11. Same(b, d, Flags) /\ d.reader \in {"up", "gone"} /\ d.rendezvous = b.rendezvous
  BY <1>7, <1>10, FieldNames DEF Same, Flags, IsConn
<1>12. d.flight = b.flight /\ d.fsm = b.fsm /\ d.peer_cert = b.peer_cert
  BY <1>11, FieldNames DEF Same, Flags
<1>13. /\ Side(P, s, d, p)
       /\ Made(s, d) = Made(s, b) /\ Sent(s, d) = Sent(s, b) /\ Got(s, d) = Got(s, b)
       /\ d.master = b.master /\ d.local_epoch = b.local_epoch
  <2>1. d.rendezvous \in BOOLEAN
    BY <1>10, <1>11
  <2> QED
    BY <1>8, <1>11, <2>1, FlagSide
<1> QED
  BY <1>8, <1>9, <1>12, <1>13 DEF Continues

\* A side that goes on is a side still.
LEMMA TwoThen ==
  ASSUME NEW P, NEW s \in Sides, NEW c, NEW p, Two(P, s, c, p), NEW d, Side(P, s, d, p)
  PROVE  Two(P, s, d, p)
BY TwoSides DEF Two, Side

\* The last flight of the server may be made.
LEMMA LastFlightChosen ==
  ASSUME NEW P, NEW c, NEW p, Two(P, "server", c, p), c.fsm = "waiting", c.flight = 4,
         HasKeys(c), c.peer_cert = (IF Asked(P) THEN P["client"].cert ELSE None),
         NEW seq, NEW d, d = Goto([c EXCEPT !.recv_seq = seq], 6).conn
  PROVE  Chosen(P, "server", c, d)
<1>1. IsConn(c) /\ Typed(P, "server", c) /\ Side(P, "server", c, p) /\ ServerMade(P, c) /\ ServerChose(P, c)
  BY DEF Two, Typed
<1>2. /\ IsConn(d) /\ d.flight = 6 /\ d.fsm = "preparing"
      /\ \A f \in Fields \ {"recv_seq", "flight", "fsm"} : d[f] = c[f]
  BY <1>1, FieldNames DEF IsConn, Goto
<1>3. Same(c, d, ChoiceFields)
  <2>1. {"recv_seq", "flight", "fsm"} \subseteq ChoiceFields
    BY DEF ChoiceFields
  <2> QED
    BY <1>2, <2>1 DEF Same
<1>4. /\ d.reader = c.reader /\ d.rendezvous = c.rendezvous
      /\ d.ems = c.ems /\ d.requested = c.requested /\ d.suite = c.suite /\ d.srtp = c.srtp
      /\ d.keypair = c.keypair /\ d.curve = c.curve /\ d.cookie = c.cookie /\ d.peer_cert = c.peer_cert
  BY <1>2, FieldNames
<1>5. ChoiceTypes("server", d)
  BY <1>1, <1>2, <1>4 DEF Typed, ChoiceTypes
<1>6. /\ Made("server", d) = Made("server", c) /\ Sent("server", d) = Sent("server", c)
      /\ Got("server", d) = Got("server", c) /\ (HasKeys(d) <=> HasKeys(c))
  BY <1>1, <1>3, <1>5, QuietSide, TwoSides
<1>7. ServerMade(P, d)
  <2>1. \A m \in Made("server", d) : m.typ # "Finished"
    BY <1>1, <1>6 DEF ServerMade
  <2>2. \A m \in Sent("server", d) : m.typ # "Finished"
    BY <2>1 DEF Made
  <2> QED
    BY <1>1, <1>2, <1>6, <2>1, <2>2 DEF ServerMade
<1>8. ServerChose(P, d)
  BY <1>1, <1>2, <1>4, <1>6 DEF ServerChose
<1> QED
  BY <1>3, <1>5, <1>7, <1>8, TwoSides DEF Chosen

\* The client's answer, as a whole: certificate, keys, and what waited for them.
LEMMA ServerFollows ==
  ASSUME NEW P, NEW c, NEW p, Two(P, "server", c, p), c.fsm = "waiting", c.flight = 4,
         NEW secret, secret = Secret(P, Made("client", p) \cup Made("server", c))
  PROVE  Continues(P, "server", c, p, Flight4Parse(c).conn, secret)
<1> DEFINE keys   == FullPull(c.cache, c.recv_seq, ClientRules)
           public_key == keys.msgs["ClientKeyExchange"].public_key
           cert   == IF "Certificate" \in DOMAIN keys.msgs THEN keys.msgs["Certificate"].cert ELSE c.peer_cert
           proven == "CertificateVerify" \in DOMAIN keys.msgs
           verified == IF proven THEN c.config.auth >= VerifyClientCertIfGiven ELSE c.verified
           shown  == Shown(c, cert, verified)
           keyed  == ServerKeys(shown, public_key)
           read   == HandleQueuedPackets(keyed)
           pull   == FullPull(read.cache, keys.seq, <<NeedFinished("client")>>)
           last   == Goto([read EXCEPT !.recv_seq = pull.seq], 6).conn
           o      == Flight4Parse(c).conn
<1>1. \/ o = c
      \/ o = Failing(c)
      \/ keys.ok /\ o = shown
      \/ /\ keys.ok
         /\ HasKeys(c) \/ PreMaster(c.keypair, public_key) # None
         /\ o \in {read, Failing(read), last}
  <2>1. shown = [c EXCEPT !.peer_cert = cert,
                          !.verified = IF proven THEN c.config.auth >= VerifyClientCertIfGiven ELSE @]
    BY DEF Shown
  <2>2. Flight4Parse(c) =
          IF ~keys.ok THEN Keep(c)
          ELSE IF proven /\ ~ClientProofHolds(c, cert, keys.msgs["CertificateVerify"]) THEN Fail(c)
          ELSE IF ~proven /\ cert # None THEN Keep(shown)
          ELSE IF ~HasKeys(c) /\ PreMaster(c.keypair, public_key) = None THEN Fail(c)
          ELSE IF ~pull.ok THEN Keep(read)
          ELSE IF ~ClientAccepted(c.config.auth, cert, read.verified) THEN Fail(read)
          ELSE Goto([read EXCEPT !.recv_seq = pull.seq], 6)
    BY <2>1 DEF Flight4Parse, ClientRules
  <2> HIDE DEF keys, public_key, cert, proven, shown, read, pull
  <2> QED
    BY <2>2 DEF Keep, Failing
<1>2. Side(P, "server", c, p) /\ c.fsm # "sending" /\ "server" \in Sides
  BY TwoSides DEF Two
<1>3. Continues(P, "server", c, p, c, secret) /\ Continues(P, "server", c, p, Failing(c), secret)
  <2>1. Chosen(P, "server", c, c) /\ Chosen(P, "server", c, Failing(c))
    BY <1>2, NothingChosen, FailureChosen
  <2> QED
    BY <1>2, <2>1, ChosenContinues
<1>4. ASSUME keys.ok
      PROVE  /\ Chosen(P, "server", c, shown) /\ Continues(P, "server", c, p, shown, secret)
             /\ shown.flight = 4 /\ shown.fsm = "waiting" /\ shown.keypair = c.keypair
             /\ shown.peer_cert = (IF Asked(P) THEN P["client"].cert ELSE None)
             /\ public_key = Curve(P)
             /\ \E m \in Got("server", shown) : m.typ = "ClientKeyExchange"
  <2>1. /\ public_key = Curve(P)
        /\ "Certificate" \in DOMAIN keys.msgs =>
              Asked(P) /\ keys.msgs["Certificate"].cert = P["client"].cert
        /\ Asked(P) => "Certificate" \in DOMAIN keys.msgs
        /\ \E m \in Got("server", c) : m.typ = "ClientKeyExchange"
    BY <1>4, ClientHeard
  <2>2. c.peer_cert # None => Asked(P)
    BY DEF Two, ServerChose
  <2>3. cert = (IF Asked(P) THEN P["client"].cert ELSE None)
    <3> HIDE DEF keys
    <3> QED
      BY <2>1, <2>2
  <2> HIDE DEF keys, cert, verified, public_key
  <2>4. /\ Chosen(P, "server", c, shown)
        /\ shown.flight = c.flight /\ shown.fsm = c.fsm /\ shown.peer_cert = cert
        /\ shown.keypair = c.keypair
    <3> HIDE DEF shown
    <3>1. shown = Shown(c, cert, verified)
      BY DEF shown
    <3> QED
      BY <2>3, <3>1, CertificateShown
  <2> HIDE DEF shown
  <2>5. Continues(P, "server", c, p, shown, secret)
    BY <1>2, <2>4, ChosenContinues
  <2> QED
    BY <2>1, <2>3, <2>4, <2>5 DEF Continues
<1>5. HasKeys(c) <=> HasKeys(shown)
  BY DEF HasKeys, Shown
<1> HIDE DEF keys, cert, verified, public_key, shown
<1>6. ASSUME keys.ok, HasKeys(c) \/ PreMaster(c.keypair, public_key) # None
      PROVE  /\ Continues(P, "server", c, p, read, secret)
             /\ Continues(P, "server", c, p, Failing(read), secret)
             /\ Continues(P, "server", c, p, last, secret)
  <2>1. Two(P, "server", shown, p)
    BY <1>2, <1>4, <1>6, TwoThen DEF Continues
  <2>2. secret = Secret(P, Made("client", p) \cup Made("server", shown))
    BY <1>4, <1>6 DEF Continues
  <2>3. HasKeys(shown) \/ PreMaster(shown.keypair, Curve(P)) # None
    BY <1>4, <1>5, <1>6
  <2>4. keyed = ServerKeys(shown, Curve(P))
    BY <1>4, <1>6
  <2>5. PICK m \in Got("server", shown) : m.typ = "ClientKeyExchange"
    BY <1>4, <1>6
  <2> HIDE DEF keyed
  <2>6. /\ Continues(P, "server", shown, p, keyed, secret) /\ HasKeys(keyed)
        /\ keyed.flight = shown.flight /\ keyed.fsm = shown.fsm /\ keyed.peer_cert = shown.peer_cert
    BY <1>4, <1>6, <2>1, <2>2, <2>3, <2>4, <2>5, ServerDerives
  <2>7. Two(P, "server", keyed, p)
    BY <1>2, <2>1, <2>6, TwoThen DEF Continues
  <2>8. /\ Continues(P, "server", keyed, p, read, secret)
        /\ read.flight = keyed.flight /\ read.fsm = keyed.fsm /\ read.peer_cert = keyed.peer_cert
        /\ read.master = keyed.master
    BY <1>2, <2>7, QueueIsRead
  <2> HIDE DEF read
  <2>9. Two(P, "server", read, p) /\ Side(P, "server", read, p)
    BY <1>2, <2>7, <2>8, TwoThen DEF Continues
  <2>10. /\ read.fsm = "waiting" /\ read.flight = 4 /\ HasKeys(read)
         /\ read.peer_cert = (IF Asked(P) THEN P["client"].cert ELSE None)
    BY <1>4, <1>6, <2>6, <2>8 DEF HasKeys
  <2>11. Continues(P, "server", c, p, read, secret)
    BY <1>4, <1>6, <2>6, <2>8, Onwards
  <2>12. Chosen(P, "server", read, Failing(read)) /\ Chosen(P, "server", read, last)
    <3> HIDE DEF pull
    <3> QED
      BY <1>2, <2>9, <2>10, FailureChosen, LastFlightChosen
  <2> HIDE DEF last
  <2>13. /\ Continues(P, "server", read, p, Failing(read), secret)
         /\ Continues(P, "server", read, p, last, secret)
    BY <1>2, <2>9, <2>10, <2>12, ChosenContinues
  <2> QED
    BY <2>11, <2>13, Onwards
<1> HIDE DEF read, last, o
<1>7. Continues(P, "server", c, p, o, secret)
  BY <1>1, <1>3, <1>4, <1>6
<1> QED
  BY <1>7 DEF o

\* Whatever a side parses, it goes on.
AfterParse(c) == Parse([c EXCEPT !.rendezvous = FALSE]).conn

\* Parsing keeps the invariant, in whatever flight.
LEMMA ParseStep ==
  ASSUME NEW P, NEW K, NEW N, NEW M, Inv(P, K, N), NEW s \in Sides, K[s].fsm = "waiting",
         NEW d, d = AfterParse(K[s]),
         \A x \in M : x \in N \/ x = AlertDatagram(d)
  PROVE  Inv(P, [K EXCEPT ![s] = d], M)
<1> DEFINE b == K[s]
           c == [b EXCEPT !.rendezvous = FALSE]
           p == K[Peer(s)]
           secret == Secret(P, Said(K))
<1>1. Side(P, s, b, p) /\ Typed(P, s, b) /\ IsConn(b) /\ b.fsm = "waiting"
  BY DEF Inv, Side, Typed
<1>2. d = Parse(c).conn
  BY DEF AfterParse
<1> HIDE DEF b, p, secret
<1>3. IsConn(c) /\ c.rendezvous = FALSE /\ \A f \in Fields \ {"rendezvous"} : c[f] = b[f]
  BY <1>1, FieldNames DEF IsConn
<1> HIDE DEF c
<1>4. c.fsm = "waiting" /\ c.reader = b.reader /\ c.flight = b.flight
  BY <1>1, <1>3, FieldNames
<1>5. Same(b, c, Flags) /\ c.reader \in {"up", "gone"} /\ c.rendezvous \in BOOLEAN
  BY <1>1, <1>3, <1>4 DEF Same, Flags, Typed
<1>6. Side(P, s, c, p) /\ Made(s, c) = Made(s, b) /\ Sent(s, c) = Sent(s, b) /\ Got(s, c) = Got(s, b)
      /\ c.master = b.master /\ c.local_epoch = b.local_epoch
  BY <1>1, <1>5, FlagSide
<1>7. Continues(P, s, b, p, c, secret)
  BY <1>6 DEF Continues
<1>8. Two(P, s, c, p)
  BY <1>6, TwoOfInv DEF p
<1>9. Continues(P, s, c, p, d, secret)
  <2>1. CASE s = "client"
    <3>1. c.flight \in {1, 3, 5}
      BY <1>6, <2>1 DEF Side, Typed
    <3>2. Two(P, "client", c, p)
      BY <1>8, <2>1
    <3>3. Chosen(P, s, c, d)
      <4>1. CASE c.flight = 1
        <5>1. d = Flight1Parse(c).conn
          BY <1>2, <4>1 DEF Parse
        <5> QED
          BY <1>4, <2>1, <3>2, <4>1, <5>1, FirstAnswer
      <4>2. CASE c.flight = 3
        <5>1. d = Flight3Parse(c).conn
          BY <1>2, <4>2 DEF Parse
        <5> QED
          BY <1>4, <2>1, <3>2, <4>2, <5>1, ClientAgrees
      <4>3. CASE c.flight = 5
        <5>1. d = Flight5Parse(c).conn
          BY <1>2, <4>3 DEF Parse
        <5> QED
          BY <1>4, <2>1, <3>2, <4>3, <5>1, LastAnswer
      <4> QED
        BY <3>1, <4>1, <4>2, <4>3
    <3> QED
      BY <1>4, <1>6, <3>3, ChosenContinues
  <2>2. CASE s = "server"
    <3>1. c.flight \in {0, 2, 4}
      BY <1>4, <1>6, <2>2, TwoSides DEF Side, Typed, ServerChose
    <3>0. Two(P, "server", c, p)
      BY <1>8, <2>2
    <3>2. CASE c.flight \in {0, 2}
      <4>1. Chosen(P, s, c, d)
        <5>1. CASE c.flight = 0
          <6>1. d = Flight0Parse(c).conn
            BY <1>2, <5>1 DEF Parse
          <6> QED
            BY <1>4, <2>2, <3>0, <5>1, <6>1, ServerAgrees
        <5>2. CASE c.flight = 2
          <6>1. d = Flight2Parse(c).conn
            BY <1>2, <5>2 DEF Parse
          <6> QED
            BY <1>4, <2>2, <3>0, <5>2, <6>1, CookieMatches
        <5> QED
          BY <3>2, <5>1, <5>2
      <4> QED
        BY <1>4, <1>6, <4>1, ChosenContinues
    <3>3. CASE c.flight = 4
      <4>1. secret = Secret(P, Made("client", p) \cup Made("server", c))
        BY <1>6, <2>2, TwoSides DEF secret, Said, b, p
      <4>2. d = Flight4Parse(c).conn
        BY <1>2, <3>3 DEF Parse
      <4> QED
        BY <1>4, <2>2, <3>0, <3>3, <4>1, <4>2, ServerFollows
    <3> QED
      BY <3>1, <3>2, <3>3
  <2> QED
    BY <2>1, <2>2, TwoSides
<1>10. Continues(P, s, b, p, d, secret)
  BY <1>7, <1>9, Onwards
<1> QED
  BY <1>10, ContinueStep DEF b, p, secret

--------------------------------------------------------------------------------
(* Preparing: the numbers of a flight's messages *)

IsMessage(s, r) ==
    r = [content |-> "handshake", epoch |-> r.epoch, key |-> r.key,
         msg |-> [typ |-> r.msg.typ, from |-> s, epoch |-> IF r.msg.typ = "Finished" THEN 1 ELSE 0,
                  seq |-> 0, body |-> r.msg.body]]

FlightOf(s, q) ==
    /\ q \in Seq(ToSet(q))
    /\ \A r \in ToSet(q) : IsMessage(s, r) \/ r = ChangeCipherSpec

Shakes(q) == {j \in 1 .. Len(q) : IsHandshake(q[j])}
Before(q, i) == {j \in 1 .. i - 1 : IsHandshake(q[j])}

\* The messages of a flight get the numbers after n, in their order.
LEMMA NumbersRise ==
  ASSUME NEW s, NEW q, FlightOf(s, q), NEW n \in Nat, NEW R, R = Numbered(q, n)
  PROVE  /\ R \in Seq(ToSet(R)) /\ Len(R) = Len(q)
         /\ \A i \in 1 .. Len(q) :
              /\ R[i].content = q[i].content /\ R[i].epoch = q[i].epoch
              /\ IsHandshake(q[i]) =>
                   /\ R[i].msg.typ = q[i].msg.typ /\ R[i].msg.body = q[i].msg.body
                   /\ R[i].msg.from = s
                   /\ R[i].msg.epoch = IF R[i].msg.typ = "Finished" THEN 1 ELSE 0
         /\ Messages(R) = {R[i].msg : i \in Shakes(q)}
         /\ \A i, j \in Shakes(q) : i < j => R[i].msg.seq < R[j].msg.seq
         /\ Cardinality(Messages(R)) \in Nat
         /\ \A i \in Shakes(q) :
              R[i].msg.seq \in Nat /\ R[i].msg.seq >= n /\ R[i].msg.seq < n + Cardinality(Messages(R))
<1>1. q \in Seq(ToSet(q)) /\ Len(q) \in Nat /\ DOMAIN q = 1 .. Len(q)
  BY DEF FlightOf
<1>2. \A i \in 1 .. Len(q) : q[i] \in ToSet(q)
  BY <1>1 DEF ToSet
<1>3. \A i \in 1 .. Len(q) : IsMessage(s, q[i]) \/ q[i] = ChangeCipherSpec
  BY <1>2 DEF FlightOf
<1> DEFINE b(i) == Cardinality(Before(q, i))
<1>4. \A i \in 1 .. Len(q) :
        R[i] = IF IsHandshake(q[i]) THEN [q[i] EXCEPT !.msg.seq = n + b(i)] ELSE q[i]
  BY <1>1 DEF Numbered, Before
<1>5. R = [i \in 1 .. Len(q) |-> R[i]]
  BY <1>1 DEF Numbered
<1>6. R \in Seq(ToSet(R)) /\ Len(R) = Len(q) /\ DOMAIN R = 1 .. Len(q)
  BY <1>1, <1>5 DEF ToSet
<1>7. ASSUME NEW i \in 1 .. Len(q), IsHandshake(q[i])
      PROVE  /\ R[i].content = q[i].content /\ R[i].epoch = q[i].epoch
             /\ R[i].msg.typ = q[i].msg.typ /\ R[i].msg.body = q[i].msg.body
             /\ R[i].msg.from = s /\ R[i].msg.seq = n + b(i)
             /\ R[i].msg.epoch = IF R[i].msg.typ = "Finished" THEN 1 ELSE 0
  <2> DEFINE r == q[i]
             k == n + b(i)
  <2>1. R[i] = [r EXCEPT !.msg.seq = k]
    BY <1>4, <1>7
  <2>2. IsMessage(s, r)
    <3>1. r # ChangeCipherSpec
      BY <1>7 DEF IsHandshake, ChangeCipherSpec
    <3> QED
      BY <1>3, <3>1
  <2> HIDE DEF r, k
  <2>3. r = [content |-> "handshake", epoch |-> r.epoch, key |-> r.key,
             msg |-> [typ |-> r.msg.typ, from |-> s, epoch |-> IF r.msg.typ = "Finished" THEN 1 ELSE 0,
                      seq |-> 0, body |-> r.msg.body]]
    BY <2>2 DEF IsMessage
  <2> DEFINE t == R[i]
  <2>4. t = [r EXCEPT !.msg.seq = k]
    BY <2>1
  <2> HIDE DEF t
  <2>5. /\ t.content = r.content /\ t.epoch = r.epoch
        /\ t.msg.typ = r.msg.typ /\ t.msg.body = r.msg.body
        /\ t.msg.from = s /\ t.msg.seq = k
        /\ t.msg.epoch = IF r.msg.typ = "Finished" THEN 1 ELSE 0
    BY <2>3, <2>4
  <2> QED
    BY <2>5 DEF t, r, k
<1>8. ASSUME NEW i \in 1 .. Len(q), ~IsHandshake(q[i])
      PROVE  R[i].content = q[i].content /\ R[i].epoch = q[i].epoch
  BY <1>4, <1>8
<1>9. \A i \in 1 .. Len(q) : IsHandshake(R[i]) <=> IsHandshake(q[i])
  BY <1>7, <1>8 DEF IsHandshake
<1>10. Messages(R) = {R[i].msg : i \in Shakes(q)}
  <2>1. ToSet(R) = {R[i] : i \in 1 .. Len(q)}
    BY <1>6 DEF ToSet
  <2>2. {x \in ToSet(R) : IsHandshake(x)} = {R[i] : i \in Shakes(q)}
    BY <1>9, <2>1 DEF Shakes
  <2> QED
    BY <2>2 DEF Messages
<1>11. \A i \in 1 .. Len(q) + 1 : IsFiniteSet(Before(q, i)) /\ b(i) \in Nat
  <2> SUFFICES ASSUME NEW i \in 1 .. Len(q) + 1 PROVE IsFiniteSet(Before(q, i)) /\ b(i) \in Nat
    OBVIOUS
  <2>1. IsFiniteSet(1 .. i - 1) /\ Before(q, i) \subseteq 1 .. i - 1
    BY FS_Interval DEF Before
  <2>2. IsFiniteSet(Before(q, i))
    BY <2>1, FS_Subset
  <2> QED
    BY <2>2, FS_CardinalityType
<1>12. ASSUME NEW i \in Shakes(q), NEW j \in 1 .. Len(q) + 1, i < j PROVE b(i) < b(j)
  <2>1. i \in 1 .. Len(q) /\ IsHandshake(q[i]) /\ i \in Int /\ j \in Int
    BY DEF Shakes
  <2>2. Before(q, i) \cup {i} \subseteq Before(q, j) /\ i \notin Before(q, i)
    BY <1>12, <2>1 DEF Before
  <2>3. IsFiniteSet(Before(q, i)) /\ IsFiniteSet(Before(q, j)) /\ b(i) \in Nat /\ b(j) \in Nat
    BY <1>11, <2>1
  <2>4. IsFiniteSet(Before(q, i) \cup {i}) /\ Cardinality(Before(q, i) \cup {i}) = b(i) + 1
    BY <2>2, <2>3, FS_AddElement
  <2>5. Cardinality(Before(q, i) \cup {i}) <= b(j)
    BY <2>2, <2>3, FS_Subset
  <2> QED
    BY <2>3, <2>4, <2>5
<1> HIDE DEF b
<1>13. \A i \in Shakes(q) : R[i].msg.seq = n + b(i) /\ b(i) \in Nat /\ i \in 1 .. Len(q) + 1
  BY <1>1, <1>7, <1>11 DEF Shakes
<1>14. \A i, j \in Shakes(q) : i < j => R[i].msg.seq < R[j].msg.seq
  BY <1>12, <1>13
<1>15. Shakes(q) = Before(q, Len(q) + 1) /\ Len(q) + 1 \in 1 .. Len(q) + 1 /\ \A i \in Shakes(q) : i < Len(q) + 1
  BY <1>1 DEF Shakes, Before
<1>16. Cardinality(Messages(R)) = b(Len(q) + 1) /\ b(Len(q) + 1) \in Nat
  <2> DEFINE S == Shakes(q)
             g == [i \in S |-> R[i].msg]
             T == {R[i].msg : i \in S}
  <2>1. \A i, j \in S : R[i].msg = R[j].msg => i = j
    <3> SUFFICES ASSUME NEW i \in S, NEW j \in S, R[i].msg = R[j].msg, i # j PROVE FALSE
      OBVIOUS
    <3>1. i \in Int /\ j \in Int
      BY DEF Shakes
    <3>2. R[i].msg.seq \in Nat /\ R[j].msg.seq \in Nat
      BY <1>13
    <3>3. i < j \/ j < i
      BY <3>1
    <3> QED
      BY <1>14, <3>2, <3>3
  <2>2. ExistsBijection(S, T)
    <3> HIDE DEF S
    <3>1. g \in Bijection(S, T)
      BY <2>1 DEF Bijection, Injection, Surjection, IsInjective
    <3> QED
      BY <3>1 DEF ExistsBijection
  <2>3. IsFiniteSet(S) /\ Cardinality(S) = b(Len(q) + 1)
    BY <1>11, <1>15 DEF b
  <2> HIDE DEF S, g, T
  <2>4. Cardinality(T) = Cardinality(S)
    BY <2>2, <2>3, FS_Bijection
  <2> QED
    BY <1>10, <1>11, <1>15, <2>3, <2>4 DEF S, T
<1>17. \A i \in Shakes(q) :
         R[i].msg.seq \in Nat /\ R[i].msg.seq >= n /\ R[i].msg.seq < n + Cardinality(Messages(R))
  <2> SUFFICES ASSUME NEW i \in Shakes(q)
               PROVE  R[i].msg.seq \in Nat /\ R[i].msg.seq >= n /\ R[i].msg.seq < n + Cardinality(Messages(R))
    OBVIOUS
  <2>1. b(i) < b(Len(q) + 1) /\ b(i) \in Nat /\ R[i].msg.seq = n + b(i)
    BY <1>12, <1>13, <1>15
  <2> QED
    BY <1>16, <2>1
<1> QED
  BY <1>6, <1>7, <1>8, <1>10, <1>14, <1>16, <1>17

\* Numbers depend on what is in front.
LEMMA NumbersOfFirst ==
  ASSUME NEW q, NEW t, NEW n, NEW i \in Nat, i \in DOMAIN q, i \in DOMAIN t,
         \A j \in 1 .. i : q[j] = t[j], i > 0
  PROVE  Numbered(q, n)[i] = Numbered(t, n)[i]
<1>1. q[i] = t[i]
  OBVIOUS
<1>2. {j \in 1 .. i - 1 : IsHandshake(q[j])} = {j \in 1 .. i - 1 : IsHandshake(t[j])}
  OBVIOUS
<1> QED
  BY <1>1, <1>2 DEF Numbered

\* What generate changes, and what becomes of its flight.
Making ==
    {"fsm", "packets", "send_seq", "local_epoch", "remote_epoch", "cookie", "curve", "master"}

\* What generate leaves alone.
LEMMA MakingKeeps ==
  ASSUME NEW c, NEW d, Same(c, d, Making)
  PROVE  /\ d.role = c.role /\ d.config = c.config /\ d.flight = c.flight /\ d.reader = c.reader
         /\ d.rendezvous = c.rendezvous /\ d.ems = c.ems /\ d.requested = c.requested
         /\ d.cache = c.cache /\ d.fragments = c.fragments /\ d.next = c.next /\ d.queue = c.queue
         /\ d.suite = c.suite /\ d.srtp = c.srtp /\ d.keypair = c.keypair
         /\ d.peer_cert = c.peer_cert /\ d.pre_master = c.pre_master
<1>1. Fields \ Making =
        {"role", "config", "flight", "recv_seq", "suite", "srtp", "ems", "keypair", "requested",
         "peer_cert", "verified", "pre_master", "cache", "reader", "fragments", "next", "queue",
         "rendezvous"}
  BY DEF Fields, Making
<1> QED
  BY <1>1 DEF Same

WithNumbers(c) ==
    LET records == Numbered(c.packets, c.send_seq)
    IN  [c EXCEPT !.packets = records,
                  !.send_seq = @ + Cardinality(Messages(records)),
                  !.local_epoch = IF \E r \in ToSet(records) : r.epoch = 1 THEN 1 ELSE @]

\* A flight that may be numbered: its messages are the side's own, what it encrypts has
\* keys, and its numbers are new, or those of the message it repeats.
Numberable(s, b, c) ==
    /\ Same(b, c, Making) /\ c.fsm = "sending"
    /\ c.local_epoch = b.local_epoch /\ c.remote_epoch = b.remote_epoch
    /\ HasKeys(b) => HasKeys(c)
    /\ FlightOf(s, c.packets) /\ c.send_seq \in Nat
    /\ (\E r \in ToSet(c.packets) : r = ChangeCipherSpec \/ r.epoch = 1) =>
          HasKeys(c) /\ \E r \in ToSet(c.packets) : r.epoch = 1
    /\ \A m \in Made(s, b) :
          m.seq < c.send_seq \/ m \in Messages(Numbered(c.packets, c.send_seq))

\* An encrypted message begins an epoch.
Begun(epoch, q) == IF \E r \in ToSet(q) : r.epoch = 1 THEN 1 ELSE epoch

\* What has become of a side whose flight got its numbers.
Prepared(s, b, c, d) ==
    /\ Made(s, d) = Made(s, b) \cup Messages(Numbered(c.packets, c.send_seq))
    /\ Sent(s, d) = Made(s, b) /\ Sent(s, b) = Made(s, b) /\ Got(s, d) = Got(s, b)
    /\ d.local_epoch = Begun(b.local_epoch, c.packets)
    /\ d.master = c.master /\ d.fsm = "sending" /\ d.cookie = c.cookie /\ d.curve = c.curve
    /\ Same(b, d, Making)

\* A flight that may be numbered keeps everything about its side but its messages.
LEMMA NumberedSide ==
  ASSUME NEW P, NEW s \in Sides, NEW b, NEW p, Two(P, s, b, p), b.fsm = "preparing",
         NEW c, Numberable(s, b, c), NEW d, d = WithNumbers(c)
  PROVE  Typed(P, s, d) /\ Own(s, d) /\ Taken(s, d, p) /\ Prepared(s, b, c, d)
<1> DEFINE q == c.packets
           n == c.send_seq
           R == Numbered(q, n)
           k == Cardinality(Messages(R))
           epoch == IF \E r \in ToSet(R) : r.epoch = 1 THEN 1 ELSE c.local_epoch
<1>1. /\ Same(b, c, Making) /\ c.fsm = "sending"
      /\ c.local_epoch = b.local_epoch /\ c.remote_epoch = b.remote_epoch
      /\ HasKeys(b) => HasKeys(c)
      /\ FlightOf(s, q) /\ n \in Nat
      /\ (\E r \in ToSet(q) : r = ChangeCipherSpec \/ r.epoch = 1) =>
            HasKeys(c) /\ \E r \in ToSet(q) : r.epoch = 1
      /\ \A m \in Made(s, b) : m.seq < n \/ m \in Messages(R)
  BY DEF Numberable
<1>2. /\ R \in Seq(ToSet(R)) /\ Len(R) = Len(q)
      /\ \A i \in 1 .. Len(q) :
           /\ R[i].content = q[i].content /\ R[i].epoch = q[i].epoch
           /\ IsHandshake(q[i]) =>
                /\ R[i].msg.typ = q[i].msg.typ /\ R[i].msg.body = q[i].msg.body
                /\ R[i].msg.from = s
                /\ R[i].msg.epoch = IF R[i].msg.typ = "Finished" THEN 1 ELSE 0
      /\ Messages(R) = {R[i].msg : i \in Shakes(q)}
      /\ \A i, j \in Shakes(q) : i < j => R[i].msg.seq < R[j].msg.seq
      /\ k \in Nat
      /\ \A i \in Shakes(q) : R[i].msg.seq \in Nat /\ R[i].msg.seq >= n /\ R[i].msg.seq < n + k
  <2> DEFINE T == R
  <2>1. T = Numbered(q, n)
    OBVIOUS
  <2> HIDE DEF T, q, n
  <2> QED
    BY <1>1, <2>1, NumbersRise DEF T
<1>3. d = [c EXCEPT !.packets = R, !.send_seq = n + k, !.local_epoch = epoch]
  BY DEF WithNumbers
<1>4. IsConn(c) /\ Typed(P, s, b) /\ Own(s, b) /\ Taken(s, b, p)
  BY <1>1 DEF Same, Two
<1> HIDE DEF q, n, R, k, epoch
<1>5. /\ IsConn(d) /\ d.packets = R /\ d.send_seq = n + k /\ d.local_epoch = epoch
      /\ \A f \in Fields \ {"packets", "send_seq", "local_epoch"} : d[f] = c[f]
  BY <1>3, <1>4, FieldNames DEF IsConn
<1>6. /\ d.fsm = "sending" /\ d.remote_epoch = b.remote_epoch /\ d.master = c.master
      /\ d.cookie = c.cookie /\ d.curve = c.curve
  BY <1>1, <1>5, FieldNames
<1>7. Same(b, d, Making)
  <2>1. {"packets", "send_seq", "local_epoch"} \subseteq Making
    BY DEF Making
  <2> QED
    BY <1>1, <1>5, <2>1 DEF Same
<1>8. /\ d.role = b.role /\ d.config = b.config /\ d.flight = b.flight /\ d.reader = b.reader
      /\ d.rendezvous = b.rendezvous /\ d.ems = b.ems /\ d.requested = b.requested
      /\ d.cache = b.cache /\ d.fragments = b.fragments /\ d.next = b.next /\ d.queue = b.queue
  BY <1>7, MakingKeeps
<1>9. ToSet(R) = {R[i] : i \in 1 .. Len(q)} /\ ToSet(q) = {q[i] : i \in 1 .. Len(q)}
      /\ q \in Seq(ToSet(q)) /\ Len(q) \in Nat
  BY <1>1, <1>2 DEF ToSet, FlightOf
<1>10. epoch = Begun(b.local_epoch, q)
  <2>1. (\E r \in ToSet(R) : r.epoch = 1) <=> \E i \in 1 .. Len(q) : R[i].epoch = 1
    BY <1>9
  <2>2. (\E r \in ToSet(q) : r.epoch = 1) <=> \E i \in 1 .. Len(q) : q[i].epoch = 1
    BY <1>9
  <2>3. \A i \in 1 .. Len(q) : R[i].epoch = q[i].epoch
    BY <1>2
  <2>4. (\E r \in ToSet(R) : r.epoch = 1) <=> \E r \in ToSet(q) : r.epoch = 1
    BY <2>1, <2>2, <2>3
  <2> QED
    BY <1>1, <2>4 DEF epoch, Begun
<1>11. epoch = 1 => HasKeys(d)
  BY <1>1, <1>4, <1>6, <1>10 DEF Own, HasKeys, Begun
<1>12. /\ Sent(s, d) = Sent(s, b) /\ Got(s, d) = Got(s, b)
       /\ Sent(s, b) = Made(s, b)
       /\ Made(s, d) = Made(s, b) \cup Messages(R)
  <2>1. Messages(b.packets) \subseteq b.cache /\ \A m \in Messages(b.packets) : m.from = s
    BY <1>4 DEF Own, Made
  <2>2. Sent(s, b) = Made(s, b)
    BY <2>1 DEF Sent, Made
  <2> QED
    BY <1>5, <1>8, <2>2 DEF Sent, Got, Made
<1>13. Typed(P, s, d)
  <2>1. d.packets \in Seq(ToSet(d.packets))
    BY <1>2, <1>5
  <2>2. d.send_seq \in Nat /\ d.local_epoch \in 0 .. 1 /\ d.fsm = "sending" /\ d.remote_epoch = b.remote_epoch
    BY <1>1, <1>2, <1>4, <1>5, <1>6, <1>10 DEF Typed, Begun
  <2> QED
    BY <1>4, <1>5, <1>8, <2>1, <2>2 DEF Typed
<1>14. \A m \in Messages(R) :
         /\ m.from = s /\ m.seq \in Nat /\ m.seq >= n /\ m.seq < n + k
         /\ m.epoch = IF m.typ = "Finished" THEN 1 ELSE 0
  BY <1>2 DEF Shakes
<1>15. \A m, x \in Messages(R) : m.seq = x.seq => m = x
  <2> SUFFICES ASSUME NEW m \in Messages(R), NEW x \in Messages(R), m.seq = x.seq PROVE m = x
    OBVIOUS
  <2>1. PICK i \in Shakes(q), j \in Shakes(q) : m = R[i].msg /\ x = R[j].msg
    BY <1>2
  <2>2. i \in Int /\ j \in Int /\ R[i].msg.seq \in Nat /\ R[j].msg.seq \in Nat
    BY <1>2 DEF Shakes
  <2>3. ~(i < j) /\ ~(j < i)
    BY <1>2, <2>1, <2>2
  <2> QED
    BY <2>1, <2>2, <2>3
<1>16. Own(s, d)
  <2>1. ASSUME NEW m \in Made(s, d)
        PROVE  /\ m.from = s /\ m.seq \in Nat /\ m.seq < n + k
               /\ m.epoch = IF m.typ = "Finished" THEN 1 ELSE 0
    <3>1. CASE m \in Messages(R)
      BY <1>14, <3>1
    <3>2. CASE m \notin Messages(R)
      <4>1. m \in Made(s, b)
        BY <1>12, <2>1, <3>2
      <4>2. m.seq < n /\ m.seq \in Nat
        BY <1>1, <1>4, <3>2, <4>1 DEF Own
      <4> QED
        BY <1>1, <1>2, <1>4, <4>1, <4>2 DEF Own
    <3> QED
      BY <3>1, <3>2
  <2>2. ASSUME NEW m \in Made(s, d), NEW x \in Made(s, d), m.seq = x.seq PROVE m = x
    <3>1. \A y \in Made(s, d) : y \in Messages(R) \/ (y \in Made(s, b) /\ y.seq < n /\ y.seq \in Nat)
      BY <1>1, <1>12, <2>1
    <3>2. CASE m \in Messages(R) /\ x \in Messages(R)
      BY <1>15, <2>2, <3>2
    <3>3. CASE m \in Made(s, b) /\ x \in Made(s, b)
      BY <1>4, <2>2, <3>3 DEF Own
    <3>4. CASE m \in Messages(R) /\ x \notin Messages(R)
      BY <1>1, <1>14, <2>2, <3>1, <3>4
    <3>5. CASE m \notin Messages(R) /\ x \in Messages(R)
      BY <1>1, <1>14, <2>2, <3>1, <3>5
    <3> QED
      BY <3>1, <3>2, <3>3, <3>4, <3>5
  <2>3. ASSUME NEW r \in ToSet(R) PROVE Genuine(r, epoch, Made(s, d))
    <3>1. PICK i \in 1 .. Len(q) : r = R[i]
      BY <1>9, <2>3
    <3>2. q[i] \in ToSet(q)
      BY <1>9
    <3>3. CASE IsHandshake(q[i])
      <4>1. r.msg \in Messages(R)
        BY <1>2, <3>1, <3>3 DEF Shakes
      <4>2. r.content = "handshake"
        BY <1>2, <3>1, <3>3 DEF IsHandshake
      <4> QED
        BY <1>12, <4>1, <4>2 DEF Genuine
    <3>4. CASE ~IsHandshake(q[i])
      <4>1. q[i] = ChangeCipherSpec
        BY <1>1, <3>2, <3>4 DEF FlightOf, IsMessage, IsHandshake
      <4>2. epoch = 1
        BY <1>1, <1>10, <3>2, <4>1 DEF Begun
      <4>3. r.content = "ccs"
        BY <1>2, <3>1, <4>1 DEF ChangeCipherSpec
      <4> QED
        BY <4>2, <4>3 DEF Genuine
    <3> QED
      BY <3>3, <3>4
  <2> QED
    BY <1>5, <1>6, <1>11, <2>1, <2>2, <2>3 DEF Own
<1>17. Taken(s, d, p)
  <2>1. HasKeys(b) => HasKeys(d)
    BY <1>1, <1>6 DEF HasKeys
  <2> QED
    BY <1>4, <1>6, <1>8, <1>12, <2>1 DEF Taken
<1> QED
  BY <1>5, <1>6, <1>7, <1>10, <1>12, <1>13, <1>16, <1>17 DEF R, q, n, Prepared

--------------------------------------------------------------------------------
(* Preparing: the flights before anybody has keys *)

\* Until flight 6 is prepared, who prepares has no keys, and neither has its peer.
LEMMA NoKeysYet ==
  ASSUME NEW P, NEW K, NEW N, Inv(P, K, N), NEW s \in Sides, K[s].fsm = "preparing",
         K[s].flight # 6
  PROVE  /\ ~HasKeys(K[s]) /\ ~HasKeys(K[Peer(s)]) /\ K[s].local_epoch = 0 /\ K[s].remote_epoch = 0
         /\ Two(P, s, K[s], K[Peer(s)]) /\ Typed(P, s, K[s]) /\ IsConn(K[s]) /\ Own(s, K[s])
<1>1. ClientChose(P, K["client"]) /\ ServerChose(P, K["server"])
  BY TwoRecords
<1>2. Typed(P, s, K[s]) /\ Own(s, K[s]) /\ Taken(s, K[s], K[Peer(s)])
  BY DEF Inv, Side
<1>3. ~HasKeys(K[s]) /\ ~HasKeys(K[Peer(s)])
  <2>1. CASE s = "client"
    <3>1. ~HasKeys(K["client"])
      BY <1>1, <2>1 DEF ClientChose
    <3> QED
      BY <2>1, <3>1, ClientHasKeys, TwoSides
  <2>2. CASE s = "server"
    <3>1. K["server"].flight \in {0, 2, 4}
      BY <1>2, <2>2 DEF Typed
    <3>2. ~HasKeys(K["server"])
      BY <1>1, <2>2, <3>1 DEF ServerChose
    <3>3. K["client"].flight # 5
      BY <2>2, <3>1, ServerHasChosen
    <3>4. ~HasKeys(K["client"])
      BY <1>1, <3>3 DEF ClientChose
    <3> QED
      BY <2>2, <3>2, <3>4, TwoSides
  <2> QED
    BY <2>1, <2>2, TwoSides
<1>4. K[s].local_epoch \in 0 .. 1 /\ K[s].remote_epoch \in 0 .. 1
  BY <1>2 DEF Typed
<1>5. K[s].local_epoch # 1 /\ K[s].remote_epoch # 1
  BY <1>2, <1>3 DEF Own, Taken
<1>6. Two(P, s, K[s], K[Peer(s)])
  BY TwoOfInv DEF Inv
<1> QED
  BY <1>2, <1>3, <1>4, <1>5, <1>6 DEF Typed

\* A flight may be prepared when it keeps the order of its side and the keys are right.
LEMMA MakeStep ==
  ASSUME NEW P, NEW K, NEW N, Inv(P, K, N), NEW s \in Sides, K[s].fsm = "preparing",
         NEW c, Numberable(s, K[s], c), NEW d, d = WithNumbers(c),
         s = "client" => ClientMade(P, d) /\ ClientChose(P, d),
         s = "server" => ServerMade(P, d) /\ ServerChose(P, d),
         Keyed(P, [K EXCEPT ![s] = d])
  PROVE  Inv(P, [K EXCEPT ![s] = d], N)
<1>1. Two(P, s, K[s], K[Peer(s)])
  BY TwoOfInv DEF Inv
<1>2. /\ Typed(P, s, d) /\ Own(s, d) /\ Taken(s, d, K[Peer(s)])
      /\ Prepared(s, K[s], c, d)
  BY <1>1, NumberedSide
<1>3. Side(P, s, d, K[Peer(s)])
  BY <1>2 DEF Side
<1>4. Sent(s, K[s]) \subseteq Sent(s, d) /\ (K[s].local_epoch = 1 => d.local_epoch = 1)
  <2>1. d.local_epoch = 1 \/ d.local_epoch = K[s].local_epoch
    BY <1>2 DEF Begun, Prepared
  <2> QED
    BY <1>2, <2>1 DEF Prepared
<1> QED
  BY <1>3, <1>4, Advance

\* Before anybody has keys that is all there is to it.
LEMMA EarlyMakeStep ==
  ASSUME NEW P, NEW K, NEW N, Inv(P, K, N), NEW s \in Sides, K[s].fsm = "preparing",
         K[s].flight # 6,
         NEW c, Numberable(s, K[s], c), c.master = K[s].master, NEW d, d = WithNumbers(c),
         s = "client" => ClientMade(P, d) /\ ClientChose(P, d),
         s = "server" => ServerMade(P, d) /\ ServerChose(P, d)
  PROVE  Inv(P, [K EXCEPT ![s] = d], N)
<1> DEFINE L == [K EXCEPT ![s] = d]
<1>1. Two(P, s, K[s], K[Peer(s)]) /\ K = [x \in Sides |-> K[x]]
  BY TwoOfInv DEF Inv
<1>2. d.master = K[s].master
  BY <1>1, NumberedSide DEF Prepared
<1>3. L[s] = d /\ L[Peer(s)] = K[Peer(s)]
  BY <1>1, TwoSides
<1>4. \A x \in Sides : ~HasKeys(L[x])
  BY <1>2, <1>3, NoKeysYet, TwoSides DEF HasKeys
<1>5. Keyed(P, L)
  BY <1>4 DEF Keyed
<1> QED
  BY <1>5, MakeStep

\* What the record of a handshake message is.
LEMMA RecordIs ==
  ASSUME NEW s, NEW c, c.role = s, NEW typ, typ # "Finished", NEW body
  PROVE  /\ IsMessage(s, HandshakeRecord(c, typ, body)) /\ IsHandshake(HandshakeRecord(c, typ, body))
         /\ HandshakeRecord(c, typ, body).epoch = 0
         /\ HandshakeRecord(c, typ, body).msg.typ = typ
         /\ HandshakeRecord(c, typ, body).msg.body = body
         /\ HandshakeRecord(c, typ, body) # ChangeCipherSpec
BY DEF IsMessage, IsHandshake, HandshakeRecord, ChangeCipherSpec

\* A flight of one message.
LEMMA OneMessage ==
  ASSUME NEW s, NEW c, c.role = s, NEW typ, typ # "Finished", NEW body, NEW n \in Nat,
         NEW q, q = <<HandshakeRecord(c, typ, body)>>
  PROVE  /\ FlightOf(s, q) /\ \A r \in ToSet(q) : r # ChangeCipherSpec /\ r.epoch = 0
         /\ Messages(Numbered(q, n)) =
              {[typ |-> typ, from |-> s, epoch |-> 0, seq |-> n, body |-> body]}
<1> DEFINE r == HandshakeRecord(c, typ, body)
           t == [content |-> "handshake", epoch |-> 0, key |-> None,
                 msg |-> [typ |-> typ, from |-> s, epoch |-> 0, seq |-> n, body |-> body]]
<1>1. IsMessage(s, r) /\ IsHandshake(r) /\ r.epoch = 0 /\ r # ChangeCipherSpec
  BY RecordIs
<1>2. [r EXCEPT !.msg.seq = n] = t
  BY DEF HandshakeRecord
<1>3. IsHandshake(t) /\ t.msg = [typ |-> typ, from |-> s, epoch |-> 0, seq |-> n, body |-> body]
  BY DEF IsHandshake
<1> HIDE DEF r, t
<1>4. q = <<r>>
  BY DEF r
<1>5. Len(q) = 1 /\ DOMAIN q = {1} /\ q[1] = r /\ ToSet(q) = {r} /\ q \in Seq({r})
  BY <1>4 DEF ToSet
<1>6. FlightOf(s, q)
  BY <1>1, <1>5 DEF FlightOf
<1>7. Cardinality({j \in 1 .. 1 - 1 : IsHandshake(q[j])}) = 0
  <2>1. {j \in 1 .. 1 - 1 : IsHandshake(q[j])} = {}
    OBVIOUS
  <2> QED
    BY <2>1, FS_EmptySet
<1>8. Numbered(q, n) = [i \in {1} |-> t]
  <2>1. Numbered(q, n) = [i \in DOMAIN q |-> Numbered(q, n)[i]]
    BY DEF Numbered
  <2>2. Numbered(q, n)[1] = t
    <3>1. Numbered(q, n)[1] =
            IF IsHandshake(q[1])
            THEN [q[1] EXCEPT !.msg.seq = n + Cardinality({j \in 1 .. 1 - 1 : IsHandshake(q[j])})]
            ELSE q[1]
      BY <1>5 DEF Numbered
    <3>2. n + 0 = n
      OBVIOUS
    <3> QED
      BY <1>1, <1>2, <1>5, <1>7, <3>1, <3>2
  <2> QED
    BY <1>5, <2>1, <2>2
<1>9. ToSet(Numbered(q, n)) = {t}
  BY <1>8 DEF ToSet
<1>10. Messages(Numbered(q, n)) = {t.msg}
  BY <1>3, <1>9 DEF Messages
<1> QED
  BY <1>1, <1>3, <1>5, <1>6, <1>10

\* The server waits for a client.
LEMMA MakeFlight0 ==
  ASSUME NEW P, NEW K, NEW N, Inv(P, K, N), K["server"].fsm = "preparing", K["server"].flight = 0,
         NEW c, c = Flight0Generate(K["server"]).conn, NEW d, d = WithNumbers(c)
  PROVE  Inv(P, [K EXCEPT !["server"] = d], N)
<1> DEFINE b == K["server"]
<1>1. /\ "server" \in Sides /\ Two(P, "server", b, K["client"])
      /\ ~HasKeys(b) /\ b.local_epoch = 0 /\ b.remote_epoch = 0
      /\ Typed(P, "server", b) /\ IsConn(b) /\ Own("server", b)
  BY NoKeysYet, TwoSides
<1>2. ServerMade(P, b) /\ ServerChose(P, b)
  BY TwoRecords
<1>3. c = [b EXCEPT !.cookie = "cookie", !.local_epoch = 0, !.remote_epoch = 0,
                    !.curve = "X25519", !.fsm = "sending", !.packets = <<>>]
  BY DEF Flight0Generate, Sending
<1>4. b.fsm = "preparing" /\ b.flight = 0
  OBVIOUS
<1> HIDE DEF b
<1>5. /\ IsConn(c) /\ c.fsm = "sending" /\ c.packets = <<>> /\ c.local_epoch = b.local_epoch
      /\ c.remote_epoch = b.remote_epoch /\ c.cookie = "cookie"
      /\ \A f \in Fields \ {"cookie", "local_epoch", "remote_epoch", "curve", "fsm", "packets"} : c[f] = b[f]
  <2>1. DOMAIN b = Fields /\ b = [f \in Fields |-> b[f]]
    BY <1>1 DEF IsConn
  <2>2. c.fsm = "sending" /\ c.packets = <<>> /\ c.cookie = "cookie" /\ c.local_epoch = 0 /\ c.remote_epoch = 0
    BY <1>3, <2>1, FieldNames
  <2>3. \A f \in Fields \ {"cookie", "local_epoch", "remote_epoch", "curve", "fsm", "packets"} : c[f] = b[f]
    BY <1>3, <2>1
  <2>4. IsConn(c)
    BY <1>3, <2>1 DEF IsConn
  <2> QED
    BY <1>1, <2>2, <2>3, <2>4
<1>6. c.send_seq = b.send_seq /\ c.master = b.master
  BY <1>5, FieldNames
<1>7. Same(b, c, Making)
  <2>1. {"cookie", "local_epoch", "remote_epoch", "curve", "fsm", "packets"} \subseteq Making
    BY DEF Making
  <2> QED
    BY <1>5, <2>1 DEF Same
<1>8. ToSet(c.packets) = {} /\ FlightOf("server", c.packets) /\ Messages(Numbered(c.packets, c.send_seq)) = {}
  <2>1. DOMAIN (<<>>) = {}
    OBVIOUS
  <2>2. ToSet(<<>>) = {}
    BY DEF ToSet
  <2>3. Numbered(<<>>, c.send_seq) = <<>>
    BY <2>1 DEF Numbered
  <2>4. FlightOf("server", <<>>)
    BY <2>2 DEF FlightOf
  <2> QED
    BY <1>5, <2>2, <2>3, <2>4, NoMessages
<1>9. Numberable("server", b, c)
  <2>1. c.send_seq \in Nat /\ \A m \in Made("server", b) : m.seq < c.send_seq
    BY <1>1, <1>6 DEF Own, Typed
  <2>2. HasKeys(b) => HasKeys(c)
    BY <1>1
  <2> QED
    BY <1>5, <1>7, <1>8, <2>1, <2>2 DEF Numberable
<1>10. /\ Made("server", d) = Made("server", b) /\ Sent("server", d) = Made("server", b)
       /\ d.master = b.master /\ d.fsm = "sending" /\ d.cookie = "cookie" /\ Same(b, d, Making)
  <2>1. Prepared("server", b, c, d)
    BY <1>1, <1>4, <1>9, NumberedSide
  <2> QED
    BY <1>1, <1>4, <1>5, <1>6, <1>8, <1>9, <2>1 DEF Prepared
<1>11. d.flight = 0 /\ d.keypair = b.keypair /\ d.ems = b.ems /\ d.peer_cert = b.peer_cert
  BY <1>4, <1>10, MakingKeeps
<1>12. \A m \in Made("server", b) : m = HelloVerifyRequest
  BY <1>2, <1>4 DEF ServerMade
<1>13. ServerMade(P, d)
  <2>1. HelloVerifyRequest.typ = "HelloVerifyRequest"
    BY DEF HelloVerifyRequest
  <2>2. \A m \in Made("server", d) : m = HelloVerifyRequest /\ m.typ = "HelloVerifyRequest"
    BY <1>10, <1>12, <2>1
  <2>3. \A m \in Sent("server", d) : m.typ = "HelloVerifyRequest"
    BY <1>10, <2>2
  <2> QED
    BY <2>2, <2>3 DEF ServerMade
<1>14. ServerChose(P, d)
  <2>1. ~HasKeys(d)
    BY <1>1, <1>10 DEF HasKeys
  <2> QED
    BY <1>2, <1>4, <1>10, <1>11, <2>1 DEF ServerChose
<1>15. c.master = b.master
  BY <1>6
<1> QED
  BY <1>1, <1>4, <1>9, <1>13, <1>14, <1>15, EarlyMakeStep, TwoSides DEF b

\* It asks for a cookie, in every flight of this kind with the same number.
LEMMA MakeFlight2 ==
  ASSUME NEW P, NEW K, NEW N, Inv(P, K, N), K["server"].fsm = "preparing", K["server"].flight = 2,
         NEW c, c = Flight2Generate(K["server"]).conn, NEW d, d = WithNumbers(c)
  PROVE  Inv(P, [K EXCEPT !["server"] = d], N)
<1> DEFINE b == K["server"]
           q == <<HandshakeRecord(b, "HelloVerifyRequest", [cookie |-> b.cookie])>>
<1>1. /\ "server" \in Sides /\ Two(P, "server", b, K["client"])
      /\ ~HasKeys(b) /\ b.local_epoch = 0 /\ b.remote_epoch = 0
      /\ Typed(P, "server", b) /\ IsConn(b) /\ Own("server", b)
  BY NoKeysYet, TwoSides
<1>2. ServerMade(P, b) /\ ServerChose(P, b)
  BY TwoRecords
<1>3. c = [b EXCEPT !.send_seq = 0, !.fsm = "sending", !.packets = q]
  <2>1. [b EXCEPT !.send_seq = 0].cookie = b.cookie
    BY <1>1, FieldNames DEF IsConn
  <2> QED
    BY DEF Flight2Generate, Sending
<1>4. b.fsm = "preparing" /\ b.flight = 2
  OBVIOUS
<1>5. b.role = "server" /\ b.cookie = "cookie"
  BY <1>1, <1>2, <1>4 DEF ServerChose, Typed
<1>6. /\ FlightOf("server", q) /\ \A r \in ToSet(q) : r # ChangeCipherSpec /\ r.epoch = 0
      /\ Messages(Numbered(q, 0)) = {HelloVerifyRequest}
  BY <1>5, OneMessage DEF HelloVerifyRequest
<1> HIDE DEF b, q
<1>7. /\ IsConn(c) /\ c.fsm = "sending" /\ c.packets = q /\ c.send_seq = 0
      /\ \A f \in Fields \ {"send_seq", "fsm", "packets"} : c[f] = b[f]
  BY <1>1, <1>2, <1>3, FieldNames DEF IsConn
<1>8. /\ c.master = b.master /\ c.local_epoch = b.local_epoch /\ c.remote_epoch = b.remote_epoch
      /\ c.cookie = b.cookie /\ c.curve = b.curve
  BY <1>7, FieldNames
<1>9. Same(b, c, Making)
  <2>1. {"send_seq", "fsm", "packets"} \subseteq Making
    BY DEF Making
  <2> QED
    BY <1>7, <2>1 DEF Same
<1>10. \A m \in Made("server", b) : m = HelloVerifyRequest
  BY <1>2, <1>4 DEF ServerMade
<1>11. Numberable("server", b, c)
  <2>1. HasKeys(b) => HasKeys(c)
    BY <1>1
  <2>2. \A m \in Made("server", b) : m \in Messages(Numbered(c.packets, c.send_seq))
    BY <1>6, <1>7, <1>10
  <2>3. ~\E r \in ToSet(c.packets) : r = ChangeCipherSpec \/ r.epoch = 1
    BY <1>6, <1>7
  <2> QED
    BY <1>6, <1>7, <1>8, <1>9, <2>1, <2>2, <2>3 DEF Numberable
<1>12. /\ Made("server", d) = Made("server", b) \cup {HelloVerifyRequest}
       /\ Sent("server", d) = Made("server", b)
       /\ d.master = b.master /\ d.fsm = "sending" /\ d.cookie = b.cookie /\ d.curve = b.curve
       /\ Same(b, d, Making)
  <2>1. Prepared("server", b, c, d)
    BY <1>1, <1>4, <1>11, NumberedSide
  <2> QED
    BY <1>1, <1>4, <1>6, <1>7, <1>8, <1>11, <2>1 DEF Prepared
<1>13. /\ d.flight = 2 /\ d.keypair = b.keypair /\ d.ems = b.ems /\ d.peer_cert = b.peer_cert
       /\ d.suite = b.suite /\ d.srtp = b.srtp
  BY <1>4, <1>12, MakingKeeps
<1>14. ServerMade(P, d)
  <2>1. HelloVerifyRequest.typ = "HelloVerifyRequest"
    BY DEF HelloVerifyRequest
  <2>2. \A m \in Made("server", d) : m = HelloVerifyRequest /\ m.typ = "HelloVerifyRequest"
    BY <1>10, <1>12, <2>1
  <2>3. \A m \in Sent("server", d) : m.typ = "HelloVerifyRequest"
    BY <1>12, <2>2
  <2> QED
    BY <2>2, <2>3 DEF ServerMade
<1>15. ServerChose(P, d)
  <2>1. ~HasKeys(d)
    BY <1>1, <1>12 DEF HasKeys
  <2> QED
    BY <1>2, <1>4, <1>5, <1>12, <1>13, <2>1 DEF ServerChose
<1> QED
  BY <1>1, <1>4, <1>8, <1>11, <1>14, <1>15, EarlyMakeStep, TwoSides DEF b

\* The client greets, without a cookie or with one.
Greeting(c, cookie) ==
    Sending([c EXCEPT !.cookie = cookie], <<ClientHello([c EXCEPT !.cookie = cookie])>>).conn

\* A ClientHello keeps the invariant, with whatever cookie.
LEMMA MakeHello ==
  ASSUME NEW P, NEW K, NEW N, Inv(P, K, N), K["client"].fsm = "preparing",
         K["client"].flight \in {1, 3}, NEW cookie, NEW c, c = Greeting(K["client"], cookie),
         NEW d, d = WithNumbers(c)
  PROVE  Inv(P, [K EXCEPT !["client"] = d], N)
<1> DEFINE b == K["client"]
           body == [cookie |-> cookie, suites |-> P["client"].suites, curves |-> P["client"].curves,
                    srtp |-> P["client"].srtp, ems |-> P["client"].ems # "disable"]
           q == <<HandshakeRecord(b, "ClientHello", body)>>
<1>1. /\ "client" \in Sides /\ Two(P, "client", b, K["server"])
      /\ ~HasKeys(b) /\ b.local_epoch = 0 /\ b.remote_epoch = 0
      /\ Typed(P, "client", b) /\ IsConn(b) /\ Own("client", b)
  BY NoKeysYet, TwoSides
<1>2. ClientMade(P, b) /\ ClientChose(P, b)
  BY TwoRecords
<1>3. c = [b EXCEPT !.cookie = cookie, !.fsm = "sending", !.packets = q]
  <2> DEFINE x == [b EXCEPT !.cookie = cookie]
  <2>1. x.cookie = cookie /\ x.config = P["client"] /\ x.role = b.role
    BY <1>1, FieldNames DEF IsConn, Typed
  <2> HIDE DEF x
  <2>2. ClientHello(x) = HandshakeRecord(b, "ClientHello", body)
    BY <2>1 DEF ClientHello, HandshakeRecord
  <2>3. c = [x EXCEPT !.fsm = "sending", !.packets = <<ClientHello(x)>>]
    BY DEF Greeting, Sending, x
  <2> QED
    BY <2>2, <2>3 DEF x
<1>4. b.fsm = "preparing" /\ b.flight \in {1, 3}
  OBVIOUS
<1>5. b.role = "client" /\ b.send_seq \in Nat
  BY <1>1 DEF Typed
<1>6. /\ body.suites = P["client"].suites /\ body.curves = P["client"].curves
      /\ body.srtp = P["client"].srtp
      /\ body.ems \in BOOLEAN /\ (body.ems <=> P["client"].ems # "disable")
  OBVIOUS
<1> HIDE DEF b, body
<1> DEFINE hello == [typ |-> "ClientHello", from |-> "client", epoch |-> 0, seq |-> b.send_seq, body |-> body]
<1>7. /\ FlightOf("client", q) /\ \A r \in ToSet(q) : r # ChangeCipherSpec /\ r.epoch = 0
      /\ Messages(Numbered(q, b.send_seq)) = {hello}
  BY <1>5, OneMessage
<1>8. hello.typ = "ClientHello" /\ hello.body = body
  OBVIOUS
<1> HIDE DEF q, hello
<1>9. /\ IsConn(c) /\ c.fsm = "sending" /\ c.packets = q
      /\ \A f \in Fields \ {"cookie", "fsm", "packets"} : c[f] = b[f]
  BY <1>1, <1>3, FieldNames DEF IsConn
<1>10. /\ c.master = b.master /\ c.local_epoch = b.local_epoch /\ c.remote_epoch = b.remote_epoch
       /\ c.send_seq = b.send_seq
  BY <1>9, FieldNames
<1>11. Same(b, c, Making)
  <2>1. {"cookie", "fsm", "packets"} \subseteq Making
    BY DEF Making
  <2> QED
    BY <1>9, <2>1 DEF Same
<1>12. Numberable("client", b, c)
  <2>1. HasKeys(b) => HasKeys(c)
    BY <1>1
  <2>2. \A m \in Made("client", b) : m.seq < c.send_seq
    BY <1>1, <1>10 DEF Own
  <2>3. ~\E r \in ToSet(c.packets) : r = ChangeCipherSpec \/ r.epoch = 1
    BY <1>7, <1>9
  <2> QED
    BY <1>5, <1>7, <1>9, <1>10, <1>11, <2>1, <2>2, <2>3 DEF Numberable
<1>13. /\ Made("client", d) = Made("client", b) \cup {hello}
       /\ d.master = b.master /\ d.fsm = "sending" /\ Same(b, d, Making)
  <2>1. Prepared("client", b, c, d)
    BY <1>1, <1>4, <1>12, NumberedSide
  <2> QED
    BY <1>7, <1>9, <1>10, <2>1 DEF Prepared
<1>14. d.flight = b.flight /\ d.ems = b.ems /\ d.requested = b.requested
  BY <1>13, MakingKeeps
<1>15. ~HasKeys(d)
  BY <1>1, <1>13 DEF HasKeys
<1>16. ClientMade(P, d)
  <2>1. \A m \in Made("client", b) :
          /\ m.typ = "ClientHello"
          /\ m.body.suites = P["client"].suites /\ m.body.curves = P["client"].curves
          /\ m.body.srtp = P["client"].srtp
          /\ m.body.ems \in BOOLEAN /\ (m.body.ems <=> P["client"].ems # "disable")
    BY <1>1, <1>2 DEF ClientMade
  <2>2. \A m \in Made("client", d) :
          /\ m.typ = "ClientHello"
          /\ m.body.suites = P["client"].suites /\ m.body.curves = P["client"].curves
          /\ m.body.srtp = P["client"].srtp
          /\ m.body.ems \in BOOLEAN /\ (m.body.ems <=> P["client"].ems # "disable")
    BY <1>6, <1>8, <1>13, <2>1
  <2> QED
    BY <2>2 DEF ClientMade
<1>17. ClientChose(P, d)
  BY <1>2, <1>4, <1>13, <1>14, <1>15 DEF ClientChose
<1> QED
  BY <1>1, <1>4, <1>10, <1>12, <1>16, <1>17, EarlyMakeStep, TwoSides DEF b

--------------------------------------------------------------------------------
(* Preparing: flight 4 *)

\* A sequence is one of its own elements.
LEMMA OfItsOwn ==
  ASSUME NEW S, NEW q \in Seq(S)
  PROVE  q \in Seq(ToSet(q))
<1>1. q \in [1 .. Len(q) -> S] /\ Len(q) \in Nat
  OBVIOUS
<1>2. q \in [1 .. Len(q) -> ToSet(q)]
  BY <1>1 DEF ToSet
<1> QED
  BY <1>1, <1>2

\* A concatenation, element by element.
LEMMA Joined ==
  ASSUME NEW S, NEW a \in Seq(S), NEW b \in Seq(S), NEW t, t = a \o b
  PROVE  /\ t \in Seq(S) /\ Len(t) = Len(a) + Len(b)
         /\ \A i \in 1 .. Len(a) : t[i] = a[i]
         /\ \A i \in 1 .. Len(b) : t[Len(a) + i] = b[i]
<1> DEFINE u == a \o b
           k == Len(a)
           l == Len(b)
<1>1. k \in Nat /\ l \in Nat
  OBVIOUS
<1>2. /\ u \in Seq(S) /\ Len(u) = k + l
      /\ \A i \in 1 .. k + l : u[i] = IF i <= k THEN a[i] ELSE b[i - k]
  BY ConcatProperties
<1>3. t = u
  OBVIOUS
<1> HIDE DEF u, k, l
<1>4. \A i \in 1 .. k : i \in 1 .. k + l /\ i <= k
  BY <1>1
<1>5. \A i \in 1 .. l : k + i \in 1 .. k + l /\ ~(k + i <= k) /\ (k + i) - k = i
  BY <1>1
<1>6. \A i \in 1 .. k : t[i] = a[i]
  BY <1>2, <1>3, <1>4
<1>7. \A i \in 1 .. l : t[k + i] = b[i]
  BY <1>2, <1>3, <1>5
<1> QED
  BY <1>2, <1>3, <1>7, <1>7 DEF k, l

Flight4Packets(c) ==
    <<ServerHello(c), HandshakeRecord(c, "Certificate", [cert |-> c.config.cert]),
      ServerKeyExchange(c)>>
      \o (IF c.config.auth = NoClientCert THEN <<>>
          ELSE <<HandshakeRecord(c, "CertificateRequest", NoMsg)>>)
      \o <<HandshakeRecord(c, "ServerHelloDone", NoMsg)>>

\* A record of one side's own, of this type, in front of all encryption.
Speaks(s, r, typ) ==
    /\ IsMessage(s, r) /\ IsHandshake(r) /\ r.epoch = 0 /\ r # ChangeCipherSpec /\ r.msg.typ = typ

\* Where which message is.
LEMMA Flight4Order ==
  ASSUME NEW c, c.role = "server", NEW q, q = Flight4Packets(c)
  PROVE  /\ q \in Seq(ToSet(q)) /\ Len(q) \in {4, 5}
         /\ (Len(q) = 5 <=> c.config.auth # NoClientCert)
         /\ Speaks("server", q[1], "ServerHello") /\ Speaks("server", q[2], "Certificate")
         /\ Speaks("server", q[3], "ServerKeyExchange")
         /\ Len(q) = 5 => Speaks("server", q[4], "CertificateRequest")
         /\ Speaks("server", q[Len(q)], "ServerHelloDone")
         /\ q[1].msg.body.suite = c.suite /\ q[1].msg.body.srtp = c.srtp
         /\ q[1].msg.body.ems \in BOOLEAN
         /\ (q[1].msg.body.ems <=> c.config.ems # "disable" /\ c.ems)
         /\ q[3].msg.body.curve = c.curve
         /\ q[2].msg.body.cert = c.config.cert /\ q[3].msg.body = ServerKeyExchange(c).msg.body
<1> DEFINE a1 == ServerHello(c)
           a2 == HandshakeRecord(c, "Certificate", [cert |-> c.config.cert])
           a3 == ServerKeyExchange(c)
           a4 == HandshakeRecord(c, "CertificateRequest", NoMsg)
           a5 == HandshakeRecord(c, "ServerHelloDone", NoMsg)
<1>1. /\ Speaks("server", a1, "ServerHello") /\ Speaks("server", a2, "Certificate")
      /\ Speaks("server", a3, "ServerKeyExchange") /\ Speaks("server", a4, "CertificateRequest")
      /\ Speaks("server", a5, "ServerHelloDone")
  <2>1. \A typ, body : typ # "Finished" => Speaks("server", HandshakeRecord(c, typ, body), typ)
    BY RecordIs DEF Speaks
  <2> QED
    BY <2>1 DEF ServerHello, ServerKeyExchange
<1>2. /\ a1.msg.body.suite = c.suite /\ a1.msg.body.srtp = c.srtp /\ a1.msg.body.ems \in BOOLEAN
      /\ (a1.msg.body.ems <=> c.config.ems # "disable" /\ c.ems)
  BY DEF ServerHello, HandshakeRecord
<1>3. /\ a3.msg.body.curve = c.curve /\ a3.msg.body = ServerKeyExchange(c).msg.body
      /\ a2.msg.body.cert = c.config.cert
  BY DEF ServerKeyExchange, HandshakeRecord
<1>4. q = <<a1, a2, a3>> \o (IF c.config.auth = NoClientCert THEN <<>> ELSE <<a4>>) \o <<a5>>
  BY DEF Flight4Packets
<1> HIDE DEF a1, a2, a3, a4, a5
<1> DEFINE S == {a1, a2, a3, a4, a5}
           head == <<a1, a2, a3>>
           middle == <<a4>>
           last == <<a5>>
<1>5. head \in Seq(S) /\ middle \in Seq(S) /\ last \in Seq(S)
  OBVIOUS
<1>6. /\ Len(head) = 3 /\ head[1] = a1 /\ head[2] = a2 /\ head[3] = a3
      /\ Len(middle) = 1 /\ middle[1] = a4 /\ Len(last) = 1 /\ last[1] = a5
  OBVIOUS
<1>7. CASE c.config.auth = NoClientCert
  <2>1. q = head \o last
    BY <1>4, <1>5, <1>7, ConcatEmptySeq
  <2> HIDE DEF head, middle, last, S
  <2>2. /\ q \in Seq(S) /\ Len(q) = Len(head) + Len(last)
        /\ \A i \in 1 .. Len(head) : q[i] = head[i]
        /\ \A i \in 1 .. Len(last) : q[Len(head) + i] = last[i]
    BY <1>5, <2>1, Joined
  <2>3. Len(q) = 4 /\ q[1] = a1 /\ q[2] = a2 /\ q[3] = a3 /\ q[4] = a5
    BY <1>6, <2>2
  <2>4. q \in Seq(ToSet(q))
    BY <2>2, OfItsOwn
  <2> QED
    BY <1>1, <1>2, <1>3, <1>7, <2>3, <2>4
<1>8. CASE c.config.auth # NoClientCert
  <2> DEFINE four == head \o middle
  <2>1. q = four \o last
    BY <1>4, <1>8
  <2> HIDE DEF head, middle, last, S
  <2>2. /\ four \in Seq(S) /\ Len(four) = Len(head) + Len(middle)
        /\ \A i \in 1 .. Len(head) : four[i] = head[i]
        /\ \A i \in 1 .. Len(middle) : four[Len(head) + i] = middle[i]
    <3>1. four = head \o middle
      OBVIOUS
    <3> HIDE DEF four
    <3> QED
      BY <1>5, <3>1, Joined
  <2> HIDE DEF four
  <2>3. Len(four) = 4 /\ four[1] = a1 /\ four[2] = a2 /\ four[3] = a3 /\ four[4] = a4
    BY <1>6, <2>2
  <2>4. four \in Seq(S)
    BY <2>2
  <2>5. /\ q \in Seq(S) /\ Len(q) = Len(four) + Len(last)
        /\ \A i \in 1 .. Len(four) : q[i] = four[i]
        /\ \A i \in 1 .. Len(last) : q[Len(four) + i] = last[i]
    BY <1>5, <2>1, <2>4, Joined
  <2>6. Len(q) = 5 /\ q[1] = a1 /\ q[2] = a2 /\ q[3] = a3 /\ q[4] = a4 /\ q[5] = a5
    BY <1>6, <2>3, <2>5
  <2>7. q \in Seq(ToSet(q))
    BY <2>5, OfItsOwn
  <2> QED
    BY <1>1, <1>2, <1>3, <1>8, <2>6, <2>7
<1> QED
  BY <1>7, <1>8

\* What flight 4 says follows from the server's choices, and ServerHelloDone comes last.
LEMMA Flight4Says ==
  ASSUME NEW c, c.role = "server", NEW q, q = Flight4Packets(c), NEW n \in Nat,
         NEW A, A = Messages(Numbered(q, n))
  PROVE  /\ FlightOf("server", q) /\ \A r \in ToSet(q) : r # ChangeCipherSpec /\ r.epoch = 0
         /\ \A m \in A :
              /\ m.seq \in Nat /\ m.seq >= n
              /\ m.typ \notin {"HelloVerifyRequest", "CertificateVerify", "Finished"}
              /\ m.typ = "ServerHello" =>
                   /\ m.body.suite = c.suite /\ m.body.srtp = c.srtp /\ m.body.ems \in BOOLEAN
                   /\ (m.body.ems <=> c.config.ems # "disable" /\ c.ems)
              /\ m.typ = "Certificate" => m.body.cert = c.config.cert
              /\ m.typ = "ServerKeyExchange" =>
                   m.body.curve = c.curve /\ m.body = ServerKeyExchange(c).msg.body
              /\ m.typ = "CertificateRequest" => c.config.auth # NoClientCert
              /\ m.typ = "ServerHelloDone" =>
                   /\ c.config.auth # NoClientCert =>
                        \E x \in A : x.typ = "CertificateRequest" /\ x.seq < m.seq
                   /\ \E x \in A : x.typ = "Certificate" /\ x.seq < m.seq
                   /\ \A x \in A : x.seq <= m.seq
<1> DEFINE R == Numbered(q, n)
           k == Len(q)
<1>1. /\ q \in Seq(ToSet(q)) /\ k \in {4, 5} /\ (k = 5 <=> c.config.auth # NoClientCert)
      /\ Speaks("server", q[1], "ServerHello") /\ Speaks("server", q[2], "Certificate")
      /\ Speaks("server", q[3], "ServerKeyExchange")
      /\ (k = 5 => Speaks("server", q[4], "CertificateRequest"))
      /\ Speaks("server", q[k], "ServerHelloDone")
      /\ q[1].msg.body.suite = c.suite /\ q[1].msg.body.srtp = c.srtp
      /\ q[1].msg.body.ems \in BOOLEAN
      /\ (q[1].msg.body.ems <=> c.config.ems # "disable" /\ c.ems)
      /\ q[3].msg.body.curve = c.curve
      /\ q[2].msg.body.cert = c.config.cert /\ q[3].msg.body = ServerKeyExchange(c).msg.body
  BY Flight4Order
<1> HIDE DEF k
<1>2. \A i \in 1 .. k : i = 1 \/ i = 2 \/ i = 3 \/ (i = 4 /\ k = 5) \/ i = k
  BY <1>1
<1>3. \A i \in 1 .. k : IsMessage("server", q[i]) /\ IsHandshake(q[i]) /\ q[i].epoch = 0 /\ q[i] # ChangeCipherSpec
  <2>1. ASSUME NEW i \in 1 .. k PROVE \E typ : Speaks("server", q[i], typ)
    BY <1>1, <1>2
  <2> QED
    BY <2>1 DEF Speaks
<1>4. ToSet(q) = {q[i] : i \in 1 .. k}
  <2>1. DOMAIN q = 1 .. k
    BY <1>1 DEF k
  <2> QED
    BY <2>1 DEF ToSet
<1>5. FlightOf("server", q) /\ \A r \in ToSet(q) : r # ChangeCipherSpec /\ r.epoch = 0
  BY <1>1, <1>3, <1>4 DEF FlightOf
<1>6. Shakes(q) = 1 .. k
  BY <1>3 DEF Shakes, k
<1>7. /\ \A i \in 1 .. k : R[i].msg.typ = q[i].msg.typ /\ R[i].msg.body = q[i].msg.body
      /\ A = {R[i].msg : i \in 1 .. k}
      /\ \A i, j \in 1 .. k : i < j => R[i].msg.seq < R[j].msg.seq
      /\ \A i \in 1 .. k : R[i].msg.seq \in Nat /\ R[i].msg.seq >= n
  <2> DEFINE T == R
  <2>1. T = Numbered(q, n)
    OBVIOUS
  <2> HIDE DEF T
  <2>2. /\ \A i \in 1 .. Len(q) :
             IsHandshake(q[i]) => T[i].msg.typ = q[i].msg.typ /\ T[i].msg.body = q[i].msg.body
        /\ Messages(T) = {T[i].msg : i \in Shakes(q)}
        /\ \A i, j \in Shakes(q) : i < j => T[i].msg.seq < T[j].msg.seq
        /\ \A i \in Shakes(q) : T[i].msg.seq \in Nat /\ T[i].msg.seq >= n
    <3>1. FlightOf("server", q)
      BY <1>5
    <3> QED
      BY <2>1, <3>1, NumbersRise
  <2> QED
    BY <1>3, <1>6, <2>1, <2>2 DEF T, k
<1> HIDE DEF R
<1>8. /\ q[1].msg.typ = "ServerHello" /\ q[2].msg.typ = "Certificate"
      /\ q[3].msg.typ = "ServerKeyExchange" /\ (k = 5 => q[4].msg.typ = "CertificateRequest")
      /\ q[k].msg.typ = "ServerHelloDone"
  BY <1>1 DEF Speaks
<1>9. \A i \in 1 .. k :
        /\ q[i].msg.typ \notin {"HelloVerifyRequest", "CertificateVerify", "Finished"}
        /\ q[i].msg.typ = "Certificate" => i = 2
        /\ q[i].msg.typ = "ServerHello" => i = 1
        /\ q[i].msg.typ = "ServerKeyExchange" => i = 3
        /\ q[i].msg.typ = "CertificateRequest" => k = 5
        /\ q[i].msg.typ = "ServerHelloDone" => i = k
  BY <1>2, <1>8
<1>10. ASSUME NEW m \in A
       PROVE  /\ m.seq \in Nat /\ m.seq >= n
              /\ m.typ \notin {"HelloVerifyRequest", "CertificateVerify", "Finished"}
              /\ m.typ = "ServerHello" =>
                   /\ m.body.suite = c.suite /\ m.body.srtp = c.srtp /\ m.body.ems \in BOOLEAN
                   /\ (m.body.ems <=> c.config.ems # "disable" /\ c.ems)
              /\ m.typ = "Certificate" => m.body.cert = c.config.cert
              /\ m.typ = "ServerKeyExchange" =>
                   m.body.curve = c.curve /\ m.body = ServerKeyExchange(c).msg.body
              /\ m.typ = "CertificateRequest" => c.config.auth # NoClientCert
              /\ m.typ = "ServerHelloDone" =>
                   /\ c.config.auth # NoClientCert =>
                        \E x \in A : x.typ = "CertificateRequest" /\ x.seq < m.seq
                   /\ \E x \in A : x.typ = "Certificate" /\ x.seq < m.seq
                   /\ \A x \in A : x.seq <= m.seq
  <2>1. PICK i \in 1 .. k : m = R[i].msg
    BY <1>7
  <2>2. m.typ = q[i].msg.typ /\ m.body = q[i].msg.body /\ m.seq \in Nat /\ m.seq >= n
    BY <1>7, <2>1
  <2>3. ASSUME m.typ = "ServerHelloDone"
        PROVE  /\ c.config.auth # NoClientCert =>
                    \E x \in A : x.typ = "CertificateRequest" /\ x.seq < m.seq
               /\ \E x \in A : x.typ = "Certificate" /\ x.seq < m.seq
               /\ \A x \in A : x.seq <= m.seq
    <3>1. i = k
      BY <1>9, <2>2, <2>3
    <3>2. ASSUME NEW x \in A PROVE x.seq <= m.seq
      <4>1. PICK j \in 1 .. k : x = R[j].msg
        BY <1>7
      <4>2. j = k \/ j < k
        BY <1>1
      <4> QED
        BY <1>7, <2>1, <3>1, <4>1, <4>2
    <3>3. ASSUME c.config.auth # NoClientCert
          PROVE  \E x \in A : x.typ = "CertificateRequest" /\ x.seq < m.seq
      <4>1. k = 5 /\ 4 \in 1 .. k /\ 4 < k
        BY <1>1, <3>3
      <4>2. R[4].msg \in A /\ R[4].msg.typ = "CertificateRequest" /\ R[4].msg.seq < m.seq
        BY <1>7, <1>8, <2>1, <3>1, <4>1
      <4> QED
        BY <4>2
    <3>4. \E x \in A : x.typ = "Certificate" /\ x.seq < m.seq
      <4>1. 2 \in 1 .. k /\ 2 < k
        BY <1>1
      <4>2. R[2].msg \in A /\ R[2].msg.typ = "Certificate" /\ R[2].msg.seq < m.seq
        BY <1>7, <1>8, <2>1, <3>1, <4>1
      <4> QED
        BY <4>2
    <3> QED
      BY <3>2, <3>3, <3>4
  <2> QED
    BY <1>1, <1>9, <2>2, <2>3
<1> QED
  BY <1>5, <1>10

\* The server agrees, or asks for a certificate and agrees.
LEMMA MakeFlight4 ==
  ASSUME NEW P, NEW K, NEW N, Inv(P, K, N), K["server"].fsm = "preparing", K["server"].flight = 4,
         NEW c, c = Sending(K["server"], Flight4Packets(K["server"])).conn,
         NEW d, d = WithNumbers(c)
  PROVE  Inv(P, [K EXCEPT !["server"] = d], N)
<1> DEFINE b == K["server"]
           q == Flight4Packets(b)
           A == Messages(Numbered(q, b.send_seq))
<1>1. /\ "server" \in Sides /\ Two(P, "server", b, K["client"])
      /\ ~HasKeys(b) /\ b.local_epoch = 0 /\ b.remote_epoch = 0
      /\ Typed(P, "server", b) /\ IsConn(b) /\ Own("server", b)
  BY NoKeysYet, TwoSides
<1>2. ServerMade(P, b) /\ ServerChose(P, b)
  BY TwoRecords
<1>3. c = [b EXCEPT !.fsm = "sending", !.packets = q]
  BY DEF Sending
<1>4. b.fsm = "preparing" /\ b.flight = 4
  OBVIOUS
<1>5. b.role = "server" /\ b.config = P["server"] /\ b.send_seq \in Nat
  BY <1>1 DEF Typed
<1>6. /\ FlightOf("server", q) /\ \A r \in ToSet(q) : r # ChangeCipherSpec /\ r.epoch = 0
      /\ \A m \in A :
           /\ m.seq \in Nat /\ m.seq >= b.send_seq /\ m.typ # "Finished"
           /\ m.typ = "ServerHello" =>
                /\ m.body.suite = b.suite /\ m.body.srtp = b.srtp /\ m.body.ems \in BOOLEAN
                /\ (m.body.ems <=> b.config.ems # "disable" /\ b.ems)
           /\ m.typ = "ServerKeyExchange" => m.body.curve = b.curve
           /\ m.typ = "CertificateRequest" => b.config.auth # NoClientCert
           /\ m.typ = "ServerHelloDone" =>
                /\ b.config.auth # NoClientCert =>
                     \E x \in A : x.typ = "CertificateRequest" /\ x.seq < m.seq
                /\ \A x \in A : x.seq <= m.seq
  <2> HIDE DEF b
  <2>1. q = Flight4Packets(b) /\ A = Messages(Numbered(q, b.send_seq))
    OBVIOUS
  <2> HIDE DEF q, A
  <2> QED
    BY <1>5, <2>1, Flight4Says
<1> HIDE DEF b, q, A
<1>7. /\ IsConn(c) /\ c.fsm = "sending" /\ c.packets = q
      /\ \A f \in Fields \ {"fsm", "packets"} : c[f] = b[f]
  BY <1>1, <1>3, FieldNames DEF IsConn
<1>8. /\ c.master = b.master /\ c.local_epoch = b.local_epoch /\ c.remote_epoch = b.remote_epoch
      /\ c.send_seq = b.send_seq /\ c.cookie = b.cookie /\ c.curve = b.curve
  BY <1>7, FieldNames
<1>9. Same(b, c, Making)
  <2>1. {"fsm", "packets"} \subseteq Making
    BY DEF Making
  <2> QED
    BY <1>7, <2>1 DEF Same
<1>10. Numberable("server", b, c)
  <2>1. HasKeys(b) => HasKeys(c)
    BY <1>1
  <2>2. \A m \in Made("server", b) : m.seq < c.send_seq
    BY <1>1, <1>8 DEF Own
  <2>3. ~\E r \in ToSet(c.packets) : r = ChangeCipherSpec \/ r.epoch = 1
    BY <1>6, <1>7
  <2> QED
    BY <1>5, <1>6, <1>7, <1>8, <1>9, <2>1, <2>2, <2>3 DEF Numberable
<1>11. /\ Made("server", d) = Made("server", b) \cup A
       /\ Sent("server", d) = Made("server", b)
       /\ d.master = b.master /\ d.fsm = "sending" /\ d.cookie = b.cookie /\ d.curve = b.curve
       /\ Same(b, d, Making)
  <2>1. Prepared("server", b, c, d)
    BY <1>1, <1>4, <1>10, NumberedSide
  <2> QED
    BY <1>7, <1>8, <2>1 DEF Prepared, A
<1>12. /\ d.flight = 4 /\ d.keypair = b.keypair /\ d.ems = b.ems /\ d.peer_cert = b.peer_cert
       /\ d.suite = b.suite /\ d.srtp = b.srtp
  BY <1>4, <1>11, MakingKeeps
<1>13. /\ b.suite = Suite(P) /\ b.srtp = Srtp(P) /\ (b.ems <=> Ems(P)) /\ b.curve = Curve(P)
       /\ (b.config.auth # NoClientCert <=> Asked(P))
       /\ (Ems(P) => b.config.ems # "disable")
  BY <1>2, <1>4, <1>5 DEF ServerChose, Ems, Asked
<1>14. \A m \in Made("server", b) : m.typ = "HelloVerifyRequest" /\ m.seq \in Nat /\ m.seq < b.send_seq
  <2>1. HelloVerifyRequest.typ = "HelloVerifyRequest"
    BY DEF HelloVerifyRequest
  <2> QED
    BY <1>1, <1>2, <1>4, <2>1 DEF ServerMade, Own
<1>15. ServerMade(P, d)
  <2>1. ASSUME NEW m \in Made("server", d)
        PROVE  /\ m.typ = "ServerHello" =>
                    /\ m.body.suite = Suite(P) /\ m.body.srtp = Srtp(P)
                    /\ m.body.ems \in BOOLEAN /\ (m.body.ems <=> Ems(P))
               /\ m.typ = "ServerKeyExchange" => m.body.curve = Curve(P)
               /\ m.typ = "CertificateRequest" => Asked(P)
               /\ m.typ # "Finished"
    <3>1. CASE m \in A
      BY <1>6, <1>13, <3>1
    <3>2. CASE m \in Made("server", b)
      BY <1>14, <3>2
    <3> QED
      BY <1>11, <2>1, <3>1, <3>2
  <2>2. ASSUME NEW m \in Made("server", d), m.typ = "ServerHelloDone"
        PROVE  /\ Asked(P) =>
                    \E x \in Made("server", d) : x.typ = "CertificateRequest" /\ x.seq < m.seq
               /\ \A x \in Made("server", d) : x.seq <= m.seq
    <3>1. m \in A
      BY <1>11, <1>14, <2>2
    <3>2. m.seq \in Nat /\ m.seq >= b.send_seq /\ \A x \in A : x.seq <= m.seq
      BY <1>6, <2>2, <3>1
    <3>3. \A x \in Made("server", b) : x.seq <= m.seq
      BY <1>5, <1>14, <3>2
    <3>4. Asked(P) => \E x \in A : x.typ = "CertificateRequest" /\ x.seq < m.seq
      BY <1>6, <1>13, <2>2, <3>1
    <3> QED
      BY <1>11, <3>2, <3>3, <3>4
  <2>3. \A m \in Sent("server", d) : m.typ # "Finished"
    BY <1>11, <1>14
  <2> QED
    BY <1>11, <1>12, <2>1, <2>2, <2>3 DEF ServerMade
<1>16. ServerChose(P, d)
  <2>1. ~HasKeys(d)
    BY <1>1, <1>11 DEF HasKeys
  <2> QED
    BY <1>2, <1>4, <1>11, <1>12, <2>1 DEF ServerChose
<1> QED
  BY <1>1, <1>4, <1>8, <1>10, <1>15, <1>16, EarlyMakeStep, TwoSides DEF b

--------------------------------------------------------------------------------
(* Preparing: the last flights *)

\* The numbers of a flight rise from the first on.
LEMMA Rising ==
  ASSUME NEW s, NEW q, FlightOf(s, q), NEW n \in Nat, NEW R, R = Numbered(q, n)
  PROVE  /\ \A i \in Shakes(q) : R[i].msg.typ = q[i].msg.typ /\ R[i].msg.seq \in Nat /\ R[i].msg.seq >= n
         /\ Messages(R) = {R[i].msg : i \in Shakes(q)}
         /\ \A i, j \in Shakes(q) : i < j => R[i].msg.seq < R[j].msg.seq
<1>1. /\ \A i \in 1 .. Len(q) : IsHandshake(q[i]) => R[i].msg.typ = q[i].msg.typ
      /\ Messages(R) = {R[i].msg : i \in Shakes(q)}
      /\ \A i, j \in Shakes(q) : i < j => R[i].msg.seq < R[j].msg.seq
      /\ \A i \in Shakes(q) : R[i].msg.seq \in Nat /\ R[i].msg.seq >= n
  BY NumbersRise
<1>2. \A i \in Shakes(q) : i \in 1 .. Len(q) /\ IsHandshake(q[i])
  BY DEF Shakes
<1> QED
  BY <1>1, <1>2

Behind(q, a, b) ==
    /\ q \in Seq(ToSet(a) \cup ToSet(b)) /\ Len(q) = Len(a) + Len(b)
    /\ \A i \in 1 .. Len(a) : q[i] = a[i]
    /\ \A i \in 1 .. Len(b) : q[Len(a) + i] = b[i]

SaysMore(s, a, b, n, q) ==
    /\ FlightOf(s, q) /\ ToSet(q) = ToSet(a) \cup ToSet(b)
    /\ \E X : /\ Messages(Numbered(q, n)) = Messages(Numbered(a, n)) \cup X
              /\ \A x \in X : /\ x.seq \in Nat /\ x.seq >= n
                              /\ \E r \in ToSet(b) : IsHandshake(r) /\ x.typ = r.msg.typ
              /\ \A x \in X, y \in Messages(Numbered(a, n)) : y.seq < x.seq

\* Records behind others leave the numbers in front alone, and get greater ones.
LEMMA MessagesBehind ==
  ASSUME NEW s, NEW a, NEW b, FlightOf(s, a), FlightOf(s, b), NEW n \in Nat,
         NEW q, Behind(q, a, b)
  PROVE  SaysMore(s, a, b, n, q)
<1> DEFINE k == Len(a)
           l == Len(b)
           R == Numbered(q, n)
           T == Numbered(a, n)
<1>1. /\ a \in Seq(ToSet(a)) /\ b \in Seq(ToSet(b)) /\ k \in Nat /\ l \in Nat
      /\ DOMAIN a = 1 .. k /\ DOMAIN b = 1 .. l
      /\ ToSet(a) = {a[i] : i \in 1 .. k} /\ ToSet(b) = {b[i] : i \in 1 .. l}
  BY DEF FlightOf, ToSet
<1>2. /\ q \in Seq(ToSet(a) \cup ToSet(b)) /\ Len(q) = k + l
      /\ \A i \in 1 .. k : q[i] = a[i]
      /\ \A i \in 1 .. l : q[k + i] = b[i]
  BY DEF Behind
<1> HIDE DEF k, l
<1>3. \A i \in 1 .. k + l : i \in 1 .. k \/ \E j \in 1 .. l : i = k + j
  <2> SUFFICES ASSUME NEW i \in 1 .. k + l, i \notin 1 .. k PROVE \E j \in 1 .. l : i = k + j
    OBVIOUS
  <2>1. i - k \in 1 .. l /\ i = k + (i - k)
    BY <1>1
  <2> QED
    BY <2>1
<1>4. /\ DOMAIN q = 1 .. k + l
      /\ \A i \in 1 .. k : i \in 1 .. k + l
      /\ \A i \in 1 .. l : k + i \in 1 .. k + l
  BY <1>1, <1>2
<1>5. ToSet(q) = ToSet(a) \cup ToSet(b)
  <2>1. ToSet(q) = {q[i] : i \in 1 .. k + l}
    BY <1>4 DEF ToSet
  <2>2. ASSUME NEW x \in ToSet(q) PROVE x \in ToSet(a) \cup ToSet(b)
    <3>1. PICK i \in 1 .. k + l : x = q[i]
      BY <2>1, <2>2
    <3>2. CASE i \in 1 .. k
      BY <1>1, <1>2, <3>1, <3>2
    <3>3. CASE i \notin 1 .. k
      <4>1. PICK j \in 1 .. l : i = k + j
        BY <1>3, <3>3
      <4>2. x = b[j]
        BY <1>2, <3>1, <4>1
      <4> QED
        BY <1>1, <4>2
    <3> QED
      BY <3>2, <3>3
  <2>3. ASSUME NEW x \in ToSet(a) \cup ToSet(b) PROVE x \in ToSet(q)
    BY <1>1, <1>2, <1>4, <2>1, <2>3
  <2> QED
    BY <2>2, <2>3
<1>6. FlightOf(s, q)
  BY <1>2, <1>5 DEF FlightOf
<1>7. /\ \A i \in Shakes(q) : R[i].msg.typ = q[i].msg.typ /\ R[i].msg.seq \in Nat /\ R[i].msg.seq >= n
      /\ Messages(R) = {R[i].msg : i \in Shakes(q)}
      /\ \A i, j \in Shakes(q) : i < j => R[i].msg.seq < R[j].msg.seq
  <2> DEFINE U == R
  <2>1. U = Numbered(q, n)
    OBVIOUS
  <2> HIDE DEF U
  <2>2. /\ \A i \in Shakes(q) : U[i].msg.typ = q[i].msg.typ /\ U[i].msg.seq \in Nat /\ U[i].msg.seq >= n
        /\ Messages(U) = {U[i].msg : i \in Shakes(q)}
        /\ \A i, j \in Shakes(q) : i < j => U[i].msg.seq < U[j].msg.seq
    BY <1>6, <2>1, Rising
  <2> QED
    BY <2>1, <2>2
<1>8. Messages(T) = {T[i].msg : i \in Shakes(a)}
  <2> DEFINE U == T
  <2>1. U = Numbered(a, n)
    OBVIOUS
  <2> HIDE DEF U
  <2> QED
    BY <2>1, Rising
<1>9. \A i \in 1 .. k : R[i] = T[i]
  <2> SUFFICES ASSUME NEW i \in 1 .. k PROVE R[i] = T[i]
    OBVIOUS
  <2>1. i \in Nat /\ i > 0 /\ i \in DOMAIN q /\ i \in DOMAIN a /\ \A j \in 1 .. i : j \in 1 .. k
    BY <1>1, <1>4
  <2>2. \A j \in 1 .. i : q[j] = a[j]
    BY <1>2, <2>1
  <2> QED
    BY <2>1, <2>2, NumbersOfFirst
<1> HIDE DEF R, T
<1> DEFINE X == {R[k + i].msg : i \in Shakes(b)}
<1>10. /\ Shakes(a) \subseteq 1 .. k /\ Shakes(b) \subseteq 1 .. l
       /\ Shakes(q) = Shakes(a) \cup {k + i : i \in Shakes(b)}
  <2>1. /\ Shakes(q) = {i \in 1 .. k + l : IsHandshake(q[i])}
        /\ Shakes(a) = {i \in 1 .. k : IsHandshake(a[i])}
        /\ Shakes(b) = {i \in 1 .. l : IsHandshake(b[i])}
    BY <1>2 DEF Shakes, k, l
  <2>2. ASSUME NEW i \in Shakes(q) PROVE i \in Shakes(a) \cup {k + j : j \in Shakes(b)}
    <3>1. i \in 1 .. k + l /\ IsHandshake(q[i])
      BY <2>1
    <3>2. CASE i \in 1 .. k
      BY <1>2, <2>1, <3>1, <3>2
    <3>3. CASE i \notin 1 .. k
      <4>1. PICK j \in 1 .. l : i = k + j
        BY <1>3, <3>1, <3>3
      <4>2. j \in Shakes(b)
        BY <1>2, <2>1, <3>1, <4>1
      <4> QED
        BY <4>1, <4>2
    <3> QED
      BY <3>2, <3>3
  <2>3. ASSUME NEW i \in Shakes(a) PROVE i \in Shakes(q)
    BY <1>2, <1>4, <2>1, <2>3
  <2>4. ASSUME NEW i \in Shakes(b) PROVE k + i \in Shakes(q)
    BY <1>2, <1>4, <2>1, <2>4
  <2> QED
    BY <2>1, <2>2, <2>3, <2>4
<1>11. Messages(R) = Messages(T) \cup X
  <2>1. {R[i].msg : i \in Shakes(a)} = Messages(T)
    BY <1>8, <1>9, <1>10
  <2> QED
    BY <1>7, <1>10, <2>1
<1>12. ASSUME NEW x \in X
       PROVE  /\ x.seq \in Nat /\ x.seq >= n
              /\ \E r \in ToSet(b) : IsHandshake(r) /\ x.typ = r.msg.typ
  <2>1. PICK i \in Shakes(b) : x = R[k + i].msg
    BY <1>12
  <2>2. k + i \in Shakes(q) /\ i \in 1 .. l /\ IsHandshake(b[i])
    BY <1>10 DEF Shakes
  <2>3. x.seq \in Nat /\ x.seq >= n /\ x.typ = b[i].msg.typ
    BY <1>2, <1>7, <2>1, <2>2
  <2>4. b[i] \in ToSet(b)
    BY <1>1, <2>2
  <2> QED
    BY <2>2, <2>3, <2>4
<1>13. ASSUME NEW x \in X, NEW y \in Messages(T) PROVE y.seq < x.seq
  <2>1. PICK i \in Shakes(b) : x = R[k + i].msg
    BY <1>13
  <2>2. PICK j \in Shakes(a) : y = R[j].msg
    BY <1>8, <1>9, <1>10
  <2>3. k + i \in Shakes(q) /\ j \in Shakes(q) /\ j < k + i
    BY <1>1, <1>10
  <2> QED
    BY <1>7, <2>1, <2>2, <2>3
<1> QED
  BY <1>5, <1>6, <1>11, <1>12, <1>13 DEF R, T, SaysMore

\* The same of two flights joined.
LEMMA MoreMessages ==
  ASSUME NEW s, NEW a, NEW b, FlightOf(s, a), FlightOf(s, b), NEW n \in Nat,
         NEW q, q = a \o b
  PROVE  SaysMore(s, a, b, n, q)
<1> DEFINE S == ToSet(a) \cup ToSet(b)
<1>1. a \in Seq(S) /\ b \in Seq(S)
  BY DEF FlightOf
<1> HIDE DEF S
<1>2. /\ q \in Seq(S) /\ Len(q) = Len(a) + Len(b)
      /\ \A i \in 1 .. Len(a) : q[i] = a[i]
      /\ \A i \in 1 .. Len(b) : q[Len(a) + i] = b[i]
  BY <1>1, Joined
<1>3. Behind(q, a, b)
  BY <1>2 DEF S, Behind
<1> QED
  BY <1>3, MessagesBehind

\* The end of a last flight.
Ending(c, data) == <<ChangeCipherSpec, FinishedRecord(c, data)>>

\* The end of a flight is one Finished behind a ChangeCipherSpec.
LEMMA EndingIs ==
  ASSUME NEW s, NEW c, c.role = s, NEW data
  PROVE  /\ FlightOf(s, Ending(c, data))
         /\ \E r \in ToSet(Ending(c, data)) : r.epoch = 1
         /\ \A r \in ToSet(Ending(c, data)) : IsHandshake(r) => r.msg.typ = "Finished"
<1> DEFINE f == FinishedRecord(c, data)
           q == <<ChangeCipherSpec, f>>
<1>1. IsMessage(s, f) /\ f.epoch = 1 /\ f.msg.typ = "Finished"
  BY DEF IsMessage, FinishedRecord
<1>2. ~IsHandshake(ChangeCipherSpec)
  BY DEF IsHandshake, ChangeCipherSpec
<1> HIDE DEF f
<1>3. q \in Seq({ChangeCipherSpec, f}) /\ DOMAIN q = {1, 2} /\ q[1] = ChangeCipherSpec /\ q[2] = f
  OBVIOUS
<1>4. Ending(c, data) = q
  BY DEF Ending, f
<1> HIDE DEF q
<1>5. ToSet(q) = {ChangeCipherSpec, f}
  BY <1>3 DEF ToSet
<1> QED
  BY <1>1, <1>2, <1>3, <1>4, <1>5 DEF FlightOf

\* The server ends: what both have said to get their keys stays the same.
LEMMA MakeFlight6 ==
  ASSUME NEW P, NEW K, NEW N, Inv(P, K, N), K["server"].fsm = "preparing", K["server"].flight = 6,
         NEW data, NEW c, c = Sending(K["server"], Ending(K["server"], data)).conn,
         NEW d, d = WithNumbers(c)
  PROVE  Inv(P, [K EXCEPT !["server"] = d], N)
<1> DEFINE b == K["server"]
           p == K["client"]
           q == Ending(b, data)
           X == Messages(Numbered(q, b.send_seq))
           L == [K EXCEPT !["server"] = d]
<1>1. /\ "server" \in Sides /\ Two(P, "server", b, p) /\ K = [s \in Sides |-> K[s]]
      /\ Typed(P, "server", b) /\ IsConn(b) /\ Own("server", b) /\ Keyed(P, K)
  <2>1. Two(P, "server", b, p)
    BY TwoOfInv, TwoSides DEF Inv
  <2> QED
    BY <2>1, TwoSides DEF Inv, Two, Typed
<1>2. ServerMade(P, b) /\ ServerChose(P, b)
  BY TwoRecords
<1>3. c = [b EXCEPT !.fsm = "sending", !.packets = q]
  BY DEF Sending
<1>4. b.fsm = "preparing" /\ b.flight = 6
  OBVIOUS
<1>5. b.role = "server" /\ b.send_seq \in Nat
  BY <1>1 DEF Typed
<1>6. /\ FlightOf("server", q) /\ \E r \in ToSet(q) : r.epoch = 1
      /\ \A m \in X : m.seq \in Nat /\ m.seq >= b.send_seq /\ m.typ = "Finished"
  <2> HIDE DEF b
  <2>1. /\ FlightOf("server", q) /\ \E r \in ToSet(q) : r.epoch = 1
        /\ \A r \in ToSet(q) : IsHandshake(r) => r.msg.typ = "Finished"
    BY <1>5, EndingIs
  <2> DEFINE R == Numbered(q, b.send_seq)
  <2>2. R = Numbered(q, b.send_seq)
    OBVIOUS
  <2> HIDE DEF q, R
  <2>3. /\ \A i \in Shakes(q) : R[i].msg.typ = q[i].msg.typ /\ R[i].msg.seq \in Nat /\ R[i].msg.seq >= b.send_seq
        /\ Messages(R) = {R[i].msg : i \in Shakes(q)}
    BY <1>5, <2>1, <2>2, Rising
  <2>4. \A i \in Shakes(q) : q[i] \in ToSet(q) /\ IsHandshake(q[i])
    BY <2>1 DEF Shakes, FlightOf, ToSet
  <2> QED
    BY <2>1, <2>2, <2>3, <2>4
<1>7. HasKeys(b)
  BY <1>2, <1>4 DEF ServerChose
<1> HIDE DEF b, p, q, X, L
<1>8. /\ IsConn(c) /\ c.fsm = "sending" /\ c.packets = q
      /\ \A f \in Fields \ {"fsm", "packets"} : c[f] = b[f]
  BY <1>1, <1>3, FieldNames DEF IsConn
<1>9. /\ c.master = b.master /\ c.local_epoch = b.local_epoch /\ c.remote_epoch = b.remote_epoch
      /\ c.send_seq = b.send_seq /\ c.cookie = b.cookie /\ c.curve = b.curve
  BY <1>8, FieldNames
<1>10. Same(b, c, Making)
  <2>1. {"fsm", "packets"} \subseteq Making
    BY DEF Making
  <2> QED
    BY <1>8, <2>1 DEF Same
<1>11. Numberable("server", b, c)
  <2>1. HasKeys(c)
    BY <1>7, <1>9 DEF HasKeys
  <2>2. \A m \in Made("server", b) : m.seq < c.send_seq
    BY <1>1, <1>9 DEF Own
  <2> QED
    BY <1>5, <1>6, <1>8, <1>9, <1>10, <2>1, <2>2 DEF Numberable
<1>12. /\ Made("server", d) = Made("server", b) \cup X
       /\ Sent("server", d) = Made("server", b) /\ Got("server", d) = Got("server", b)
       /\ d.master = b.master /\ d.fsm = "sending" /\ d.cookie = b.cookie /\ d.curve = b.curve
       /\ Same(b, d, Making) /\ d.local_epoch = 1
  <2>1. Prepared("server", b, c, d)
    BY <1>1, <1>4, <1>11, NumberedSide
  <2>2. Begun(b.local_epoch, c.packets) = 1
    BY <1>6, <1>8 DEF Begun
  <2> QED
    BY <1>8, <1>9, <2>1, <2>2 DEF Prepared, X
<1>13. /\ d.flight = 6 /\ d.keypair = b.keypair /\ d.ems = b.ems /\ d.peer_cert = b.peer_cert
       /\ d.suite = b.suite /\ d.srtp = b.srtp
  BY <1>4, <1>12, MakingKeeps
<1>14. \A m \in Made("server", b) : m.typ # "Finished"
  BY <1>2, <1>4 DEF ServerMade
<1>15. ServerMade(P, d)
  <2>1. ASSUME NEW m \in Made("server", d), m.typ # "Finished"
        PROVE  /\ m \in Made("server", b)
               /\ m.typ = "ServerHello" =>
                    /\ m.body.suite = Suite(P) /\ m.body.srtp = Srtp(P)
                    /\ m.body.ems \in BOOLEAN /\ (m.body.ems <=> Ems(P))
               /\ m.typ = "ServerKeyExchange" => m.body.curve = Curve(P)
               /\ m.typ = "CertificateRequest" => Asked(P)
               /\ m.typ = "ServerHelloDone" =>
                    /\ Asked(P) => \E x \in Made("server", b) : x.typ = "CertificateRequest" /\ x.seq < m.seq
                    /\ \A x \in Made("server", b) : x.typ # "Finished" => x.seq <= m.seq
    <3>1. m \in Made("server", b)
      BY <1>6, <1>12, <2>1
    <3> QED
      BY <1>2, <3>1 DEF ServerMade
  <2>2. \A x \in Made("server", d) : x.typ # "Finished" => x \in Made("server", b)
    BY <2>1
  <2>3. Made("server", b) \subseteq Made("server", d)
    BY <1>12
  <2>4. \A m \in Sent("server", d) : m.typ # "Finished"
    BY <1>12, <1>14
  <2>5. \A m \in Made("server", d) : m.typ \in {"ServerHello", "ServerKeyExchange", "CertificateRequest", "ServerHelloDone"} => m.typ # "Finished"
    OBVIOUS
  <2> QED
    BY <1>12, <1>13, <2>1, <2>2, <2>3, <2>4, <2>5 DEF ServerMade
<1>16. ServerChose(P, d)
  <2>1. HasKeys(d)
    BY <1>7, <1>12 DEF HasKeys
  <2> QED
    BY <1>2, <1>4, <1>12, <1>13, <2>1 DEF ServerChose
<1>17. L["server"] = d /\ L["client"] = p /\ K["server"] = b /\ K["client"] = p
  BY <1>1, TwoSides DEF L, b, p
<1>18. Secret(P, Said(L)) = Secret(P, Said(K))
  <2>1. Said(L) = Said(K) \cup X
    BY <1>12, <1>17 DEF Said
  <2>2. \A i \in DOMAIN SessionRules : SessionRules[i].typ # "Finished"
    BY DEF SessionRules, Need, Rule
  <2>3. \A i \in DOMAIN SessionRules :
          Matching(Said(L), SessionRules[i]) = Matching(Said(K), SessionRules[i])
    BY <1>6, <2>1, <2>2 DEF Matching
  <2>4. Pull(Said(L), SessionRules) = Pull(Said(K), SessionRules)
    BY <2>3, PullOfSame
  <2> QED
    BY <2>4 DEF Secret
<1>19. Keyed(P, L)
  <2>1. ASSUME NEW s \in Sides, HasKeys(L[s]) PROVE L[s].master = Secret(P, Said(K))
    <3>1. L[s].master = K[s].master
      BY <1>12, <1>17, TwoSides
    <3> QED
      BY <1>1, <2>1, <3>1 DEF Keyed, HasKeys
  <2> QED
    BY <1>18, <2>1 DEF Keyed
<1> QED
  BY <1>1, <1>4, <1>11, <1>15, <1>16, <1>19, MakeStep, TwoSides DEF b, L

\* What the client says before it proves anything.
Unsent(c) ==
    (IF c.requested THEN <<HandshakeRecord(c, "Certificate", [cert |-> c.config.cert])>> ELSE <<>>)
      \o <<HandshakeRecord(c, "ClientKeyExchange", [public_key |-> c.keypair])>>

ClientSays(x, typ, n) ==
    x.typ = typ /\ x.from = "client" /\ x.epoch = 0 /\ x.seq \in Nat /\ x.seq >= n

KeyIn(c, y, n) == ClientSays(y, "ClientKeyExchange", n) /\ y.body.public_key = c.keypair
CertIn(c, x, n) == ClientSays(x, "Certificate", n) /\ x.body.cert = c.config.cert

\* One message, or two in their order.
Answer(c, T, n) ==
    \E y : /\ KeyIn(c, y, n)
           /\ \/ ~c.requested /\ Transcript(T) = <<y>> /\ Messages(T) = {y}
              \/ /\ c.requested
                 /\ \E x : /\ CertIn(c, x, n) /\ x.seq < y.seq
                           /\ Transcript(T) = <<x, y>> /\ Messages(T) = {x, y}

\* Two tuples of one element make one of two.
LEMMA PairJoined ==
  ASSUME NEW a, NEW k
  PROVE  <<a>> \o <<k>> = <<a, k>>
<1> DEFINE S == {a, k}
           u == <<a>>
           v == <<k>>
           w == <<a, k>>
           t == u \o v
<1>1. u \in Seq(S) /\ v \in Seq(S) /\ w \in Seq(S)
  OBVIOUS
<1>2. Len(u) = 1 /\ Len(v) = 1 /\ Len(w) = 2 /\ u[1] = a /\ v[1] = k /\ w[1] = a /\ w[2] = k
  OBVIOUS
<1>3. t = u \o v
  OBVIOUS
<1> HIDE DEF S, u, v, w, t
<1>4. /\ t \in Seq(S) /\ Len(t) = Len(u) + Len(v)
      /\ \A i \in 1 .. Len(u) : t[i] = u[i]
      /\ \A i \in 1 .. Len(v) : t[Len(u) + i] = v[i]
  BY <1>1, <1>3, Joined
<1>5. t[1] = a /\ t[2] = k /\ Len(t) = 2
  BY <1>2, <1>4
<1>6. \A i \in 1 .. Len(t) : t[i] = w[i]
  BY <1>2, <1>5
<1>7. t = w
  BY <1>1, <1>2, <1>4, <1>5, <1>6, SeqEqual
<1> QED
  BY <1>7 DEF t, u, v, w

\* The client's answer is a key exchange, behind a certificate where one was requested.
LEMMA UnsentIs ==
  ASSUME NEW c, c.role = "client", c.requested \in BOOLEAN, NEW q, q = Unsent(c)
  PROVE  LET a == HandshakeRecord(c, "Certificate", [cert |-> c.config.cert])
             k == HandshakeRecord(c, "ClientKeyExchange", [public_key |-> c.keypair])
         IN  IF c.requested THEN q = <<a, k>> ELSE q = <<k>>
<1> DEFINE a == HandshakeRecord(c, "Certificate", [cert |-> c.config.cert])
           k == HandshakeRecord(c, "ClientKeyExchange", [public_key |-> c.keypair])
<1>1. q = (IF c.requested THEN <<a>> ELSE <<>>) \o <<k>>
  BY DEF Unsent
<1> HIDE DEF a, k
<1>2. CASE c.requested
  <2>1. q = <<a>> \o <<k>>
    BY <1>1, <1>2
  <2>2. <<a>> \o <<k>> = <<a, k>>
    BY PairJoined
  <2> QED
    BY <1>2, <2>1, <2>2 DEF a, k
<1>3. CASE ~c.requested
  <2>1. q = <<>> \o <<k>>
    BY <1>1, <1>3
  <2>2. <<k>> \in Seq({k})
    OBVIOUS
  <2>3. q = <<k>>
    BY <2>1, <2>2, ConcatEmptySeq
  <2> QED
    BY <1>3, <2>3 DEF a, k
<1> QED
  BY <1>2, <1>3

\* Its messages are numbered in this order.
LEMMA UnsentSays ==
  ASSUME NEW c, c.role = "client", c.requested \in BOOLEAN, NEW q, q = Unsent(c),
         NEW n \in Nat, NEW T, T = Numbered(q, n)
  PROVE  /\ FlightOf("client", q) /\ \A r \in ToSet(q) : r # ChangeCipherSpec /\ r.epoch = 0
         /\ Answer(c, T, n)
<1> DEFINE a == HandshakeRecord(c, "Certificate", [cert |-> c.config.cert])
           k == HandshakeRecord(c, "ClientKeyExchange", [public_key |-> c.keypair])
<1>1. IF c.requested THEN q = <<a, k>> ELSE q = <<k>>
  BY UnsentIs
<1>2. /\ IsMessage("client", a) /\ IsHandshake(a) /\ a.epoch = 0 /\ a # ChangeCipherSpec
      /\ a.msg.typ = "Certificate" /\ a.msg.body = [cert |-> c.config.cert]
  BY RecordIs
<1>3. /\ IsMessage("client", k) /\ IsHandshake(k) /\ k.epoch = 0 /\ k # ChangeCipherSpec
      /\ k.msg.typ = "ClientKeyExchange" /\ k.msg.body = [public_key |-> c.keypair]
  BY RecordIs
<1> HIDE DEF a, k
<1> DEFINE Rise ==
             /\ T \in Seq(ToSet(T)) /\ Len(T) = Len(q)
             /\ \A i \in Shakes(q) :
                  /\ T[i].msg.typ = q[i].msg.typ /\ T[i].msg.body = q[i].msg.body
                  /\ T[i].msg.from = "client"
                  /\ T[i].msg.epoch = IF T[i].msg.typ = "Finished" THEN 1 ELSE 0
                  /\ T[i].msg.seq \in Nat /\ T[i].msg.seq >= n
             /\ Messages(T) = {T[i].msg : i \in Shakes(q)}
             /\ \A i, j \in Shakes(q) : i < j => T[i].msg.seq < T[j].msg.seq
<1>4. ASSUME FlightOf("client", q) PROVE Rise
  <2>1. /\ T \in Seq(ToSet(T)) /\ Len(T) = Len(q)
        /\ \A i \in 1 .. Len(q) :
             IsHandshake(q[i]) =>
                  /\ T[i].msg.typ = q[i].msg.typ /\ T[i].msg.body = q[i].msg.body
                  /\ T[i].msg.from = "client"
                  /\ T[i].msg.epoch = IF T[i].msg.typ = "Finished" THEN 1 ELSE 0
        /\ Messages(T) = {T[i].msg : i \in Shakes(q)}
        /\ \A i, j \in Shakes(q) : i < j => T[i].msg.seq < T[j].msg.seq
        /\ \A i \in Shakes(q) : T[i].msg.seq \in Nat /\ T[i].msg.seq >= n
    BY <1>4, NumbersRise
  <2>2. \A i \in Shakes(q) : i \in 1 .. Len(q) /\ IsHandshake(q[i])
    BY DEF Shakes
  <2> QED
    BY <2>1, <2>2
<1>5. CASE ~c.requested
  <2>1. q = <<k>>
    BY <1>1, <1>5
  <2>2. Len(q) = 1 /\ DOMAIN q = {1} /\ q[1] = k /\ q \in Seq({k})
    BY <2>1
  <2>3. ToSet(q) = {k} /\ Shakes(q) = {1}
    BY <1>3, <2>2 DEF ToSet, Shakes
  <2>4. FlightOf("client", q) /\ \A r \in ToSet(q) : r # ChangeCipherSpec /\ r.epoch = 0
    BY <1>3, <2>2, <2>3 DEF FlightOf
  <2> DEFINE y == T[1].msg
  <2>5. Rise
    BY <1>4, <2>4
  <2>6. /\ y.typ = "ClientKeyExchange" /\ y.body.public_key = c.keypair /\ y.from = "client"
        /\ y.epoch = 0 /\ y.seq \in Nat /\ y.seq >= n /\ Messages(T) = {y}
    BY <1>3, <2>2, <2>3, <2>5
  <2>7. Transcript(T) = <<y>>
    <3>1. DOMAIN T = {1}
      BY <2>2, <2>5
    <3>2. Transcript(T) = [i \in {1} |-> T[i].msg]
      BY <3>1 DEF Transcript
    <3> HIDE DEF Rise
    <3> QED
      BY <3>2
  <2> QED
    BY <1>5, <2>4, <2>6, <2>7 DEF Answer, KeyIn, ClientSays
<1>6. CASE c.requested
  <2>1. q = <<a, k>>
    BY <1>1, <1>6
  <2>2. Len(q) = 2 /\ DOMAIN q = {1, 2} /\ q[1] = a /\ q[2] = k /\ q \in Seq({a, k})
    BY <2>1
  <2>3. ToSet(q) = {a, k} /\ Shakes(q) = {1, 2}
    BY <1>2, <1>3, <2>2 DEF ToSet, Shakes
  <2>4. FlightOf("client", q) /\ \A r \in ToSet(q) : r # ChangeCipherSpec /\ r.epoch = 0
    BY <1>2, <1>3, <2>2, <2>3 DEF FlightOf
  <2> DEFINE x == T[1].msg
             y == T[2].msg
  <2>5. Rise
    BY <1>4, <2>4
  <2>6. /\ y.typ = "ClientKeyExchange" /\ y.body.public_key = c.keypair /\ y.from = "client"
        /\ y.epoch = 0 /\ y.seq \in Nat /\ y.seq >= n /\ Messages(T) = {x, y}
        /\ x.typ = "Certificate" /\ x.body.cert = c.config.cert /\ x.from = "client"
        /\ x.epoch = 0 /\ x.seq \in Nat /\ x.seq >= n /\ x.seq < y.seq
    BY <1>2, <1>3, <2>2, <2>3, <2>5
  <2>7. Transcript(T) = <<x, y>>
    <3>1. DOMAIN T = {1, 2}
      BY <2>2, <2>5
    <3>2. Transcript(T) = [i \in {1, 2} |-> T[i].msg]
      BY <3>1 DEF Transcript
    <3> HIDE DEF Rise
    <3> QED
      BY <3>2
  <2>8. KeyIn(c, y, n) /\ CertIn(c, x, n)
    BY <2>6 DEF KeyIn, CertIn, ClientSays
  <2>9. c.requested /\ x.seq < y.seq /\ Messages(T) = {x, y}
    BY <1>6, <2>6
  <2> HIDE DEF x, y, Rise
  <2> QED
    BY <2>4, <2>7, <2>8, <2>9 DEF Answer
<1> QED
  BY <1>5, <1>6

\* What the client hashes before it has sent it is what both will have said.
LEMMA OnlyMatch ==
  ASSUME NEW B, NEW rule, NEW y, Matching(B, rule) = {y}, y.seq \in Nat
  PROVE  Item(B, rule) = <<y>>
<1>1. Latest(B, rule) = CHOOSE i \in {y} : \A j \in {y} : j.seq <= i.seq
  BY DEF Latest
<1>2. Latest(B, rule) = y
  BY <1>1
<1> QED
  BY <1>2 DEF Item

\* A client that is to give its answer T, and what both have said when it has given it, with
\* the proof and the end of its flight in X.
Answering(P, b, p, T, n) ==
    /\ Two(P, "client", b, p) /\ b.fsm = "preparing" /\ b.flight = 5
    /\ \A m \in Made("client", b) : m.typ = "ClientHello"
    /\ Answer(b, T, n)

ThenSaid(b, p, T, X) == Made("client", b) \cup Messages(T) \cup X \cup Made("server", p)

ProofAndEnd(X) == \A x \in X : x.typ \in {"CertificateVerify", "Finished"} /\ x.from = "client"

\* What the client hashes is what both will have said.
LEMMA ClientPull ==
  ASSUME NEW P, NEW b, NEW p, NEW T, NEW n, Answering(P, b, p, T, n),
         NEW X, ProofAndEnd(X), NEW B, B = ThenSaid(b, p, T, X)
  PROVE  Pull(B, SessionRules) = Pull(b.cache, SessionRules) \o Transcript(T)
<1>0. /\ Two(P, "client", b, p) /\ b.fsm = "preparing" /\ b.flight = 5
      /\ \A m \in Made("client", b) : m.typ = "ClientHello"
      /\ Answer(b, T, n)
      /\ \A x \in X : x.typ \in {"CertificateVerify", "Finished"} /\ x.from = "client"
      /\ B = Made("client", b) \cup Messages(T) \cup X \cup Made("server", p)
  BY DEF Answering, ProofAndEnd, ThenSaid
<1>1. /\ \A x \in Got("client", b) : x \in Made("server", p)
      /\ Messages(b.packets) \subseteq b.cache /\ \A x \in b.cache : x.from \in Sides
      /\ ServerMade(P, p) /\ ClientChose(P, b)
      /\ \A x \in Made("server", p) : x.from = "server"
      /\ \A x \in Made("client", b) : x.from = "client"
  BY <1>0, TwoSides DEF Two, Taken, Own, Typed, Made
<1>2. PICK done \in Got("client", b) : done.typ = "ServerHelloDone"
  BY <1>0, <1>1 DEF ClientChose
<1>3. ASSUME NEW x \in Made("server", p), x.typ # "Finished" PROVE x \in b.cache
  <2>1. x.seq <= done.seq
    BY <1>1, <1>2, <1>3 DEF ServerMade
  <2>2. x \in Got("client", b)
    BY <1>0, <2>1, KnowsEarlier, TwoSides
  <2> QED
    BY <2>2 DEF Got
<1>4. ASSUME NEW x \in b.cache PROVE x \in Made("client", b) \/ x \in Made("server", p)
  <2>1. x \in Got("client", b) \/ x \in Sent("client", b)
    BY <1>1, TwoSides DEF Got, Sent
  <2> QED
    BY <1>1, <2>1 DEF Made
<1>5. \A x \in Made("client", b) : x \in b.cache
  BY <1>1 DEF Made, Sent
<1>6. PICK y : /\ KeyIn(b, y, n)
               /\ \/ ~b.requested /\ Transcript(T) = <<y>> /\ Messages(T) = {y}
                  \/ /\ b.requested
                     /\ \E x : /\ CertIn(b, x, n) /\ x.seq < y.seq
                               /\ Transcript(T) = <<x, y>> /\ Messages(T) = {x, y}
  BY <1>0 DEF Answer
<1>7. y.typ = "ClientKeyExchange" /\ y.from = "client" /\ y.epoch = 0 /\ y.seq \in Nat
  BY <1>6 DEF KeyIn, ClientSays
<1>8. \A x \in Messages(T) : x.typ \in {"Certificate", "ClientKeyExchange"} /\ x.from = "client"
  BY <1>6, <1>7 DEF CertIn, ClientSays
<1>9. /\ SessionRules[1].typ = "ClientHello" /\ SessionRules[2].from = "server"
      /\ SessionRules[3].from = "server" /\ SessionRules[4].from = "server"
      /\ SessionRules[5].from = "server" /\ SessionRules[6].from = "server"
      /\ SessionRules[2].typ # "Finished" /\ SessionRules[3].typ # "Finished"
      /\ SessionRules[4].typ # "Finished" /\ SessionRules[5].typ # "Finished"
      /\ SessionRules[6].typ # "Finished"
  BY DEF SessionRules, Need, Rule
<1>10. /\ SessionRules[7].typ = "Certificate" /\ SessionRules[7].from = "client" /\ SessionRules[7].epoch = 0
       /\ SessionRules[8].typ = "ClientKeyExchange" /\ SessionRules[8].from = "client"
       /\ SessionRules[8].epoch = 0
  BY DEF SessionRules, Need, Rule
<1>11. ASSUME NEW i \in 1 .. 6 PROVE Matching(b.cache, SessionRules[i]) = Matching(B, SessionRules[i])
  <2> DEFINE rule == SessionRules[i]
  <2>1. rule.typ = "ClientHello" \/ (rule.from = "server" /\ rule.typ # "Finished")
    <3>1. i = 1 \/ i = 2 \/ i = 3 \/ i = 4 \/ i = 5 \/ i = 6
      OBVIOUS
    <3> QED
      BY <1>9, <3>1
  <2> HIDE DEF rule
  <2>2. ASSUME NEW x \in B, x.typ = rule.typ, x.from = rule.from PROVE x \in b.cache
    <3>1. CASE x \in Made("client", b)
      BY <1>5, <3>1
    <3>2. CASE x \in Messages(T)
      BY <1>8, <2>1, <2>2, <3>2
    <3>3. CASE x \in X
      BY <1>0, <2>1, <2>2, <3>3
    <3>4. CASE x \in Made("server", p)
      <4>1. x.typ # "Finished"
        BY <2>1, <2>2
      <4> QED
        BY <1>3, <3>4, <4>1
    <3> QED
      BY <1>0, <2>2, <3>1, <3>2, <3>3, <3>4
  <2>3. b.cache \subseteq B
    BY <1>0, <1>4
  <2>4. Matching(b.cache, rule) = Matching(B, rule)
    BY <2>2, <2>3 DEF Matching
  <2> QED
    BY <2>4 DEF rule
<1>12. Matching(b.cache, SessionRules[7]) = {} /\ Matching(b.cache, SessionRules[8]) = {}
  <2>1. \A x \in b.cache : x.from = "client" => x.typ = "ClientHello"
    <3> SUFFICES ASSUME NEW x \in b.cache, x.from = "client" PROVE x.typ = "ClientHello"
      OBVIOUS
    <3>1. x \in Made("client", b)
      BY <1>1, <1>4
    <3> QED
      BY <1>0, <3>1
  <2> QED
    BY <1>10, <2>1 DEF Matching
<1>13. \A x \in B : x.from = "client" /\ x.typ \in {"Certificate", "ClientKeyExchange"} => x \in Messages(T)
  BY <1>0, <1>1
<1>14. Item(B, SessionRules[8]) = <<y>>
  <2>1. y \in Messages(T) /\ \A x \in Messages(T) : x.typ = "ClientKeyExchange" => x = y
    <3>1. \A x : CertIn(b, x, n) => x.typ # "ClientKeyExchange"
      BY DEF CertIn, ClientSays
    <3>2. CASE Messages(T) = {y}
      BY <3>2
    <3>3. CASE \E x : CertIn(b, x, n) /\ Messages(T) = {x, y}
      BY <3>1, <3>3
    <3> QED
      BY <1>6, <3>2, <3>3
  <2>2. y \in B
    BY <1>0, <2>1
  <2>3. Matching(B, SessionRules[8]) = {y}
    BY <1>7, <1>10, <1>13, <2>1, <2>2 DEF Matching
  <2>4. y.seq \in Nat
    BY <1>7
  <2>5. \A rule : Matching(B, rule) = {y} /\ y.seq \in Nat => Item(B, rule) = <<y>>
    <3> SUFFICES ASSUME NEW rule, Matching(B, rule) = {y}, y.seq \in Nat PROVE Item(B, rule) = <<y>>
      OBVIOUS
    <3> QED
      BY OnlyMatch
  <2> QED
    BY <2>3, <2>4, <2>5
<1>15. Item(B, SessionRules[7]) \o <<y>> = Transcript(T)
  <2>1. CASE ~b.requested
    <3>1. Messages(T) = {y} /\ Transcript(T) = <<y>>
      BY <1>6, <2>1
    <3>2. Matching(B, SessionRules[7]) = {}
      BY <1>7, <1>10, <1>13, <3>1 DEF Matching
    <3>3. Item(B, SessionRules[7]) = <<>>
      BY <3>2 DEF Item
    <3>4. <<y>> \in Seq({y})
      OBVIOUS
    <3> QED
      BY <3>1, <3>3, <3>4, ConcatEmptySeq
  <2>2. CASE b.requested
    <3>1. PICK x : /\ CertIn(b, x, n) /\ x.seq < y.seq
                   /\ Transcript(T) = <<x, y>> /\ Messages(T) = {x, y}
      BY <1>6, <2>2
    <3>2. x.typ = "Certificate" /\ x.from = "client" /\ x.epoch = 0 /\ x.seq \in Nat /\ x \in B
      BY <1>0, <3>1 DEF CertIn, ClientSays
    <3>3. Matching(B, SessionRules[7]) = {x}
      BY <1>7, <1>10, <1>13, <3>1, <3>2 DEF Matching
    <3>4. Item(B, SessionRules[7]) = <<x>>
      BY <3>2, <3>3, OnlyMatch
    <3> QED
      BY <3>1, <3>4, PairJoined
  <2> QED
    BY <2>1, <2>2
<1>16. Pull(B, SessionRules) =
         Pull(b.cache, SessionRules) \o (Item(B, SessionRules[7]) \o Item(B, SessionRules[8]))
  BY <1>11, <1>12, PullWithMore
<1> QED
  BY <1>14, <1>15, <1>16

Proofs(c, body) == {<<>>, <<HandshakeRecord(c, "CertificateVerify", body)>>}

LastFlight(c, e, proof, data) == (Unsent(c) \o proof) \o Ending(e, data)

Later(x, n) == x.seq \in Nat /\ x.seq >= n /\ x.typ \in {"CertificateVerify", "Finished"}

\* What the client's last flight q says, T being what it says before it proves anything.
LastSays(c, T, n, q) ==
    /\ FlightOf("client", q) /\ \E r \in ToSet(q) : r.epoch = 1
    /\ Answer(c, T, n)
    /\ \E X : Messages(Numbered(q, n)) = Messages(T) \cup X /\ \A x \in X : Later(x, n)

\* The proof of its certificate and the end stand behind the answer.
LEMMA Flight5Says ==
  ASSUME NEW c, c.role = "client", c.requested \in BOOLEAN, NEW body, NEW proof \in Proofs(c, body),
         NEW e, e.role = "client", NEW data, NEW n \in Nat, NEW T, T = Numbered(Unsent(c), n),
         NEW q, q = LastFlight(c, e, proof, data)
  PROVE  LastSays(c, T, n, q)
<1> DEFINE u == Unsent(c)
           v == u \o proof
           w == Ending(e, data)
<1>1. FlightOf("client", u) /\ Answer(c, T, n)
  BY UnsentSays
<1>2. FlightOf("client", proof) /\ \A r \in ToSet(proof) : IsHandshake(r) => r.msg.typ = "CertificateVerify"
  <2>1. CASE proof = <<>>
    <3>1. ToSet(<<>>) = {}
      BY DEF ToSet
    <3> QED
      BY <2>1, <3>1 DEF FlightOf
  <2>2. CASE proof = <<HandshakeRecord(c, "CertificateVerify", body)>>
    <3>1. FlightOf("client", proof)
      BY <2>2, OneMessage
    <3>2. ToSet(proof) = {HandshakeRecord(c, "CertificateVerify", body)}
      BY <2>2 DEF ToSet
    <3> QED
      BY <3>1, <3>2, RecordIs
  <2> QED
    BY <2>1, <2>2 DEF Proofs
<1>3. /\ FlightOf("client", w) /\ \E r \in ToSet(w) : r.epoch = 1
      /\ \A r \in ToSet(w) : IsHandshake(r) => r.msg.typ = "Finished"
  BY EndingIs
<1>4. v = u \o proof /\ q = v \o w /\ T = Numbered(u, n)
  BY DEF LastFlight
<1> HIDE DEF u, v, w
<1>5. SaysMore("client", u, proof, n, v)
  BY <1>1, <1>2, <1>4, MoreMessages
<1>6. FlightOf("client", v)
  BY <1>5 DEF SaysMore
<1>7. SaysMore("client", v, w, n, q)
  BY <1>3, <1>4, <1>6, MoreMessages
<1>8. PICK X : /\ Messages(Numbered(v, n)) = Messages(T) \cup X
               /\ \A x \in X : x.seq \in Nat /\ x.seq >= n /\ x.typ = "CertificateVerify"
  <2>1. PICK X : /\ Messages(Numbered(v, n)) = Messages(Numbered(u, n)) \cup X
                 /\ \A x \in X : /\ x.seq \in Nat /\ x.seq >= n
                                 /\ \E r \in ToSet(proof) : IsHandshake(r) /\ x.typ = r.msg.typ
    BY <1>5 DEF SaysMore
  <2>2. \A x \in X : x.typ = "CertificateVerify"
    BY <1>2, <2>1
  <2> QED
    BY <1>4, <2>1, <2>2
<1>9. PICK Y : /\ Messages(Numbered(q, n)) = Messages(Numbered(v, n)) \cup Y
               /\ \A x \in Y : x.seq \in Nat /\ x.seq >= n /\ x.typ = "Finished"
  <2>1. PICK Y : /\ Messages(Numbered(q, n)) = Messages(Numbered(v, n)) \cup Y
                 /\ \A x \in Y : /\ x.seq \in Nat /\ x.seq >= n
                                 /\ \E r \in ToSet(w) : IsHandshake(r) /\ x.typ = r.msg.typ
    BY <1>7 DEF SaysMore
  <2>2. \A x \in Y : x.typ = "Finished"
    BY <1>3, <2>1
  <2> QED
    BY <2>1, <2>2
<1>10. Messages(Numbered(q, n)) = Messages(T) \cup (X \cup Y)
  BY <1>8, <1>9
<1>11. \A x \in X \cup Y : Later(x, n)
  BY <1>8, <1>9 DEF Later
<1>12. FlightOf("client", q) /\ \E r \in ToSet(q) : r.epoch = 1
  BY <1>3, <1>7 DEF SaysMore
<1> QED
  BY <1>1, <1>10, <1>11, <1>12 DEF LastSays

\* A client with an answer to what the server has asked.
Answers(P, b, T, n) ==
    /\ Answer(b, T, n) /\ ClientMade(P, b) /\ n \in Nat
    /\ b.config = P["client"] /\ b.keypair = Curve(P)
    /\ b.requested \in BOOLEAN /\ (b.requested <=> Asked(P))
    /\ \A m \in Made("client", b) : m.typ = "ClientHello" /\ m.seq \in Nat /\ m.seq < n

\* The client's answer keeps the order of its messages.
LEMMA Answered ==
  ASSUME NEW P, NEW b, NEW T, NEW n, Answers(P, b, T, n),
         NEW X, \A x \in X : Later(x, n),
         NEW d, HasKeys(d), Made("client", d) = Made("client", b) \cup Messages(T) \cup X
  PROVE  ClientMade(P, d)
<1>0. /\ Answer(b, T, n) /\ ClientMade(P, b) /\ n \in Nat
      /\ b.config = P["client"] /\ b.keypair = Curve(P)
      /\ b.requested \in BOOLEAN /\ (b.requested <=> Asked(P))
      /\ \A m \in Made("client", b) : m.typ = "ClientHello" /\ m.seq \in Nat /\ m.seq < n
  BY DEF Answers
<1>1. PICK y : /\ KeyIn(b, y, n)
               /\ \/ ~b.requested /\ Messages(T) = {y}
                  \/ /\ b.requested
                     /\ \E x : CertIn(b, x, n) /\ x.seq < y.seq /\ Messages(T) = {x, y}
  BY <1>0 DEF Answer
<1>2. y.typ = "ClientKeyExchange" /\ y.body.public_key = Curve(P) /\ y.seq \in Nat /\ y.seq >= n
  BY <1>0, <1>1 DEF KeyIn, ClientSays
<1>3. \A m \in X : m.typ \in {"CertificateVerify", "Finished"}
  BY DEF Later
<1>4. \A m \in Made("client", b) :
        /\ m.typ = "ClientHello" /\ m.seq <= y.seq
        /\ m.body.suites = P["client"].suites /\ m.body.curves = P["client"].curves
        /\ m.body.srtp = P["client"].srtp
        /\ m.body.ems \in BOOLEAN /\ (m.body.ems <=> P["client"].ems # "disable")
  BY <1>0, <1>2 DEF ClientMade
<1>5. CASE ~b.requested
  <2>1. \A m \in Made("client", d) : m \in Made("client", b) \/ m = y \/ m \in X
    BY <1>1, <1>5
  <2>2. \A m \in Made("client", d) :
          m.typ \in {"ClientHello", "Certificate", "ClientKeyExchange"} => m.seq <= y.seq
    BY <1>2, <1>3, <1>4, <2>1
  <2>3. \A m \in Made("client", d) :
          /\ m.typ = "ClientHello" => m \in Made("client", b)
          /\ m.typ # "Certificate"
          /\ m.typ = "ClientKeyExchange" => m = y
    BY <1>2, <1>3, <1>4, <2>1
  <2> QED
    BY <1>0, <1>2, <1>4, <1>5, <2>2, <2>3 DEF ClientMade
<1>6. CASE b.requested
  <2>1. PICK x : CertIn(b, x, n) /\ x.seq < y.seq /\ Messages(T) = {x, y}
    BY <1>1, <1>6
  <2>2. x.typ = "Certificate" /\ x.body.cert = P["client"].cert /\ x.seq \in Nat
    BY <1>0, <2>1 DEF CertIn, ClientSays
  <2>3. \A m \in Made("client", d) : m \in Made("client", b) \/ m = x \/ m = y \/ m \in X
    BY <2>1
  <2>4. \A m \in Made("client", d) :
          m.typ \in {"ClientHello", "Certificate", "ClientKeyExchange"} => m.seq <= y.seq
    BY <1>2, <1>3, <1>4, <2>1, <2>2, <2>3
  <2>5. \A m \in Made("client", d) :
          /\ m.typ = "ClientHello" => m \in Made("client", b)
          /\ m.typ = "Certificate" => m = x
          /\ m.typ = "ClientKeyExchange" => m = y
    BY <1>2, <1>3, <1>4, <2>2, <2>3
  <2>6. x \in Made("client", d) /\ x.seq < y.seq
    BY <2>1
  <2> QED
    BY <1>0, <1>2, <1>4, <1>6, <2>2, <2>4, <2>5, <2>6 DEF ClientMade
<1> QED
  BY <1>0, <1>5, <1>6

\* The client b with the answer T and its last flight q in c, numbered in d; X is what
\* stands behind the answer, p the server.
LastMade(b, p, T, q, c, d, X) ==
    /\ Numberable("client", b, c)
    /\ Answer(b, T, b.send_seq) /\ \A x \in X : Later(x, b.send_seq)
    /\ Messages(Numbered(q, b.send_seq)) = Messages(T) \cup X
    /\ Made("client", d) = Made("client", b) \cup Messages(T) \cup X
    /\ Got("client", d) = Got("client", b) /\ d.fsm = "sending" /\ d.local_epoch = 1
    /\ d.cookie = b.cookie /\ d.master = ClientSecret(b, Transcript(T)) /\ HasKeys(d) /\ Same(b, d, Making)
    /\ Pull(Made("client", d) \cup Made("server", p), SessionRules) =
          Pull(b.cache, SessionRules) \o Transcript(T)

\* What the client has said then is what its answer and its secret are made of.
LEMMA Flight5Made ==
  ASSUME NEW P, NEW K, NEW N, Inv(P, K, N), K["client"].fsm = "preparing", K["client"].flight = 5,
         NEW body, NEW proof \in Proofs(K["client"], body), NEW data,
         NEW T, T = Numbered(Unsent(K["client"]), K["client"].send_seq),
         NEW e, e = [K["client"] EXCEPT !.master = ClientSecret(K["client"], Transcript(T))],
         NEW c, c = Sending(e, LastFlight(K["client"], e, proof, data)).conn,
         NEW d, d = WithNumbers(c)
  PROVE  /\ \E X : LastMade(K["client"], K["server"], T, LastFlight(K["client"], e, proof, data), c, d, X)
         /\ FlightOf("client", LastFlight(K["client"], e, proof, data))
         /\ \A m \in Made("client", K["client"]) :
               m.typ = "ClientHello" /\ m.seq \in Nat /\ m.seq < K["client"].send_seq
<1> DEFINE b == K["client"]
           p == K["server"]
           n == b.send_seq
           q == LastFlight(b, e, proof, data)
           secret == ClientSecret(b, Transcript(T))
           then == Made("client", d) \cup Made("server", p)
<1>1. /\ "client" \in Sides /\ Two(P, "client", b, p) /\ K = [s \in Sides |-> K[s]]
      /\ ~HasKeys(b) /\ ~HasKeys(p) /\ b.local_epoch = 0 /\ b.remote_epoch = 0
      /\ Typed(P, "client", b) /\ IsConn(b) /\ Own("client", b)
  <2>1. K = [s \in Sides |-> K[s]]
    BY DEF Inv
  <2> QED
    BY <2>1, NoKeysYet, TwoSides
<1>2. ClientMade(P, b) /\ ClientChose(P, b)
  BY TwoRecords
<1>3. /\ c = [e EXCEPT !.fsm = "sending", !.packets = q]
      /\ e = [b EXCEPT !.master = secret]
  BY DEF Sending
<1>4. b.fsm = "preparing" /\ b.flight = 5
  OBVIOUS
<1>5. b.role = "client" /\ b.config = P["client"] /\ n \in Nat /\ b.requested \in BOOLEAN
  BY <1>1 DEF Typed
<1>6. /\ proof \in Proofs(b, body) /\ T = Numbered(Unsent(b), n)
      /\ q = LastFlight(b, e, proof, data) /\ n = b.send_seq
  OBVIOUS
<1>7. secret = MasterSecret(b, b.pre_master, Pull(b.cache, SessionRules) \o Transcript(T))
  BY DEF ClientSecret, SessionHash
<1> HIDE DEF b, p, n, q, secret, then
<1>8. e.role = "client" /\ IsConn(e) /\ e.master = secret /\ \A f \in Fields \ {"master"} : e[f] = b[f]
  <2>1. IsConn(e) /\ e.master = secret /\ \A f \in Fields \ {"master"} : e[f] = b[f]
    BY <1>1, <1>3, FieldNames DEF IsConn
  <2> QED
    BY <1>5, <2>1, FieldNames
<1>9. LastSays(b, T, n, q)
  BY <1>5, <1>6, <1>8, Flight5Says
<1>10. PICK X : Messages(Numbered(q, n)) = Messages(T) \cup X /\ \A x \in X : Later(x, n)
  BY <1>9 DEF LastSays
<1>11. /\ IsConn(c) /\ c.fsm = "sending" /\ c.packets = q /\ c.master = secret
       /\ \A f \in Fields \ {"fsm", "packets", "master"} : c[f] = b[f]
  BY <1>3, <1>8, FieldNames DEF IsConn
<1>12. /\ c.local_epoch = b.local_epoch /\ c.remote_epoch = b.remote_epoch
       /\ c.send_seq = n /\ c.cookie = b.cookie
  BY <1>6, <1>11, FieldNames
<1>13. Same(b, c, Making)
  <2>1. {"fsm", "packets", "master"} \subseteq Making
    BY DEF Making
  <2> QED
    BY <1>11, <2>1 DEF Same
<1>14. secret # <<>>
  BY <1>7 DEF MasterSecret
<1>15. Numberable("client", b, c)
  <2>1. HasKeys(c)
    BY <1>11, <1>14 DEF HasKeys
  <2>2. \A m \in Made("client", b) : m.seq < c.send_seq
    BY <1>1, <1>6, <1>12 DEF Own
  <2>3. FlightOf("client", q) /\ \E r \in ToSet(q) : r.epoch = 1
    BY <1>9 DEF LastSays
  <2> QED
    BY <1>5, <1>11, <1>12, <1>13, <2>1, <2>2, <2>3 DEF Numberable
<1>16. /\ Made("client", d) = Made("client", b) \cup Messages(T) \cup X
       /\ Got("client", d) = Got("client", b)
       /\ d.master = secret /\ d.fsm = "sending" /\ Same(b, d, Making) /\ d.local_epoch = 1
       /\ d.cookie = b.cookie /\ Own("client", d)
  <2>1. Prepared("client", b, c, d) /\ Own("client", d)
    BY <1>1, <1>4, <1>15, NumberedSide
  <2>2. Begun(b.local_epoch, c.packets) = 1
    BY <1>9, <1>11 DEF Begun, LastSays
  <2> QED
    BY <1>10, <1>11, <1>12, <2>1, <2>2 DEF Prepared
<1>17. \A m \in Made("client", b) : m.typ = "ClientHello" /\ m.seq \in Nat /\ m.seq < n
  BY <1>1, <1>2, <1>6 DEF ClientMade, Own
<1>18. Answer(b, T, n)
  BY <1>9 DEF LastSays
<1>19. Pull(then, SessionRules) = Pull(b.cache, SessionRules) \o Transcript(T)
  <2>1. then = Made("client", b) \cup Messages(T) \cup X \cup Made("server", p)
    BY <1>16 DEF then
  <2>2. \A x \in X : x.typ \in {"CertificateVerify", "Finished"} /\ x.from = "client"
    BY <1>10, <1>16 DEF Later, Own
  <2>3. \A m \in Made("client", b) : m.typ = "ClientHello"
    BY <1>17
  <2>4. Answering(P, b, p, T, n)
    BY <1>1, <1>4, <1>18, <2>3 DEF Answering
  <2>5. ProofAndEnd(X) /\ then = ThenSaid(b, p, T, X)
    BY <2>1, <2>2 DEF ProofAndEnd, ThenSaid
  <2> QED
    BY <2>4, <2>5, ClientPull
<1>20. HasKeys(d)
  BY <1>14, <1>16 DEF HasKeys
<1>21. LastMade(b, p, T, q, c, d, X)
  BY <1>6, <1>10, <1>15, <1>16, <1>18, <1>19, <1>20 DEF LastMade, secret, then
<1>22. FlightOf("client", q)
  BY <1>9 DEF LastSays
<1> QED
  BY <1>6, <1>17, <1>21, <1>22 DEF b, p, q, n

\* The client answers, and has the secret of what both have said then.
LEMMA MakeFlight5 ==
  ASSUME NEW P, NEW K, NEW N, Inv(P, K, N), K["client"].fsm = "preparing", K["client"].flight = 5,
         NEW body, NEW proof \in Proofs(K["client"], body), NEW data,
         NEW T, T = Numbered(Unsent(K["client"]), K["client"].send_seq),
         NEW e, e = [K["client"] EXCEPT !.master = ClientSecret(K["client"], Transcript(T))],
         NEW c, c = Sending(e, LastFlight(K["client"], e, proof, data)).conn,
         NEW d, d = WithNumbers(c)
  PROVE  Inv(P, [K EXCEPT !["client"] = d], N)
<1> DEFINE b == K["client"]
           p == K["server"]
           n == b.send_seq
           q == LastFlight(b, e, proof, data)
           L == [K EXCEPT !["client"] = d]
           secret == ClientSecret(b, Transcript(T))
<1>1. /\ "client" \in Sides /\ Two(P, "client", b, p) /\ K = [s \in Sides |-> K[s]]
      /\ ~HasKeys(b) /\ ~HasKeys(p) /\ b.local_epoch = 0 /\ b.remote_epoch = 0
      /\ Typed(P, "client", b) /\ IsConn(b) /\ Own("client", b)
  <2>1. K = [s \in Sides |-> K[s]]
    BY DEF Inv
  <2> QED
    BY <2>1, NoKeysYet, TwoSides
<1>2. ClientMade(P, b) /\ ClientChose(P, b)
  BY TwoRecords
<1>3. PICK X : LastMade(b, p, T, q, c, d, X)
  BY Flight5Made
<1>4. \A m \in Made("client", b) : m.typ = "ClientHello" /\ m.seq \in Nat /\ m.seq < n
  BY Flight5Made
<1>5. b.fsm = "preparing" /\ b.flight = 5
  OBVIOUS
<1>6. b.role = "client" /\ b.config = P["client"] /\ n \in Nat /\ b.requested \in BOOLEAN
  BY <1>1 DEF Typed
<1>7. L["client"] = d /\ L["server"] = p
  BY <1>1, TwoSides
<1>8. secret = MasterSecret(b, b.pre_master, Pull(b.cache, SessionRules) \o Transcript(T))
  BY DEF ClientSecret, SessionHash
<1> HIDE DEF b, p, n, q, L, secret
<1>9. /\ Numberable("client", b, c) /\ Answer(b, T, n) /\ \A x \in X : Later(x, n)
      /\ Made("client", d) = Made("client", b) \cup Messages(T) \cup X
      /\ Got("client", d) = Got("client", b) /\ d.fsm = "sending" /\ d.local_epoch = 1
      /\ d.master = secret /\ HasKeys(d) /\ Same(b, d, Making)
      /\ Pull(Made("client", d) \cup Made("server", p), SessionRules) =
            Pull(b.cache, SessionRules) \o Transcript(T)
  BY <1>3 DEF LastMade, n, secret
<1>10. /\ d.flight = 5 /\ d.keypair = b.keypair /\ d.ems = b.ems /\ d.requested = b.requested
       /\ d.suite = b.suite /\ d.srtp = b.srtp /\ d.pre_master = b.pre_master
  BY <1>5, <1>9, MakingKeeps
<1>11. /\ b.suite = Suite(P) /\ b.srtp = Srtp(P) /\ b.keypair = Curve(P) /\ b.pre_master = Curve(P)
       /\ (b.ems <=> Ems(P)) /\ (b.requested <=> Asked(P))
       /\ \E m \in Got("client", b) : m.typ = "ServerHelloDone"
  BY <1>2, <1>5 DEF ClientChose
<1>12. ClientMade(P, d)
  <2>1. Answers(P, b, T, n)
    BY <1>2, <1>4, <1>6, <1>9, <1>11 DEF Answers
  <2>2. HasKeys(d)
    BY <1>9
  <2>3. Made("client", d) = Made("client", b) \cup Messages(T) \cup X /\ \A x \in X : Later(x, n)
    BY <1>9
  <2> QED
    BY <2>1, <2>2, <2>3, Answered
<1>13. ClientChose(P, d)
  <2>1. \E m \in Got("client", d) : m.typ = "ServerHelloDone"
    BY <1>9, <1>11
  <2>2. HasKeys(d) /\ d.fsm = "sending" /\ d.local_epoch = 1
    BY <1>9
  <2> QED
    BY <1>10, <1>11, <2>1, <2>2 DEF ClientChose
<1>14. Pull(Said(L), SessionRules) = Pull(b.cache, SessionRules) \o Transcript(T)
  <2>1. Said(L) = Made("client", d) \cup Made("server", p)
    BY <1>7 DEF Said
  <2> QED
    BY <1>9, <2>1
<1>15. secret = Secret(P, Said(L))
  BY <1>8, <1>11, <1>14 DEF MasterSecret, Secret
<1>16. Keyed(P, L)
  <2>1. \A s \in Sides : HasKeys(L[s]) => s = "client"
    BY <1>1, <1>7, TwoSides
  <2> QED
    BY <1>7, <1>9, <1>15, <2>1 DEF Keyed
<1> QED
  BY <1>1, <1>5, <1>9, <1>12, <1>13, <1>16, MakeStep, TwoSides DEF b, L

--------------------------------------------------------------------------------
(* Preparing: whatever flight it is *)

\* The client as its last flight finds it, with the secret of what it will have said.
Deriving(c) ==
    [c EXCEPT !.master = ClientSecret(c, Transcript(Numbered(Unsent(c), c.send_seq)))]

\* A flight that is made, of the connection b.
MadeFlight(b, c) ==
    \/ b.flight = 0 /\ c = Flight0Generate(b).conn
    \/ b.flight = 1 /\ c = Greeting(b, None)
    \/ b.flight = 2 /\ c = Flight2Generate(b).conn
    \/ b.flight = 3 /\ c = Greeting(b, b.cookie)
    \/ b.flight = 4 /\ c = Sending(b, Flight4Packets(b)).conn
    \/ /\ b.flight = 5
       /\ \E body, data : \E proof \in Proofs(b, body) :
             c = Sending(Deriving(b), LastFlight(b, Deriving(b), proof, data)).conn
    \/ b.flight = 6 /\ \E data : c = Sending(b, Ending(b, data)).conn

\* Why the client's last flight fails.
KeyFails(b) == ~ServerKeyHolds(b, Latest(b.cache, Need("ServerKeyExchange", "server")).body)
ProofFails(b) == Signs(b) /\ SelectScheme(b.config.schemes, b.config.cert) = None

\* The proof that belongs to it.
ProofBody(b) ==
    [scheme |-> SelectScheme(b.config.schemes, b.config.cert),
     signature |-> Sign(b.config.cert, SessionHash(b.cache, Transcript(Numbered(Unsent(b), b.send_seq))))]
ProofOf(b) == IF Signs(b) THEN <<HandshakeRecord(b, "CertificateVerify", ProofBody(b))>> ELSE <<>>

\* The client's last flight fails for one of these reasons, or it has that proof and an end.
LEMMA LastFlightIs ==
  ASSUME NEW b, NEW g, g = Flight5Generate(b)
  PROVE  /\ KeyFails(b) \/ ProofFails(b) => g = Fail(b)
         /\ ~KeyFails(b) /\ ~ProofFails(b) =>
               \E data : g = Sending(Deriving(b), LastFlight(b, Deriving(b), ProofOf(b), data))
         /\ ProofOf(b) \in Proofs(b, ProofBody(b))
<1> DEFINE u == Unsent(b)
           merged == Transcript(Numbered(u, b.send_seq))
           proof == IF Signs(b) THEN <<CertificateVerify(b, merged)>> ELSE <<>>
           e == [b EXCEPT !.master = ClientSecret(b, merged)]
           data == VerifyData(e.master, Pull(b.cache, VerifyRules) \o Transcript(Numbered(u \o proof, b.send_seq)))
<1>1. g = IF KeyFails(b) \/ ProofFails(b) THEN Fail(b)
          ELSE Sending(e, (u \o proof) \o <<ChangeCipherSpec, FinishedRecord(e, data)>>)
  BY DEF Flight5Generate, Unsent, KeyFails, ProofFails
<1>2. CertificateVerify(b, merged) = HandshakeRecord(b, "CertificateVerify", ProofBody(b))
  BY DEF CertificateVerify, ProofBody
<1>3. e = Deriving(b)
  BY DEF Deriving
<1> HIDE DEF merged, e, data
<1>4. proof = ProofOf(b)
  BY <1>2 DEF ProofOf
<1>5. proof \in Proofs(b, ProofBody(b))
  BY <1>4 DEF Proofs, ProofOf
<1> HIDE DEF u, proof
<1>6. (u \o proof) \o <<ChangeCipherSpec, FinishedRecord(e, data)>> = LastFlight(b, e, proof, data)
  BY DEF LastFlight, Ending, u
<1>7. ~KeyFails(b) /\ ~ProofFails(b) => g = Sending(Deriving(b), LastFlight(b, Deriving(b), ProofOf(b), data))
  BY <1>1, <1>3, <1>4, <1>6
<1> QED
  BY <1>1, <1>4, <1>5, <1>7

\* It fails, or it has a proof or none and an end.
LEMMA LastFlightMade ==
  ASSUME NEW b, b.flight = 5, NEW g, g = Flight5Generate(b)
  PROVE  g = Fail(b) \/ (MadeFlight(b, g.conn) /\ \E e, q : g = Sending(e, q) /\ e = Deriving(b))
<1>1. CASE KeyFails(b) \/ ProofFails(b)
  BY <1>1, LastFlightIs
<1>2. CASE ~KeyFails(b) /\ ~ProofFails(b)
  <2>1. PICK data : g = Sending(Deriving(b), LastFlight(b, Deriving(b), ProofOf(b), data))
    BY <1>2, LastFlightIs
  <2>2. ProofOf(b) \in Proofs(b, ProofBody(b))
    BY LastFlightIs
  <2>3. g.conn = Sending(Deriving(b), LastFlight(b, Deriving(b), ProofOf(b), data)).conn
    BY <2>1
  <2>4. \E x, y : \E z \in Proofs(b, x) :
          g.conn = Sending(Deriving(b), LastFlight(b, Deriving(b), z, y)).conn
    BY <2>2, <2>3
  <2> QED
    BY <2>1, <2>4 DEF MadeFlight
<1> QED
  BY <1>1, <1>2

\* generate makes the flight, or it fails, which flights 4 and 5 may.
LEMMA Generates ==
  ASSUME NEW b, IsConn(b), b.flight \in 0 .. 6, NEW g, g = Generate(b)
  PROVE  \/ b.flight \in {4, 5} /\ g = Fail(b)
         \/ /\ g = [conn |-> g.conn, alert |-> FALSE]
            /\ g.conn.fsm = "sending" /\ MadeFlight(b, g.conn)
<1>1. \A e, q : /\ Sending(e, q) = [conn |-> Sending(e, q).conn, alert |-> FALSE]
                /\ IsConn(e) => Sending(e, q).conn.fsm = "sending"
  BY FieldNames DEF Sending, IsConn
<1>2. CASE b.flight = 0
  <2>1. g = Flight0Generate(b)
    BY <1>2 DEF Generate
  <2> DEFINE e == [b EXCEPT !.cookie = "cookie", !.local_epoch = 0, !.remote_epoch = 0, !.curve = "X25519"]
  <2>2. g = Sending(e, <<>>) /\ IsConn(e)
    BY <2>1 DEF Flight0Generate, IsConn
  <2> HIDE DEF e
  <2>3. g = [conn |-> g.conn, alert |-> FALSE] /\ g.conn.fsm = "sending"
    BY <1>1, <2>2
  <2> QED
    BY <1>2, <2>1, <2>3 DEF MadeFlight
<1>3. CASE b.flight = 1
  <2> DEFINE e == [b EXCEPT !.cookie = None]
  <2>1. g = Sending(e, <<ClientHello(e)>>)
    BY <1>3 DEF Generate, Flight1Generate
  <2>2. Greeting(b, None) = Sending(e, <<ClientHello(e)>>).conn
    BY DEF Greeting
  <2>3. IsConn(e)
    BY DEF IsConn
  <2> HIDE DEF e
  <2>4. g = [conn |-> g.conn, alert |-> FALSE] /\ g.conn.fsm = "sending"
    BY <1>1, <2>1, <2>3
  <2> QED
    BY <1>3, <2>1, <2>2, <2>4 DEF MadeFlight
<1>4. CASE b.flight = 2
  <2>1. g = Flight2Generate(b)
    BY <1>4 DEF Generate
  <2> DEFINE e == [b EXCEPT !.send_seq = 0]
             q == <<HandshakeRecord(b, "HelloVerifyRequest", [cookie |-> b.cookie])>>
  <2>2. g = Sending(e, q) /\ IsConn(e)
    BY <2>1 DEF Flight2Generate, IsConn
  <2> HIDE DEF e, q
  <2>3. g = [conn |-> g.conn, alert |-> FALSE] /\ g.conn.fsm = "sending"
    BY <1>1, <2>2
  <2> QED
    BY <1>4, <2>1, <2>3 DEF MadeFlight
<1>5. CASE b.flight = 3
  <2>1. g = Sending(b, <<ClientHello(b)>>)
    BY <1>5 DEF Generate, Flight3Generate
  <2>2. [b EXCEPT !.cookie = b.cookie] = b
    BY FieldNames DEF IsConn
  <2>3. Greeting(b, b.cookie) = Sending(b, <<ClientHello(b)>>).conn
    BY <2>2 DEF Greeting
  <2>4. g = [conn |-> g.conn, alert |-> FALSE] /\ g.conn.fsm = "sending"
    BY <1>1, <2>1
  <2> QED
    BY <1>5, <2>1, <2>3, <2>4 DEF MadeFlight
<1>6. CASE b.flight = 4
  <2>1. g = Fail(b) \/ g = Sending(b, Flight4Packets(b))
    BY <1>6 DEF Generate, Flight4Generate, Flight4Packets
  <2>2. CASE g = Sending(b, Flight4Packets(b))
    <3>1. g = [conn |-> g.conn, alert |-> FALSE] /\ g.conn.fsm = "sending"
      BY <1>1, <2>2
    <3> QED
      BY <1>6, <2>2, <3>1 DEF MadeFlight
  <2> QED
    BY <1>6, <2>1, <2>2
<1>7. CASE b.flight = 5
  <2>1. g = Flight5Generate(b)
    BY <1>7 DEF Generate
  <2>2. g = Fail(b) \/ (MadeFlight(b, g.conn) /\ \E e, q : g = Sending(e, q) /\ e = Deriving(b))
    BY <1>7, <2>1, LastFlightMade
  <2>3. CASE MadeFlight(b, g.conn) /\ \E e, q : g = Sending(e, q) /\ e = Deriving(b)
    <3>1. PICK q : g = Sending(Deriving(b), q)
      BY <2>3
    <3>2. IsConn(Deriving(b))
      BY DEF Deriving, IsConn
    <3>3. g = [conn |-> g.conn, alert |-> FALSE] /\ g.conn.fsm = "sending"
      BY <1>1, <3>1, <3>2
    <3> QED
      BY <2>3, <3>3
  <2> QED
    BY <1>7, <2>2, <2>3
<1>8. CASE b.flight = 6
  <2> DEFINE data == VerifyData(b.master, Pull(b.cache, VerifyRules))
  <2>1. g = Sending(b, Ending(b, data))
    BY <1>8 DEF Generate, Flight6Generate, Ending
  <2> HIDE DEF data
  <2>2. g = [conn |-> g.conn, alert |-> FALSE] /\ g.conn.fsm = "sending"
    BY <1>1, <2>1
  <2>3. \E x : g.conn = Sending(b, Ending(b, x)).conn
    BY <2>1
  <2> QED
    BY <1>8, <2>2, <2>3 DEF MadeFlight
<1> QED
  BY <1>2, <1>3, <1>4, <1>5, <1>6, <1>7, <1>8

\* A flight that is made keeps the invariant, whichever it is.
LEMMA MadeStep ==
  ASSUME NEW P, NEW K, NEW N, Inv(P, K, N), NEW s \in Sides, K[s].fsm = "preparing",
         NEW c, MadeFlight(K[s], c), NEW d, d = WithNumbers(c)
  PROVE  Inv(P, [K EXCEPT ![s] = d], N)
<1> DEFINE b == K[s]
<1>1. b.flight \in IF s = "client" THEN {1, 3, 5} ELSE {0, 2, 4, 6}
  BY DEF Inv, Side, Typed
<1>2. CASE s = "client"
  <2>1. b = K["client"] /\ b.flight \in {1, 3, 5}
    BY <1>1, <1>2
  <2>2. CASE b.flight \in {1, 3}
    <3>1. \E cookie : c = Greeting(b, cookie)
      BY <2>2 DEF MadeFlight
    <3>2. PICK cookie : c = Greeting(K["client"], cookie)
      BY <2>1, <3>1
    <3>3. Inv(P, [K EXCEPT !["client"] = d], N)
      BY <2>1, <2>2, <3>2, MakeHello
    <3> QED
      BY <1>2, <3>3
  <2>3. CASE b.flight = 5
    <3>1. \E body, data : \E proof \in Proofs(b, body) :
            c = Sending(Deriving(b), LastFlight(b, Deriving(b), proof, data)).conn
      BY <2>3 DEF MadeFlight
    <3>2. PICK body, data : \E proof \in Proofs(K["client"], body) :
            c = Sending(Deriving(K["client"]), LastFlight(K["client"], Deriving(K["client"]), proof, data)).conn
      BY <2>1, <3>1
    <3>3. PICK proof \in Proofs(K["client"], body) :
            c = Sending(Deriving(K["client"]), LastFlight(K["client"], Deriving(K["client"]), proof, data)).conn
      BY <3>2
    <3> DEFINE T == Numbered(Unsent(K["client"]), K["client"].send_seq)
               e == Deriving(K["client"])
    <3>4. e = [K["client"] EXCEPT !.master = ClientSecret(K["client"], Transcript(T))]
      BY DEF Deriving
    <3>5. T = Numbered(Unsent(K["client"]), K["client"].send_seq)
      OBVIOUS
    <3> HIDE DEF T, e
    <3>6. c = Sending(e, LastFlight(K["client"], e, proof, data)).conn
      BY <3>3 DEF e
    <3>7. K["client"].fsm = "preparing" /\ K["client"].flight = 5
      BY <2>1, <2>3
    <3>8. Inv(P, [K EXCEPT !["client"] = d], N)
      BY <3>4, <3>5, <3>6, <3>7, MakeFlight5
    <3> QED
      BY <1>2, <3>8
  <2> QED
    BY <2>1, <2>2, <2>3
<1>3. CASE s = "server"
  <2>1. b = K["server"] /\ b.flight \in {0, 2, 4, 6}
    BY <1>1, <1>3
  <2>2. CASE b.flight = 0
    <3>1. c = Flight0Generate(K["server"]).conn
      BY <2>1, <2>2 DEF MadeFlight
    <3>2. Inv(P, [K EXCEPT !["server"] = d], N)
      BY <2>1, <2>2, <3>1, MakeFlight0
    <3> QED
      BY <1>3, <3>2
  <2>3. CASE b.flight = 2
    <3>1. c = Flight2Generate(K["server"]).conn
      BY <2>1, <2>3 DEF MadeFlight
    <3>2. Inv(P, [K EXCEPT !["server"] = d], N)
      BY <2>1, <2>3, <3>1, MakeFlight2
    <3> QED
      BY <1>3, <3>2
  <2>4. CASE b.flight = 4
    <3>1. c = Sending(K["server"], Flight4Packets(K["server"])).conn
      BY <2>1, <2>4 DEF MadeFlight
    <3>2. Inv(P, [K EXCEPT !["server"] = d], N)
      BY <2>1, <2>4, <3>1, MakeFlight4
    <3> QED
      BY <1>3, <3>2
  <2>5. CASE b.flight = 6
    <3>1. \E data : c = Sending(K["server"], Ending(K["server"], data)).conn
      BY <2>1, <2>5 DEF MadeFlight
    <3>2. PICK data : c = Sending(K["server"], Ending(K["server"], data)).conn
      BY <3>1
    <3>3. Inv(P, [K EXCEPT !["server"] = d], N)
      BY <2>1, <2>5, <3>2, MakeFlight6
    <3> QED
      BY <1>3, <3>3
  <2> QED
    BY <2>1, <2>2, <2>3, <2>4, <2>5
<1> QED
  BY <1>2, <1>3, TwoSides

\* A side that cannot make its flight fails, and may tell its peer.
LEMMA FailStep ==
  ASSUME NEW P, NEW K, NEW N, NEW M, Inv(P, K, N), NEW s \in Sides, K[s].fsm = "preparing",
         K[s].flight \in {4, 5}, NEW d, d = Failing(K[s]),
         \A x \in M : x \in N \/ x = AlertDatagram(d)
  PROVE  Inv(P, [K EXCEPT ![s] = d], M)
<1> DEFINE b == K[s]
           p == K[Peer(s)]
           secret == Secret(P, Said(K))
<1>1. Side(P, s, b, p)
  BY DEF Inv
<1>2. Two(P, s, b, p)
  BY <1>1, TwoOfInv
<1>3. b.fsm = "preparing" /\ b.flight \in {4, 5} /\ d = Failing(b)
  OBVIOUS
<1> HIDE DEF b, p, secret
<1>4. Chosen(P, s, b, d)
  BY <1>2, <1>3, FailureChosen
<1>5. Continues(P, s, b, p, d, secret)
  BY <1>1, <1>3, <1>4, ChosenContinues
<1> QED
  BY <1>5, ContinueStep DEF b, p, secret

--------------------------------------------------------------------------------
(* The steps of the handshake *)

\* Preparing a flight.
LEMMA PrepareKeeps ==
  ASSUME IInv, NEW s \in Sides, Prepare(s)
  PROVE  IInv'
<1> DEFINE b == conn[s]
           g == Generate(b)
           c == g.conn
           records == Numbered(c.packets, c.send_seq)
           o == IF c.fsm = "failed" THEN g
                ELSE [g EXCEPT
                        !.conn.packets = records,
                        !.conn.send_seq = @ + Cardinality(Messages(records)),
                        !.conn.local_epoch = IF \E r \in ToSet(records) : r.epoch = 1 THEN 1 ELSE @]
<1>1. Inv(pair, conn, net)
  BY DEF IInv
<1>2. IsConn(b) /\ b.flight \in 0 .. 6
  <2>1. b.flight \in IF s = "client" THEN {1, 3, 5} ELSE {0, 2, 4, 6}
    BY <1>1 DEF Inv, Side, Typed
  <2>2. IsConn(b)
    BY <1>1 DEF Inv, Side, Typed
  <2>3. b.flight \in {1, 3, 5} \/ b.flight \in {0, 2, 4, 6}
    BY <2>1
  <2> HIDE DEF b
  <2> QED
    BY <2>2, <2>3
<1>3. /\ b.fsm = "preparing" /\ pair' = pair
      /\ conn' = [conn EXCEPT ![s] = o.conn]
      /\ net' \in IF o.alert THEN {net, net \cup {AlertDatagram(o.conn)}} ELSE {net}
  BY DEF Prepare, Becomes
<1>4. CASE b.flight \in {4, 5} /\ g = Fail(b)
  <2>1. c = Failing(b) /\ c.fsm = "failed" /\ g.alert = TRUE
    <3>1. g = Fail(b)
      BY <1>4
    <3> HIDE DEF b, g
    <3>2. c = Failing(b) /\ g.alert = TRUE
      BY <3>1 DEF Fail, Failing
    <3>3. Failing(b) = [b EXCEPT !.fsm = "failed", !.reader = "gone"]
      BY DEF Failing, Fail
    <3>4. Failing(b).fsm = "failed"
      BY <1>2, <3>3, FieldNames DEF IsConn
    <3> QED
      BY <3>2, <3>4
  <2>2. o = g /\ o.conn = c
    BY <2>1
  <2> HIDE DEF o, c, g
  <2>3. conn' = [conn EXCEPT ![s] = c] /\ \A x \in net' : x \in net \/ x = AlertDatagram(c)
    BY <1>3, <2>1, <2>2
  <2>4. Inv(pair, [conn EXCEPT ![s] = c], net')
    BY <1>1, <1>3, <1>4, <2>1, <2>3, FailStep
  <2> QED
    BY <1>3, <2>3, <2>4 DEF IInv
<1>5. CASE /\ g = [conn |-> g.conn, alert |-> FALSE]
           /\ g.conn.fsm = "sending" /\ MadeFlight(b, g.conn)
  <2>1. o.conn = WithNumbers(c) /\ o.alert = FALSE
    <3> HIDE DEF g
    <3> QED
      BY <1>5 DEF WithNumbers
  <2>2. MadeFlight(b, c)
    BY <1>5
  <2> HIDE DEF o, c, g
  <2>3. conn' = [conn EXCEPT ![s] = WithNumbers(c)] /\ net' = net
    BY <1>3, <2>1
  <2>4. Inv(pair, [conn EXCEPT ![s] = WithNumbers(c)], net)
    BY <1>1, <1>3, <2>2, MadeStep
  <2> QED
    BY <1>3, <2>3, <2>4 DEF IInv
<1> QED
  <2> HIDE DEF b, g, o, records
  <2>1. g = Generate(b)
    BY DEF g
  <2> QED
    BY <1>2, <1>4, <1>5, <2>1, Generates

\* Sending it.
LEMMA SendsKeep ==
  ASSUME IInv, NEW s \in Sides, NEW lost, Send(s, lost)
  PROVE  IInv'
<1> DEFINE d == AfterSend(conn[s])
<1>1. Inv(pair, conn, net) /\ conn = [x \in Sides |-> conn[x]] /\ IsConn(conn[s])
  BY DEF IInv, Inv, Side, Typed
<1>2. conn[s].fsm = "sending" /\ pair' = pair /\ net' \subseteq net \cup Datagrams(conn[s], pair.size)
  BY DEF Send
<1>3. conn' = [conn EXCEPT ![s] = d]
  <2>1. conn' = [conn EXCEPT ![s].cache = PushAll(@, Messages(conn[s].packets)),
                             ![s].fsm = IF IsLastSendFlight(conn[s]) THEN "finished" ELSE "waiting",
                             ![s].rendezvous = @ /\ ~IsLastSendFlight(conn[s])]
    BY DEF Send
  <2> DEFINE A == PushAll(conn[s].cache, Messages(conn[s].packets))
             last == IsLastSendFlight(conn[s])
  <2>2. conn' = [conn EXCEPT ![s] = [conn[s] EXCEPT !.cache = A,
                                                    !.fsm = IF last THEN "finished" ELSE "waiting",
                                                    !.rendezvous = @ /\ ~last]]
    <3> HIDE DEF A, last
    <3> QED
      BY <1>1, <2>1 DEF A, last
  <2> QED
    BY <2>2 DEF AfterSend
<1>4. Inv(pair, [conn EXCEPT ![s] = d], net')
  BY <1>1, <1>2, SendKeeps
<1> QED
  BY <1>2, <1>3, <1>4 DEF IInv

\* Parsing what has come.
LEMMA RendezvousKeeps ==
  ASSUME IInv, NEW s \in Sides, Rendezvous(s)
  PROVE  IInv'
<1> DEFINE o == Parse([conn[s] EXCEPT !.rendezvous = FALSE])
<1>1. Inv(pair, conn, net)
  BY DEF IInv
<1>2. /\ conn[s].fsm = "waiting" /\ pair' = pair
      /\ conn' = [conn EXCEPT ![s] = o.conn]
      /\ net' \in IF o.alert THEN {net, net \cup {AlertDatagram(o.conn)}} ELSE {net}
  BY DEF Rendezvous, Becomes
<1> HIDE DEF o
<1>3. o.conn = AfterParse(conn[s])
  BY DEF AfterParse, o
<1>4. \A x \in net' : x \in net \/ x = AlertDatagram(o.conn)
  BY <1>2
<1>5. Inv(pair, [conn EXCEPT ![s] = o.conn], net')
  BY <1>1, <1>2, <1>3, <1>4, ParseStep
<1> QED
  BY <1>2, <1>5 DEF IInv

\* Reading a datagram.
LEMMA ReadKeeps ==
  ASSUME IInv, NEW s \in Sides, NEW d \in net, Read(s, d)
  PROVE  IInv'
<1>1. Inv(pair, conn, net)
  BY DEF IInv
<1>2. PICK x \in ReadAll(conn[s], d.records, TRUE) :
        /\ conn' = [conn EXCEPT ![s] =
                      [x.conn EXCEPT
                         !.reader = IF x.alert THEN "gone" ELSE @,
                         !.rendezvous = x.handshake /\ ~x.alert /\ ~Completed(x.conn)]]
        /\ \/ net' = net \ {d}
           \/ x.alert /\ net' = (net \ {d}) \cup {AlertDatagram(x.conn)}
  BY DEF Read
<1>3. d.to = s /\ pair' = pair
  BY DEF Read
<1>4. conn' = [conn EXCEPT ![s] = AfterRead(x)]
  BY <1>2 DEF AfterRead
<1>5. \A y \in net' : y \in net \/ y = AlertDatagram(x.conn)
  BY <1>2
<1>6. Inv(pair, [conn EXCEPT ![s] = AfterRead(x)], net')
  BY <1>1, <1>2, <1>3, <1>5, ReadStep
<1> QED
  BY <1>3, <1>4, <1>6 DEF IInv

\* The end of a wait, by the timer or because the reader has gone.
LEMMA WaitKeeps ==
  ASSUME IInv, NEW s \in Sides, Retransmit(s) \/ ReaderGone(s)
  PROVE  IInv'
<1>1. Inv(pair, conn, net)
  BY DEF IInv
<1>2. PICK fsm \in {"sending", "failed"} :
        /\ conn[s].fsm = "waiting" /\ conn' = [conn EXCEPT ![s].fsm = fsm]
        /\ pair' = pair /\ net' = net
  BY DEF Retransmit, ReaderGone
<1>3. Inv(pair, [conn EXCEPT ![s].fsm = fsm], net)
  BY <1>1, <1>2, WaitEnds
<1> QED
  BY <1>2, <1>3 DEF IInv

\* Whatever is lost, repeated or read in another order, the two sides stay related as
\* IInv says.
LEMMA HandshakeKeeps == IInv /\ [Next]_vars => IInv'
<1> SUFFICES ASSUME IInv, [Next]_vars PROVE IInv'
  OBVIOUS
<1>1. CASE UNCHANGED vars
  BY <1>1 DEF vars, IInv
<1>2. ASSUME NEW s \in Sides, Prepare(s) PROVE IInv'
  BY <1>2, PrepareKeeps
<1>3. ASSUME NEW s \in Sides, NEW lost, Send(s, lost) PROVE IInv'
  BY <1>3, SendsKeep
<1>4. ASSUME NEW s \in Sides, Rendezvous(s) PROVE IInv'
  BY <1>4, RendezvousKeeps
<1>5. ASSUME NEW s \in Sides, Retransmit(s) \/ ReaderGone(s) PROVE IInv'
  BY <1>5, WaitKeeps
<1>6. ASSUME NEW s \in Sides, NEW d \in net, Read(s, d) PROVE IInv'
  BY <1>6, ReadKeeps
<1> QED
  BY <1>1, <1>2, <1>3, <1>4, <1>5, <1>6 DEF Next

\* The invariant the properties of the handshake come from: each side knows the first
\* messages of its peer without a gap, both chose what their two configurations lead to,
\* and a secret is that of what both have said (all of Flight::parse and generate,
\* handle_incoming_packet, HandshakeCache, wait of handshaker.rs).
THEOREM HandshakeInvariant == Spec => []IInv
<1>1. Init => IInv
  BY Beginning
<1>2. IInv /\ [Next]_vars => IInv'
  BY HandshakeKeeps
<1> QED
  BY <1>1, <1>2, PTL DEF Spec

\* What a connection, its cache, its fragments and its datagrams are made of stays so, in
\* every order of messages (State, HandshakeCache::push, FragmentBuffer::pop).
THEOREM HandshakeTypes == Spec => []TypeOK
BY HandshakeInvariant, TypesFollow, PTL

\* Whatever is lost or reordered, two sides that have keys have the same secret and agree
\* on everything negotiated, and a side that has finished exports for SRTP what its peer
\* does (initialize_cipher_suite, Flight4::parse, export_keying_material).
THEOREM SameSecret == Spec => []OneSecret
BY HandshakeInvariant, SecretFollows, PTL

\* The client ends only behind the server, and the server only with the certificate it
\* has asked for, checked or not (Flight5::parse, Flight4::parse).
THEOREM FinishOrder == Spec => []ClientFinishesLast
BY HandshakeInvariant, OrderFollows, PTL

\* A side takes records for encrypted only when it has keys and its peer, with the same
\* keys, has begun to encrypt (handle_incoming_packet, prepare of handshaker.rs).
THEOREM BackedEpoch == Spec => []EpochIsBacked
BY HandshakeInvariant, EpochFollows, PTL

--------------------------------------------------------------------------------
(***************************************************************************)
(* What decides a handshake                                                *)
(*                                                                         *)
(* DecisionInv says what each side has found out, and that no side has a   *)
(* reason to give up while the configurations fit: no alert is on its way, *)
(* none waits in a queue, and every proof and every end shows what was     *)
(* said.  It is kept together with IInv, step by step: reading and sending *)
(* say nothing new, a look at the cache (parse) decides as the two         *)
(* configurations do, and a flight that is made shows what it has to.      *)
(***************************************************************************)

Fit(P) == FitTogether(P["client"], P["server"])

\* The signer announces the scheme its key signs with, and the other side takes it.
Announces(signer, other) ==
    /\ SelectScheme(signer.schemes, signer.cert) = Sign(signer.cert, None).scheme
    /\ SelectScheme(signer.schemes, signer.cert) \in ToSet(other.schemes)

\* What the server has made sure of when it answers a ClientHello, and the client when
\* it goes on to its last flight.
ServerAgreed(P) ==
    /\ P["client"].srtp # <<>> => Srtp(P) # None
    /\ P["server"].ems = "require" => Ems(P)

ServerProven(P) ==
    /\ Announces(P["server"], P["client"])
    /\ P["client"].verify => P["server"].cert.trusted

ServerKey(P) ==
    [curve |-> Curve(P), scheme |-> SelectScheme(P["server"].schemes, P["server"].cert),
     signature |-> Sign(P["server"].cert, Curve(P))]

\* What the client has found out about the server, and what its messages show.
ClientKnows(P, c) ==
    /\ c.cookie \in {None, "cookie"}
    /\ \A m \in Made("client", c) :
          /\ m.typ = "ClientHello" =>
                /\ m.body.cookie \in {None, "cookie"}
                /\ c.flight = 1 => m.body.cookie = None
          /\ m.typ = "Finished" => \A x \in Made("client", c) : x.seq <= m.seq
    /\ c.flight = 5 =>
          /\ c.peer_cert = P["server"].cert
          /\ P["client"].ems = "require" => Ems(P)
          /\ \E m \in Got("client", c) : m.typ = "ServerKeyExchange"
    /\ HasKeys(c) => ServerProven(P)

\* What the server has found out about the client, and what its messages show.
ServerKnows(P, c) ==
    /\ \A m \in Made("server", c) :
          /\ m.typ = "HelloVerifyRequest" => m.body.cookie = "cookie"
          /\ m.typ = "Certificate" => m.body.cert = P["server"].cert
          /\ m.typ = "ServerKeyExchange" => m.body = ServerKey(P)
          /\ m.typ = "ServerHelloDone" =>
                \E x \in Made("server", c) : x.typ = "Certificate" /\ x.seq < m.seq
    /\ c.flight # 0 => ServerAgreed(P)
    /\ c.flight = 6 =>
          /\ ClientCertFits(P["client"], P["server"])
          /\ \E m \in Got("server", c) : m.typ = "Finished"

NoAlert(records) == \A r \in records : r.content # "alert"

\* A side that has no reason to give up.
Calm(c) == c.fsm # "failed" /\ c.reader = "up" /\ NoAlert(ToSet(c.queue))

Knows(P, s, c) ==
    /\ s = "client" => ClientKnows(P, c)
    /\ s = "server" => ServerKnows(P, c)
    /\ NoAlert(ToSet(c.packets))
    /\ c.rendezvous => HeardOne(c)
    /\ Fit(P) => Calm(c)

\* Before the client has heard of a cookie the server has none of it.
FirstThings(K) == K["client"].flight = 1 => K["server"].flight \in {0, 2}

\* What the client has signed and what the server has finished with is all that was said.
ProofsShow(P, said) ==
    /\ \A m \in said : m.from = "client" /\ m.typ = "CertificateVerify" =>
          /\ Asked(P) /\ P["client"].cert # None
          /\ m.body = [scheme |-> SelectScheme(P["client"].schemes, P["client"].cert),
                       signature |-> Sign(P["client"].cert, Pull(said, SessionRules))]
    /\ \A m \in said : m.from = "server" /\ m.typ = "Finished" =>
          m.body.verify_data = VerifyData(Secret(P, said), Pull(said, VerifyRules))

CalmNet(P, N) == Fit(P) => \A d \in N : NoAlert(ToSet(d.records))

JInv(P, K, N) ==
    /\ \A s \in Sides : Knows(P, s, K[s])
    /\ FirstThings(K)
    /\ ProofsShow(P, Said(K))
    /\ CalmNet(P, N)

DecisionInv == JInv(pair, conn, net)

\* A list of a configuration that meets in Pairs is a sequence without None.
IsList(list) == list \in Seq(ToSet(list) \ {None})

\* What the assumptions say of a pair.
LEMMA ListsOfPair ==
  ASSUME NEW P \in Pairs, NEW s \in Sides
  PROVE  /\ IsList(P[s].suites) /\ IsList(P[s].curves) /\ IsList(P[s].srtp) /\ IsList(P[s].schemes)
         /\ None \notin SupportedCurves
         /\ \A key : None \notin SchemesOf(key)
<1>1. \A list \in {P[s].suites, P[s].curves, P[s].srtp, P[s].schemes} : IsList(list)
  BY NoneIsFresh DEF IsList
<1>2. \A key : SchemesOf(key) = SchemesOf("ecdsa") \/ SchemesOf(key) = SchemesOf("ed25519")
  BY DEF SchemesOf
<1>3. None \notin SupportedCurves \cup SchemesOf("ecdsa") \cup SchemesOf("ed25519")
  BY NoneIsFresh
<1> QED
  BY <1>1, <1>2, <1>3

\* Two lists have an element in common exactly when the first common one is found.
LEMMA CommonIs ==
  ASSUME NEW a, IsList(a), NEW b
  PROVE  Common(a, b) <=> FirstCommon(a, ToSet(b)) # None
<1> DEFINE D == ToSet(a) \ {None}
<1>1. a \in Seq(D) /\ \A i \in DOMAIN a : a[i] # None
  BY DEF IsList
<1>2. Common(a, b) <=> \E i \in DOMAIN a : a[i] \in ToSet(b)
  BY <1>1 DEF Common, ToSet
<1> HIDE DEF D
<1>3. \/ /\ \A j \in DOMAIN a : a[j] \notin ToSet(b)
         /\ FirstCommon(a, ToSet(b)) = None
      \/ \E i \in DOMAIN a :
           /\ FirstCommon(a, ToSet(b)) = a[i] /\ a[i] \in ToSet(b)
           /\ \A j \in DOMAIN a : j < i => a[j] \notin ToSet(b)
  BY <1>1, FirstOfOffer
<1> QED
  BY <1>1, <1>2, <1>3

\* A signer fits exactly when the scheme it announces is the right one.
LEMMA SignerIs ==
  ASSUME NEW signer, NEW other, IsList(signer.schemes)
  PROVE  SignerFits(signer, other) <=> Announces(signer, other)
<1> DEFINE list == signer.schemes
           usable == SchemesOf(signer.cert.key)
           own == Sign(signer.cert, None).scheme
           D == ToSet(list) \ {None}
<1>1. list \in Seq(D) /\ (\A i \in DOMAIN list : list[i] # None) /\ DOMAIN list = 1 .. Len(list)
      /\ Len(list) \in Nat
  BY DEF IsList
<1>2. own \in usable
  BY DEF Sign, SchemesOf
<1>4. SelectScheme(list, signer.cert) = FirstCommon(list, usable)
  BY DEF SelectScheme
<1>5. SignerFits(signer, other) <=>
        \E i \in DOMAIN list : /\ \A j \in 1 .. i - 1 : list[j] \notin usable
                               /\ list[i] = own /\ list[i] \in ToSet(other.schemes)
  BY DEF SignerFits
<1>6. Announces(signer, other) <=> FirstCommon(list, usable) = own /\ own \in ToSet(other.schemes)
  BY <1>4 DEF Announces
<1>7. own # None
  <2>1. None \notin SchemesOf("ecdsa") \cup SchemesOf("ed25519")
    BY NoneIsFresh
  <2>2. usable = SchemesOf("ecdsa") \/ usable = SchemesOf("ed25519")
    BY DEF SchemesOf
  <2> QED
    BY <1>2, <2>1, <2>2
<1> HIDE DEF D, own, usable, list
<1>8. \/ /\ \A j \in DOMAIN list : list[j] \notin usable
         /\ FirstCommon(list, usable) = None
      \/ \E i \in DOMAIN list :
           /\ FirstCommon(list, usable) = list[i] /\ list[i] \in usable
           /\ \A j \in DOMAIN list : j < i => list[j] \notin usable
  BY <1>1, FirstOfOffer
<1> QED
  <2>1. CASE \E i \in DOMAIN list :
               /\ FirstCommon(list, usable) = list[i] /\ list[i] \in usable
               /\ \A j \in DOMAIN list : j < i => list[j] \notin usable
    <3>1. PICK i \in DOMAIN list :
            /\ FirstCommon(list, usable) = list[i] /\ list[i] \in usable
            /\ \A j \in DOMAIN list : j < i => list[j] \notin usable
      BY <2>1
    <3>2. i \in Nat /\ \A j \in 1 .. i - 1 : j \in DOMAIN list /\ j < i
      BY <1>1
    <3>3. ASSUME NEW k \in DOMAIN list, \A j \in 1 .. k - 1 : list[j] \notin usable, list[k] = own
          PROVE  k = i
      <4>1. k \in Nat /\ k <= i
        BY <1>1, <1>2, <3>1, <3>3
      <4>2. k < i => list[k] \notin usable
        BY <3>1
      <4> QED
        BY <1>2, <3>2, <3>3, <4>1, <4>2
    <3> QED
      BY <1>5, <1>6, <3>1, <3>2, <3>3
  <2>2. CASE /\ \A j \in DOMAIN list : list[j] \notin usable
             /\ FirstCommon(list, usable) = None
    BY <1>2, <1>5, <1>6, <1>7, <2>2
  <2> QED
    BY <1>8, <2>1, <2>2

\* Two configurations fit exactly when the two sides find out nothing else.
LEMMA FitIs ==
  ASSUME NEW P \in Pairs
  PROVE  Fit(P) <=>
           /\ Suite(P) # None /\ Curve(P) \in SupportedCurves
           /\ ServerAgreed(P) /\ ServerProven(P)
           /\ P["client"].ems = "require" => Ems(P)
           /\ ClientCertFits(P["client"], P["server"])
<1> DEFINE c == P["client"]
           s == P["server"]
<1>1. IsList(c.suites) /\ IsList(c.srtp) /\ IsList(c.curves) /\ IsList(s.schemes)
      /\ None \notin SupportedCurves
  BY ListsOfPair, TwoSides
<1> HIDE DEF c, s
<1>2. Common(c.suites, s.suites) <=> FirstCommon(c.suites, ToSet(s.suites)) # None
  BY <1>1, CommonIs
<1>3. Common(c.srtp, s.srtp) <=> FirstCommon(c.srtp, ToSet(s.srtp)) # None
  BY <1>1, CommonIs
<1>4. SignerFits(s, c) <=> Announces(s, c)
  BY <1>1, SignerIs
<1>5. ToSet(c.curves) \cap SupportedCurves # {} <=> ChooseCurve(c.curves) \in SupportedCurves
  <2>1. (\E i \in DOMAIN c.curves : c.curves[i] \in SupportedCurves)
           <=> ChooseCurve(c.curves) \in SupportedCurves
    BY <1>1, CurveIsKnown DEF IsList
  <2>2. ToSet(c.curves) \cap SupportedCurves # {}
           <=> \E i \in DOMAIN c.curves : c.curves[i] \in SupportedCurves
    BY DEF ToSet
  <2> QED
    BY <2>1, <2>2
<1>6. ("require" \in {c.ems, s.ems} => "disable" \notin {c.ems, s.ems}) <=>
        /\ s.ems = "require" => c.ems # "disable" /\ s.ems # "disable"
        /\ c.ems = "require" => c.ems # "disable" /\ s.ems # "disable"
  OBVIOUS
<1>7. Fit(P) <=>
        /\ Common(c.suites, s.suites)
        /\ ToSet(c.curves) \cap SupportedCurves # {}
        /\ c.srtp # <<>> => Common(c.srtp, s.srtp)
        /\ "require" \in {c.ems, s.ems} => "disable" \notin {c.ems, s.ems}
        /\ SignerFits(s, c)
        /\ c.verify => s.cert.trusted
        /\ ClientCertFits(c, s)
  BY DEF Fit, FitTogether, c, s
<1>8. /\ Suite(P) = FirstCommon(c.suites, ToSet(s.suites)) /\ Curve(P) = ChooseCurve(c.curves)
      /\ Srtp(P) = FirstCommon(c.srtp, ToSet(s.srtp))
      /\ Ems(P) <=> c.ems # "disable" /\ s.ems # "disable"
      /\ ServerAgreed(P) <=> (c.srtp # <<>> => Srtp(P) # None) /\ (s.ems = "require" => Ems(P))
      /\ ServerProven(P) <=> Announces(s, c) /\ (c.verify => s.cert.trusted)
  BY DEF Suite, Curve, Srtp, Ems, ServerAgreed, ServerProven, c, s
<1>9. Fit(P) <=>
        /\ Suite(P) # None /\ Curve(P) \in SupportedCurves
        /\ ServerAgreed(P) /\ ServerProven(P)
        /\ c.ems = "require" => Ems(P)
        /\ ClientCertFits(c, s)
  BY <1>2, <1>3, <1>4, <1>5, <1>6, <1>7, <1>8
<1> QED
  BY <1>9 DEF c, s

\* Who fails has a reason; who finishes has found all that makes the two fit.
LEMMA DecisionFollows == IInv /\ DecisionInv => OnlyConfigsDecide
<1> SUFFICES ASSUME IInv, DecisionInv PROVE OnlyConfigsDecide
  OBVIOUS
<1>1. Inv(pair, conn, net) /\ JInv(pair, conn, net) /\ pair \in Pairs
  BY DEF IInv, DecisionInv, Inv
<1>2. Fits <=> Fit(pair)
  BY DEF Fits, Fit
<1>3. ASSUME NEW s \in Sides, Failed(s) PROVE ~Fits
  BY <1>1, <1>2, <1>3 DEF JInv, Knows, Calm, Failed
<1>4. Finished("server") => Fits
  <2> SUFFICES ASSUME Finished("server") PROVE Fits
    OBVIOUS
  <2>1. ServerChose(pair, conn["server"]) /\ ClientChose(pair, conn["client"])
    BY <1>1, TwoRecords
  <2>2. conn["server"].flight = 6 /\ HasKeys(conn["server"])
    BY <2>1 DEF ServerChose, Finished
  <2>3. HasKeys(conn["client"])
    BY <1>1, <2>2, ClientHasKeys
  <2>4. ClientKnows(pair, conn["client"]) /\ ServerKnows(pair, conn["server"])
    BY <1>1, TwoSides DEF JInv, Knows
  <2>5. conn["client"].flight = 5
    BY <2>1, <2>3 DEF ClientChose
  <2>6. /\ ServerAgreed(pair) /\ ServerProven(pair)
        /\ pair["client"].ems = "require" => Ems(pair)
        /\ ClientCertFits(pair["client"], pair["server"])
    BY <2>2, <2>3, <2>4, <2>5 DEF ClientKnows, ServerKnows
  <2>7. Suite(pair) # None /\ Curve(pair) \in SupportedCurves
    BY <2>1, <2>2 DEF ServerChose
  <2> QED
    BY <1>1, <1>2, <2>6, <2>7, FitIs
<1>5. Finished("client") => Fits
  BY <1>4, OrderFollows DEF ClientFinishesLast
<1>6. \A s \in Sides : Finished(s) => Fits
  BY <1>4, <1>5 DEF Sides
<1> QED
  BY <1>3, <1>6 DEF OnlyConfigsDecide

\* At the beginning nothing has been said.
LEMMA DecisionBegins == Init => DecisionInv
<1> SUFFICES ASSUME Init PROVE JInv(pair, conn, net)
  BY DEF DecisionInv
<1>1. /\ net = {} /\ \A s \in Sides : conn[s] = NewConn(s, pair[s])
  BY DEF Init
<1>2. ASSUME NEW s \in Sides
      PROVE  Knows(pair, s, conn[s]) /\ Made(s, conn[s]) = {}
  <2> DEFINE c == conn[s]
  <2>1. /\ c.flight = (IF s = "client" THEN 1 ELSE 0) /\ c.fsm = "preparing" /\ c.packets = <<>>
        /\ c.queue = <<>> /\ c.cache = {} /\ c.cookie = None
        /\ c.reader = "up" /\ c.rendezvous = FALSE /\ c.master = <<>>
    <3>1. c = NewConn(s, pair[s])
      BY <1>1
    <3> HIDE DEF c
    <3> QED
      BY <3>1 DEF NewConn
  <2> HIDE DEF c
  <2>2. Made(s, c) = {} /\ ToSet(<<>>) = {} /\ ~HasKeys(c)
    BY <2>1, NoMessages DEF Made, Sent, ToSet, HasKeys
  <2>3. Knows(pair, s, c)
    BY <2>1, <2>2 DEF Knows, ClientKnows, ServerKnows, NoAlert, Calm
  <2> QED
    BY <2>2, <2>3 DEF c
<1>3. FirstThings(conn)
  <2>1. conn["server"] = NewConn("server", pair["server"])
    BY <1>1, TwoSides
  <2>2. conn["server"].flight = 0
    BY <2>1 DEF NewConn
  <2> QED
    BY <2>2 DEF FirstThings
<1>4. Said(conn) = {}
  BY <1>2, TwoSides DEF Said
<1>5. ProofsShow(pair, Said(conn))
  BY <1>4 DEF ProofsShow
<1> QED
  BY <1>1, <1>2, <1>3, <1>5 DEF JInv, CalmNet

--------------------------------------------------------------------------------
(* Steps that say nothing new *)

\* What a side knows depends on these fields alone, and on what it has made and got.
LEMMA KnowsOn ==
  ASSUME NEW P, NEW s \in Sides, NEW c, NEW d, Knows(P, s, c),
         d.flight = c.flight, d.cookie = c.cookie, d.peer_cert = c.peer_cert, d.master = c.master,
         Made(s, d) = Made(s, c), Got(s, c) \subseteq Got(s, d)
  PROVE  /\ s = "client" => ClientKnows(P, d)
         /\ s = "server" => ServerKnows(P, d)
<1>1. HasKeys(d) <=> HasKeys(c)
  BY DEF HasKeys
<1>2. s = "client" => ClientKnows(P, d)
  BY <1>1 DEF Knows, ClientKnows
<1>3. s = "server" => ServerKnows(P, d)
  BY DEF Knows, ServerKnows
<1> QED
  BY <1>2, <1>3

\* A step of a side that makes no message.
LEMMA DecisionStep ==
  ASSUME NEW P, NEW K, NEW N, NEW M, Inv(P, K, N), JInv(P, K, N), NEW s \in Sides, NEW d,
         Made(s, d) = Made(s, K[s]), Knows(P, s, d),
         FirstThings([K EXCEPT ![s] = d]), CalmNet(P, M)
  PROVE  JInv(P, [K EXCEPT ![s] = d], M)
<1> DEFINE L == [K EXCEPT ![s] = d]
<1>1. K = [x \in Sides |-> K[x]]
  BY DEF Inv
<1>2. L[s] = d /\ \A x \in Sides : x # s => L[x] = K[x]
  BY <1>1
<1>3. Said(L) = Said(K)
  <2>1. \A x \in Sides : Made(x, L[x]) = Made(x, K[x])
    BY <1>2
  <2> HIDE DEF L
  <2> QED
    BY <2>1, TwoSides DEF Said
<1> HIDE DEF L
<1>4. \A x \in Sides : Knows(P, x, L[x])
  BY <1>2 DEF JInv
<1>5. FirstThings(L)
  BY DEF L
<1>6. JInv(P, L, M)
  BY <1>3, <1>4, <1>5 DEF JInv
<1> QED
  BY <1>6 DEF L

\* One that leaves its flight as it was.
LEMMA SameFirstThings ==
  ASSUME NEW P, NEW K, NEW N, Inv(P, K, N), JInv(P, K, N), NEW s \in Sides, NEW d,
         d.flight = K[s].flight
  PROVE  FirstThings([K EXCEPT ![s] = d])
<1> DEFINE L == [K EXCEPT ![s] = d]
<1>1. K = [x \in Sides |-> K[x]]
  BY DEF Inv
<1>2. \A x \in Sides : L[x].flight = K[x].flight
  BY <1>1
<1> HIDE DEF L
<1>3. FirstThings(L)
  BY <1>2, TwoSides DEF JInv, FirstThings
<1> QED
  BY <1>3 DEF L

\* What a side is after its flight went out.
LEMMA AfterSendIs ==
  ASSUME NEW P, NEW K, NEW N, Inv(P, K, N), NEW s \in Sides, K[s].fsm = "sending",
         NEW d, d = AfterSend(K[s])
  PROVE  /\ d.fsm \in {"finished", "waiting"} /\ (d.rendezvous => K[s].rendezvous)
         /\ d.flight = K[s].flight /\ d.packets = K[s].packets /\ d.cookie = K[s].cookie
         /\ d.peer_cert = K[s].peer_cert /\ d.master = K[s].master
         /\ d.reader = K[s].reader /\ d.fragments = K[s].fragments /\ d.next = K[s].next
         /\ d.queue = K[s].queue
         /\ Made(s, d) = Made(s, K[s]) /\ Got(s, d) = Got(s, K[s])
<1> DEFINE c == K[s]
<1>1. Typed(P, s, c) /\ Own(s, c) /\ IsConn(c)
  BY DEF Inv, Side, Typed
<1>2. PushAll(c.cache, Messages(c.packets)) = c.cache \cup Messages(c.packets)
  BY <1>1, PushesAll
<1>3. c.rendezvous \in BOOLEAN
  BY <1>1 DEF Typed
<1>4. /\ IsConn(d) /\ d.cache = c.cache \cup Messages(c.packets)
      /\ d.fsm = (IF c.flight = 6 THEN "finished" ELSE "waiting")
      /\ d.rendezvous => c.rendezvous
      /\ \A f \in Fields \ {"cache", "fsm", "rendezvous"} : d[f] = c[f]
  BY <1>1, <1>2, <1>3, FieldNames DEF IsConn, IsLastSendFlight, AfterSend
<1>5. /\ d.flight = c.flight /\ d.packets = c.packets
      /\ d.cookie = c.cookie /\ d.peer_cert = c.peer_cert /\ d.master = c.master
      /\ d.reader = c.reader /\ d.fragments = c.fragments /\ d.next = c.next /\ d.queue = c.queue
  <2> HIDE DEF c
  <2> QED
    BY <1>4, FieldNames
<1> HIDE DEF c
<1>6. /\ \A m \in Messages(c.packets) : m.from = s
      /\ Peer(s) # s
  BY <1>1, TwoSides DEF Own, Made
<1>7. Made(s, d) = Made(s, c) /\ Got(s, d) = Got(s, c)
  BY <1>4, <1>5, <1>6 DEF Sent, Made, Got
<1>8. d.fsm \in {"finished", "waiting"}
  BY <1>4
<1> QED
  BY <1>4, <1>5, <1>7, <1>8 DEF c

\* Sending a flight decides nothing.
LEMMA SendDecides ==
  ASSUME NEW P, NEW K, NEW N, NEW M, Inv(P, K, N), JInv(P, K, N), NEW s \in Sides,
         K[s].fsm = "sending", M \subseteq N \cup Datagrams(K[s], P.size), NEW d,
         d = AfterSend(K[s])
  PROVE  JInv(P, [K EXCEPT ![s] = d], M)
<1> DEFINE c == K[s]
<1>1. /\ d.fsm \in {"finished", "waiting"} /\ (d.rendezvous => c.rendezvous)
      /\ d.flight = c.flight /\ d.packets = c.packets /\ d.cookie = c.cookie
      /\ d.peer_cert = c.peer_cert /\ d.master = c.master
      /\ d.reader = c.reader /\ d.fragments = c.fragments /\ d.next = c.next
      /\ d.queue = c.queue
      /\ Made(s, d) = Made(s, c) /\ Got(s, d) = Got(s, c)
  BY AfterSendIs
<1>2. Knows(P, s, c) /\ CalmNet(P, N) /\ Typed(P, s, c) /\ P \in Pairs
  BY DEF JInv, Inv, Side
<1> HIDE DEF c
<1>3. Knows(P, s, d)
  <2>1. (s = "client" => ClientKnows(P, d)) /\ (s = "server" => ServerKnows(P, d))
    BY <1>1, <1>2, KnowsOn
  <2> QED
    BY <1>1, <1>2, <2>1 DEF Knows, Calm, HeardOne
<1>4. CalmNet(P, M)
  <2> SUFFICES ASSUME Fit(P), NEW x \in M PROVE NoAlert(ToSet(x.records))
    BY DEF CalmNet
  <2>1. CASE x \in N
    BY <1>2, <2>1 DEF CalmNet
  <2>2. CASE x \in Datagrams(c, P.size)
    <3>1. P.size \in Nat \ {0} /\ c.packets \in Seq(ToSet(c.packets))
      BY <1>2, PairsAssumption DEF Typed
    <3>2. ToSet(x.records) \subseteq ToSet(c.packets)
      BY <2>2, <3>1, DatagramIsCut
    <3> QED
      BY <1>2, <3>2 DEF Knows, NoAlert
  <2> QED
    BY <2>1, <2>2 DEF c
<1>5. FirstThings([K EXCEPT ![s] = d])
  BY <1>1, SameFirstThings DEF c
<1> QED
  BY <1>1, <1>3, <1>4, <1>5, DecisionStep DEF c

\* The timer fires, or the reader that has gone makes a side give up: it had a reason.
LEMMA WaitDecides ==
  ASSUME NEW P, NEW K, NEW N, Inv(P, K, N), JInv(P, K, N), NEW s \in Sides,
         NEW fsm \in {"sending", "failed"}, fsm = "failed" => K[s].reader = "gone"
  PROVE  JInv(P, [K EXCEPT ![s].fsm = fsm], N)
<1> DEFINE c == K[s]
           d == [c EXCEPT !.fsm = fsm]
<1>1. IsConn(c) /\ Knows(P, s, c)
  BY DEF JInv, Inv, Side, Typed
<1>2. IsConn(d) /\ d.fsm = fsm /\ \A f \in Fields : f # "fsm" => d[f] = c[f]
  BY <1>1, FieldNames DEF IsConn
<1>3. /\ d.rendezvous = c.rendezvous
      /\ d.flight = c.flight /\ d.packets = c.packets /\ d.cookie = c.cookie
      /\ d.peer_cert = c.peer_cert /\ d.master = c.master
      /\ d.reader = c.reader /\ d.fragments = c.fragments /\ d.next = c.next
      /\ d.queue = c.queue /\ d.cache = c.cache
  <2> HIDE DEF c, d
  <2> QED
    BY <1>2, FieldNames
<1>4. [K EXCEPT ![s].fsm = fsm] = [K EXCEPT ![s] = d]
  OBVIOUS
<1> HIDE DEF d
<1>5. Made(s, d) = Made(s, c) /\ Got(s, d) = Got(s, c)
  BY <1>3 DEF Made, Sent, Got
<1>6. Knows(P, s, d)
  <2>1. (s = "client" => ClientKnows(P, d)) /\ (s = "server" => ServerKnows(P, d))
    <3> HIDE DEF c
    <3> QED
      BY <1>1, <1>3, <1>5, KnowsOn
  <2>2. fsm = "failed" => c.reader # "up"
    OBVIOUS
  <2> HIDE DEF c
  <2> QED
    BY <1>1, <1>2, <1>3, <2>1, <2>2 DEF Knows, Calm, HeardOne
<1>7. CalmNet(P, N) /\ FirstThings([K EXCEPT ![s] = d])
  BY <1>3, SameFirstThings DEF JInv
<1> QED
  BY <1>4, <1>5, <1>6, <1>7, DecisionStep

\* Reading: alerts come only from a peer that had a reason, and what makes the handshake
\* look is a message.
LEMMA ReadDecides ==
  ASSUME NEW P, NEW K, NEW N, NEW M, Inv(P, K, N), JInv(P, K, N), NEW s \in Sides,
         NEW d \in N, d.to = s,
         NEW x \in ReadAll(K[s], d.records, TRUE), NEW e, e = AfterRead(x),
         \A y \in M : y \in N \/ x.alert
  PROVE  JInv(P, [K EXCEPT ![s] = e], M)
<1> DEFINE c == K[s]
           p == K[Peer(s)]
           Q == ToSet(c.queue) \cup ToSet(d.records)
           b == x.conn
<1>1. P \in Pairs /\ Side(P, s, c, p) /\ Own(Peer(s), p) /\ Arrives(P, d, K)
  BY TwoSides DEF Inv, Side
<1>2. /\ d.records \in Seq(ToSet(d.records))
      /\ \A r \in ToSet(d.records) : Genuine(r, p.local_epoch, Sent(Peer(s), p))
  BY <1>1 DEF Arrives
<1>3. Knows(P, s, c) /\ CalmNet(P, N)
  BY DEF JInv
<1> HIDE DEF c, p
<1>4. Fit(P) => NoAlert(Q)
  BY <1>3 DEF Knows, Calm, CalmNet, NoAlert
<1>5. ReadOn(s, c, p, Q, c)
  BY <1>1, ReadBegins
<1>6. d.records \in Seq(Q)
  BY <1>2
<1> HIDE DEF Q
<1>7. IsRead(s, c, p, Q, x)
  <2>1. x \in ReadAll(c, d.records, TRUE)
    BY DEF c
  <2>2. TRUE \in BOOLEAN
    OBVIOUS
  <2> QED
    BY <1>1, <1>2, <1>5, <1>6, <2>1, <2>2, ReadAllKeeps
<1>8. /\ x.handshake \in BOOLEAN /\ x.alert \in BOOLEAN /\ ReadOn(s, c, p, Q, b)
      /\ x.handshake => HeardOne(b)
      /\ x.alert => \E r \in Q : r.content = "alert"
  BY <1>7 DEF IsRead
<1> HIDE DEF b
<1>9. /\ Side(P, s, b, p)
      /\ Made(s, b) = Made(s, c) /\ Got(s, c) \subseteq Got(s, b)
  BY <1>1, <1>8, ReadSide
<1>10. /\ IsConn(b) /\ b.flight = c.flight /\ b.fsm = c.fsm /\ b.packets = c.packets
       /\ b.cookie = c.cookie /\ b.peer_cert = c.peer_cert /\ b.master = c.master
       /\ b.reader = c.reader
  BY <1>8, MovingKeeps DEF ReadOn
<1>11. b.reader \in {"up", "gone"}
  BY <1>9 DEF Side, Typed
<1>12. /\ Same(b, e, Flags)
       /\ e.reader = (IF x.alert THEN "gone" ELSE b.reader) /\ e.rendezvous \in BOOLEAN
       /\ e.rendezvous => x.handshake
  <2>1. e = [b EXCEPT !.reader = IF x.alert THEN "gone" ELSE @,
                      !.rendezvous = x.handshake /\ ~x.alert /\ ~Completed(b)]
    BY DEF AfterRead, b
  <2> QED
    BY <1>8, <1>10, <2>1, FieldNames DEF Same, Flags, IsConn
<1>13. e.reader \in {"up", "gone"}
  BY <1>11, <1>12
<1>14. Made(s, e) = Made(s, b) /\ Got(s, e) = Got(s, b)
  BY <1>9, <1>12, <1>13, FlagSide
<1>15. /\ e.flight = b.flight /\ e.fsm = b.fsm /\ e.packets = b.packets
       /\ e.cookie = b.cookie /\ e.peer_cert = b.peer_cert /\ e.master = b.master
       /\ e.fragments = b.fragments /\ e.next = b.next /\ e.queue = b.queue
  <2>1. \A f \in Fields \ {"reader", "rendezvous"} : e[f] = b[f]
    BY <1>12 DEF Same, Flags
  <2> QED
    BY <2>1, FieldNames
<1>16. Fit(P) => ~x.alert
  BY <1>4, <1>8 DEF NoAlert
<1>17. Knows(P, s, e)
  <2>1. (s = "client" => ClientKnows(P, e)) /\ (s = "server" => ServerKnows(P, e))
    BY <1>3, <1>9, <1>10, <1>14, <1>15, KnowsOn
  <2>2. NoAlert(ToSet(e.packets))
    BY <1>3, <1>10, <1>15 DEF Knows
  <2>3. e.rendezvous => HeardOne(e)
    BY <1>8, <1>12, <1>15 DEF HeardOne
  <2>4. Fit(P) => Calm(e)
    <3> SUFFICES ASSUME Fit(P) PROVE Calm(e)
      OBVIOUS
    <3>1. NoAlert(ToSet(e.queue))
      <4>1. e.queue \in Seq(Q)
        BY <1>8, <1>15 DEF ReadOn
      <4>2. ToSet(e.queue) \subseteq Q
        BY <4>1 DEF ToSet
      <4> QED
        BY <1>4, <4>2 DEF NoAlert
    <3>2. e.fsm # "failed" /\ e.reader = "up"
      BY <1>3, <1>10, <1>12, <1>15, <1>16 DEF Knows, Calm
    <3> QED
      BY <3>1, <3>2 DEF Calm
  <2> QED
    BY <2>1, <2>2, <2>3, <2>4 DEF Knows
<1>18. CalmNet(P, M)
  BY <1>3, <1>16 DEF CalmNet
<1>19. FirstThings([K EXCEPT ![s] = e])
  BY <1>10, <1>15, SameFirstThings DEF c
<1> QED
  BY <1>9, <1>14, <1>17, <1>18, <1>19, DecisionStep DEF c

--------------------------------------------------------------------------------
(* Parsing *)

\* What a look at the cache decides: a side goes on with a reason, or gives up with one.
Decides(P, s, c, o) ==
    /\ Knows(P, s, o.conn)
    /\ Made(s, o.conn) = Made(s, c)
    /\ Fit(P) => o.alert = FALSE

\* Where a look may take the flights: the server to flight 4 only once the client has a
\* cookie, and no client back to its first flight.
Proceeds(s, c, p, d) ==
    /\ s = "client" /\ d.flight = 1 => c.flight = 1
    /\ s = "server" /\ p.flight = 1 /\ c.flight \in {0, 2} => d.flight \in {0, 2}

\* The two sides at a look: the side itself, and what is known of the other.
Looking(P, s, c, p) ==
    /\ Two(P, s, c, p) /\ Knows(P, s, c) /\ Knows(P, Peer(s), p)
    /\ c.fsm = "waiting" /\ P \in Pairs /\ IsConn(c)

\* Waiting on decides nothing.
LEMMA KeepDecides ==
  ASSUME NEW P, NEW s \in Sides, NEW c, NEW p, Looking(P, s, c, p), NEW o, o = Keep(c)
  PROVE  Decides(P, s, c, o) /\ Proceeds(s, c, p, o.conn)
<1>1. o.conn = c /\ o.alert = FALSE
  BY DEF Keep
<1> QED
  BY <1>1 DEF Looking, Decides, Proceeds

\* Giving up is right when the configurations do not fit.
LEMMA FailDecides ==
  ASSUME NEW P, NEW s \in Sides, NEW c, NEW p, Looking(P, s, c, p), ~Fit(P), NEW o, o = Fail(c)
  PROVE  Decides(P, s, c, o) /\ Proceeds(s, c, p, o.conn)
<1> DEFINE d == o.conn
<1>1. IsConn(c) /\ Knows(P, s, c)
  BY DEF Looking
<1>2. d = [c EXCEPT !.fsm = "failed", !.reader = "gone"]
  BY DEF Fail
<1>3. /\ d.rendezvous = c.rendezvous
      /\ d.flight = c.flight /\ d.packets = c.packets /\ d.cookie = c.cookie
      /\ d.peer_cert = c.peer_cert /\ d.master = c.master
      /\ d.fragments = c.fragments /\ d.next = c.next
      /\ d.cache = c.cache
  BY <1>1, <1>2, FieldNames DEF IsConn
<1> HIDE DEF d
<1>4. Made(s, d) = Made(s, c) /\ Got(s, d) = Got(s, c)
  BY <1>3 DEF Made, Sent, Got
<1>5. (s = "client" => ClientKnows(P, d)) /\ (s = "server" => ServerKnows(P, d))
  BY <1>1, <1>3, <1>4, KnowsOn
<1>6. Knows(P, s, d)
  BY <1>1, <1>3, <1>5 DEF Knows, HeardOne
<1> QED
  BY <1>3, <1>4, <1>6 DEF Decides, Proceeds, d

\* A rule about the peer, the only one of its type.
RuleOf(s, rules, r) ==
    r \in ToSet(rules) /\ r.from = Peer(s) /\ \A q \in ToSet(rules) : q.typ = r.typ => q = r

\* A message of the peer has this body.
Brings(s, c, p, typ, body) ==
    \E m \in Got(s, c) : m \in Made(Peer(s), p) /\ m.typ = typ /\ body = m.body

\* What is found in the cache is that of a message of the peer.
LEMMA FoundBrings ==
  ASSUME NEW P, NEW s \in Sides, NEW c, NEW p, Two(P, s, c, p), NEW r, r.from = Peer(s),
         NEW m \in Matching(c.cache, r)
  PROVE  Brings(s, c, p, r.typ, m.body)
<1>1. m \in Got(s, c) /\ m \in Made(Peer(s), p) /\ m.typ = r.typ
  BY FoundIsSent
<1> QED
  BY <1>1 DEF Brings

\* A body that was pulled is that of a message of the peer.
LEMMA PulledIs ==
  ASSUME NEW P, NEW s \in Sides, NEW c, NEW p, Two(P, s, c, p), NEW start, NEW rules,
         NEW pull, pull = FullPull(c.cache, start, rules), NEW r, RuleOf(s, rules, r),
         r.typ \in DOMAIN pull.msgs \/ (pull.ok /\ ~r.optional)
  PROVE  r.typ \in DOMAIN pull.msgs /\ Brings(s, c, p, r.typ, pull.msgs[r.typ])
<1>0. r \in ToSet(rules) /\ r.from = Peer(s) /\ \A q \in ToSet(rules) : q.typ = r.typ => q = r
  BY DEF RuleOf
<1>1. Matching(c.cache, r) # {}
  <2>1. CASE r.typ \in DOMAIN pull.msgs
    BY <1>0, <2>1, Pulled
  <2>2. CASE pull.ok /\ ~r.optional
    BY <1>0, <2>2, Pulled
  <2> QED
    BY <2>1, <2>2
<1>2. Bounded(c.cache)
  BY CacheIsBounded
<1>3. /\ r.typ \in DOMAIN FullPull(c.cache, start, rules).msgs
      /\ \E m \in Matching(c.cache, r) : FullPull(c.cache, start, rules).msgs[r.typ] = m.body
  BY <1>0, <1>1, <1>2, Heard
<1>4. PICK m \in Matching(c.cache, r) : FullPull(c.cache, start, rules).msgs[r.typ] = m.body
  BY <1>3
<1>5. r.from = Peer(s)
  BY <1>0
<1>6. Brings(s, c, p, r.typ, m.body)
  BY <1>5, FoundBrings
<1> QED
  BY <1>3, <1>4, <1>6

\* A choice makes no message and takes none.
LEMMA ChoiceMakes ==
  ASSUME NEW s \in Sides, NEW c, NEW d, Same(c, d, ChoiceFields)
  PROVE  Made(s, d) = Made(s, c) /\ Got(s, d) = Got(s, c) /\ (HasKeys(d) <=> HasKeys(c))
BY ChoicesKeep DEF Made, Sent, Got, HasKeys

\* Going on is right when what is known after it is true.
LEMMA GoesOn ==
  ASSUME NEW P, NEW s \in Sides, NEW c, NEW p, Looking(P, s, c, p),
         NEW d, Same(c, d, ChoiceFields), d.rendezvous = c.rendezvous, d.reader = c.reader,
         d.fsm # "failed",
         s = "client" => ClientKnows(P, d), s = "server" => ServerKnows(P, d)
  PROVE  Decides(P, s, c, [conn |-> d, alert |-> FALSE])
<1>1. Knows(P, s, c) /\ Made(s, d) = Made(s, c)
  BY ChoiceMakes DEF Looking
<1>2. d.packets = c.packets /\ d.fragments = c.fragments /\ d.next = c.next /\ d.queue = c.queue
  BY ChoicesKeep
<1>3. Knows(P, s, d)
  BY <1>1, <1>2 DEF Knows, HeardOne, Calm
<1> QED
  BY <1>1, <1>3 DEF Decides

\* The server's first choice: it gives up only when there is nothing to agree on.
LEMMA Flight0Decides ==
  ASSUME NEW P, NEW c, NEW p, Looking(P, "server", c, p), c.flight \in {0, 2},
         NEW o, o = Flight0Parse(c)
  PROVE  Decides(P, "server", c, o) /\ Proceeds("server", c, p, o.conn)
<1> DEFINE pull  == FullPull(c.cache, 0, <<Need("ClientHello", "client")>>)
           hello == pull.msgs["ClientHello"]
           suite == FirstCommon(hello.suites, ToSet(c.config.suites))
           curve == ChooseCurve(hello.curves)
           srtp  == FirstCommon(hello.srtp, ToSet(c.config.srtp))
           ems   == c.ems \/ (hello.ems /\ c.config.ems # "disable")
           bad   == \/ suite = None \/ curve = None \/ curve \notin SupportedCurves
                    \/ hello.srtp # <<>> /\ srtp = None
                    \/ c.config.ems = "require" /\ ~ems
           d == [c EXCEPT !.recv_seq = pull.seq, !.suite = suite, !.curve = curve,
                          !.srtp = srtp, !.ems = ems, !.keypair = IF @ = None THEN curve ELSE @,
                          !.flight = 2, !.fsm = "preparing"]
<1>1. \/ o = Keep(c)
      \/ pull.ok /\ bad /\ o = Fail(c)
      \/ pull.ok /\ ~bad /\ o = [conn |-> d, alert |-> FALSE]
  BY DEF Flight0Parse, Goto
<1>2. /\ Two(P, "server", c, p) /\ IsConn(c) /\ c.config = P["server"] /\ P \in Pairs
      /\ ServerMade(P, c) /\ ServerChose(P, c) /\ c.ems \in BOOLEAN /\ c.fsm = "waiting"
      /\ ServerKnows(P, c)
  BY DEF Looking, Two, Typed, Knows
<1>3. pull.ok =>
        /\ hello.suites = P["client"].suites /\ hello.curves = P["client"].curves
        /\ hello.srtp = P["client"].srtp
        /\ hello.ems \in BOOLEAN /\ (hello.ems <=> P["client"].ems # "disable")
  BY <1>2, HelloHeard
<1> HIDE DEF pull, hello
<1>4. pull.ok => suite = Suite(P) /\ curve = Curve(P) /\ srtp = Srtp(P)
  BY <1>2, <1>3 DEF Suite, Curve, Srtp
<1>5. pull.ok => ems \in BOOLEAN /\ (ems <=> Ems(P))
  BY <1>2, <1>3 DEF Ems, ServerChose
<1>6. pull.ok =>
        (bad <=> \/ Suite(P) = None \/ Curve(P) = None \/ Curve(P) \notin SupportedCurves
                 \/ ~ServerAgreed(P))
  <2> HIDE DEF suite, curve, srtp, ems
  <2> QED
    BY <1>2, <1>3, <1>4, <1>5 DEF ServerAgreed
<1>7. None \notin SupportedCurves
  BY NoneIsFresh
<1> HIDE DEF bad
<1>8. CASE o = Keep(c)
  BY <1>8, KeepDecides, TwoSides
<1>9. CASE pull.ok /\ bad /\ o = Fail(c)
  <2>1. ~Fit(P)
    BY <1>2, <1>6, <1>7, <1>9, FitIs
  <2> QED
    BY <1>9, <2>1, FailDecides, TwoSides
<1>10. CASE pull.ok /\ ~bad /\ o = [conn |-> d, alert |-> FALSE]
  <2> HIDE DEF suite, curve, srtp, ems
  <2>1. /\ IsConn(d) /\ d.flight = 2 /\ d.fsm = "preparing"
        /\ \A f \in Fields \ {"recv_seq", "suite", "curve", "srtp", "ems", "keypair", "flight", "fsm"} : d[f] = c[f]
    BY <1>2, FieldNames DEF IsConn
  <2> HIDE DEF d
  <2>2. Same(c, d, ChoiceFields)
    <3>1. {"recv_seq", "suite", "curve", "srtp", "ems", "keypair", "flight", "fsm"} \subseteq ChoiceFields
      BY DEF ChoiceFields
    <3> QED
      BY <2>1, <3>1 DEF Same
  <2>3. d.reader = c.reader /\ d.rendezvous = c.rendezvous
    BY <2>1, FieldNames
  <2>4. Made("server", d) = Made("server", c) /\ Got("server", d) = Got("server", c)
    BY <2>2, ChoiceMakes, TwoSides
  <2>5. ServerKnows(P, d)
    BY <1>2, <1>6, <1>10, <2>1, <2>4 DEF ServerKnows
  <2>6. Decides(P, "server", c, [conn |-> d, alert |-> FALSE])
    BY <2>1, <2>2, <2>3, <2>5, GoesOn, TwoSides
  <2> QED
    BY <1>10, <2>1, <2>6 DEF Proceeds
<1> QED
  BY <1>1, <1>8, <1>9, <1>10

\* The server takes the cookie it has sent, and no client sends another.
LEMMA Flight2Decides ==
  ASSUME NEW P, NEW c, NEW p, Looking(P, "server", c, p), c.flight = 2,
         NEW o, o = Flight2Parse(c)
  PROVE  Decides(P, "server", c, o) /\ Proceeds("server", c, p, o.conn)
<1> DEFINE rule == Need("ClientHello", "client")
           pull  == FullPull(c.cache, c.recv_seq, <<rule>>)
           hello == pull.msgs["ClientHello"]
           d == [c EXCEPT !.recv_seq = pull.seq]
           e == [c EXCEPT !.recv_seq = pull.seq, !.flight = 4, !.fsm = "preparing"]
<1>1. /\ Two(P, "server", c, p) /\ IsConn(c) /\ c.fsm = "waiting"
      /\ ServerChose(P, c) /\ ServerKnows(P, c) /\ ClientKnows(P, p)
  BY TwoSides DEF Looking, Two, Knows
<1>2. pull.ok => /\ hello.cookie \in {None, "cookie"}
                 /\ p.flight = 1 => hello.cookie = None
  <2> SUFFICES ASSUME pull.ok PROVE /\ hello.cookie \in {None, "cookie"}
                                    /\ p.flight = 1 => hello.cookie = None
    OBVIOUS
  <2>1. rule.from = "client" /\ rule.typ = "ClientHello" /\ ~rule.optional
    BY DEF Need, Rule
  <2> HIDE DEF rule
  <2>2. "server" \in Sides /\ Peer("server") = "client"
    BY TwoSides
  <2>3. RuleOf("server", <<rule>>, rule)
    BY <2>1, <2>2 DEF RuleOf, ToSet
  <2>4. Brings("server", c, p, rule.typ, pull.msgs[rule.typ])
    <3>1. pull = FullPull(c.cache, c.recv_seq, <<rule>>)
      OBVIOUS
    <3> HIDE DEF pull
    <3> QED
      BY <1>1, <2>1, <2>2, <2>3, <3>1, PulledIs
  <2> HIDE DEF pull
  <2>5. PICK m \in Made("client", p) : m.typ = "ClientHello" /\ hello = m.body
    BY <2>1, <2>2, <2>4 DEF Brings
  <2> HIDE DEF hello
  <2> QED
    BY <1>1, <2>5 DEF ClientKnows
<1>3. c.cookie = "cookie"
  BY <1>1 DEF ServerChose
<1>4. \/ o = Flight0Parse(c)
      \/ pull.ok /\ o = [conn |-> d, alert |-> FALSE]
      \/ pull.ok /\ hello.cookie = "cookie" /\ hello.cookie # None
         /\ o = [conn |-> e, alert |-> FALSE]
  <2> HIDE DEF d, e
  <2>1. \/ ~pull.ok /\ o = Flight0Parse(c)
        \/ pull.ok /\ hello.cookie = None /\ o = [conn |-> d, alert |-> FALSE]
        \/ pull.ok /\ hello.cookie # None /\ hello.cookie # c.cookie
        \/ pull.ok /\ hello.cookie # None /\ o = [conn |-> e, alert |-> FALSE]
    <3> HIDE DEF rule
    <3> QED
      BY DEF Flight2Parse, Keep, Goto, d, e, rule
  <2> HIDE DEF pull, hello, rule
  <2> QED
    BY <1>2, <1>3, <2>1
<1> HIDE DEF pull, hello, rule
<1>5. /\ IsConn(d) /\ \A f \in Fields \ {"recv_seq"} : d[f] = c[f]
      /\ IsConn(e) /\ \A f \in Fields \ {"recv_seq", "flight", "fsm"} : e[f] = c[f]
      /\ e.flight = 4 /\ e.fsm = "preparing"
  BY <1>1, FieldNames DEF IsConn
<1> HIDE DEF d, e
<1>6. Same(c, d, ChoiceFields) /\ Same(c, e, ChoiceFields)
  <2>1. {"recv_seq", "flight", "fsm"} \subseteq ChoiceFields
    BY DEF ChoiceFields
  <2> QED
    BY <1>5, <2>1 DEF Same
<1>7. /\ d.flight = c.flight /\ d.fsm = c.fsm /\ d.reader = c.reader /\ d.rendezvous = c.rendezvous
      /\ e.reader = c.reader /\ e.rendezvous = c.rendezvous
  BY <1>5, FieldNames
<1>8. /\ Made("server", d) = Made("server", c) /\ Got("server", d) = Got("server", c)
      /\ Made("server", e) = Made("server", c) /\ Got("server", e) = Got("server", c)
  BY <1>6, ChoiceMakes, TwoSides
<1>9. CASE o = [conn |-> d, alert |-> FALSE]
  <2>1. ServerKnows(P, d)
    BY <1>1, <1>7, <1>8 DEF ServerKnows
  <2>2. Decides(P, "server", c, [conn |-> d, alert |-> FALSE])
    BY <1>1, <1>6, <1>7, <2>1, GoesOn, TwoSides
  <2> QED
    BY <1>7, <1>9, <2>2 DEF Proceeds
<1>10. CASE pull.ok /\ hello.cookie # None /\ o = [conn |-> e, alert |-> FALSE]
  <2>1. ServerKnows(P, e)
    BY <1>1, <1>5, <1>8 DEF ServerKnows
  <2>2. Decides(P, "server", c, [conn |-> e, alert |-> FALSE])
    BY <1>1, <1>5, <1>6, <1>7, <2>1, GoesOn, TwoSides
  <2>3. p.flight # 1
    BY <1>2, <1>10
  <2> QED
    BY <1>10, <2>2, <2>3, TwoSides DEF Proceeds
<1>11. CASE o = Flight0Parse(c)
  BY <1>11, Flight0Decides
<1> QED
  BY <1>4, <1>9, <1>10, <1>11

\* The client hears the whole of flight 4: the certificate and the signed key as well.
LEMMA CertificateHeard ==
  ASSUME NEW P, NEW c, NEW p, Two(P, "client", c, p), ServerKnows(P, p), NEW start, NEW pull,
         pull = FullPull(c.cache, start, ServerRules), pull.ok
  PROVE  /\ "Certificate" \in DOMAIN pull.msgs
         /\ pull.msgs["Certificate"].cert = P["server"].cert
         /\ \E m \in Got("client", c) : m.typ = "ServerKeyExchange"
<1> DEFINE cert == May("Certificate", "server")
           key == Need("ServerKeyExchange", "server")
<1>1. "client" \in Sides /\ Peer("client") = "server"
  BY TwoSides
<1>2. /\ cert \in ToSet(ServerRules) /\ cert.typ = "Certificate" /\ cert.from = "server" /\ cert.epoch = 0
      /\ key \in ToSet(ServerRules) /\ key.typ = "ServerKeyExchange" /\ key.from = "server"
      /\ ~key.optional
  BY RulesOfServer DEF Need, May, Rule
<1> HIDE DEF cert, key
<1>3. RuleOf("client", ServerRules, cert) /\ RuleOf("client", ServerRules, key)
  BY <1>1, <1>2, RulesOfServer DEF RuleOf
<1>4. Brings("client", c, p, "ServerKeyExchange", pull.msgs["ServerKeyExchange"])
  BY <1>1, <1>2, <1>3, PulledIs
<1>5. PICK m \in Got("client", c) : m.typ = "ServerHelloDone"
  BY ServerHeard
<1>6. m \in Made("server", p) /\ Own("server", p)
  BY <1>1, <1>5 DEF Two, Taken, Made
<1>7. PICK x \in Made("server", p) : x.typ = "Certificate" /\ x.seq < m.seq
  BY <1>5, <1>6 DEF ServerKnows
<1>8. x.seq \in Nat /\ m.seq \in Nat /\ x.epoch = 0 /\ x.from = "server"
  BY <1>6, <1>7 DEF Own
<1>9. x \in Got("client", c)
  BY <1>1, <1>5, <1>7, <1>8, KnowsEarlier
<1>10. x \in Matching(c.cache, cert)
  BY <1>2, <1>7, <1>8, <1>9 DEF Matching, Got
<1>11. Bounded(c.cache)
  BY <1>1, CacheIsBounded
<1>12. cert.typ \in DOMAIN pull.msgs
  BY <1>2, <1>10, <1>11, RulesOfServer, Heard
<1>13. Brings("client", c, p, "Certificate", pull.msgs["Certificate"])
  BY <1>1, <1>2, <1>3, <1>12, PulledIs
<1> QED
  BY <1>1, <1>2, <1>4, <1>12, <1>13 DEF Brings, ServerKnows

\* The client starts over with the one cookie there is.
LEMMA CookieDecides ==
  ASSUME NEW P, NEW c, NEW p, Looking(P, "client", c, p), c.flight \in {1, 3}, NEW seq,
         NEW d, d = Cookied(c, "cookie", seq)
  PROVE  /\ Decides(P, "client", c, [conn |-> d, alert |-> FALSE])
         /\ Proceeds("client", c, p, d)
<1>1. IsConn(c) /\ ClientKnows(P, c) /\ ClientChose(P, c)
  BY DEF Looking, Knows, Two
<1>2. /\ IsConn(d) /\ \A f \in Fields \ {"cookie", "recv_seq", "flight", "fsm"} : d[f] = c[f]
      /\ d.flight = 3 /\ d.fsm = "preparing" /\ d.cookie = "cookie"
  BY <1>1, FieldNames DEF IsConn, Cookied
<1>3. Same(c, d, ChoiceFields)
  <2>1. {"cookie", "recv_seq", "flight", "fsm"} \subseteq ChoiceFields
    BY DEF ChoiceFields
  <2> QED
    BY <1>2, <2>1 DEF Same
<1>4. d.reader = c.reader /\ d.rendezvous = c.rendezvous
  BY <1>2, FieldNames
<1>5. Made("client", d) = Made("client", c) /\ Got("client", d) = Got("client", c)
      /\ (HasKeys(d) <=> HasKeys(c))
  BY <1>3, ChoiceMakes, TwoSides
<1>6. ClientKnows(P, d)
  BY <1>1, <1>2, <1>5 DEF ClientKnows
<1>7. Decides(P, "client", c, [conn |-> d, alert |-> FALSE])
  BY <1>2, <1>3, <1>4, <1>6, GoesOn, TwoSides
<1> QED
  BY <1>2, <1>7 DEF Proceeds

\* A HelloVerifyRequest brings the one cookie there is.
LEMMA CookieIs ==
  ASSUME NEW P, NEW c, NEW p, Looking(P, "client", c, p), NEW start, NEW rules,
         May("HelloVerifyRequest", "server") \in ToSet(rules),
         \A q \in ToSet(rules) : q.typ = "HelloVerifyRequest" => q = May("HelloVerifyRequest", "server"),
         NEW pull, pull = FullPull(c.cache, start, rules), "HelloVerifyRequest" \in DOMAIN pull.msgs
  PROVE  pull.msgs["HelloVerifyRequest"].cookie = "cookie"
<1> DEFINE rule == May("HelloVerifyRequest", "server")
<1>1. rule.typ = "HelloVerifyRequest" /\ rule.from = "server"
  BY DEF May, Rule
<1>2. "client" \in Sides /\ Peer("client") = "server" /\ Two(P, "client", c, p) /\ ServerKnows(P, p)
  BY TwoSides DEF Looking, Knows
<1> HIDE DEF rule
<1>3. RuleOf("client", rules, rule)
  BY <1>1, <1>2 DEF RuleOf, rule
<1>4. Brings("client", c, p, "HelloVerifyRequest", pull.msgs["HelloVerifyRequest"])
  BY <1>1, <1>2, <1>3, PulledIs
<1> QED
  BY <1>2, <1>4 DEF Brings, ServerKnows

\* What fits, the client takes from a ServerHello.
LEMMA HelloFits ==
  ASSUME NEW P \in Pairs, NEW c, c.config = P["client"],
         NEW hello, hello.suite = Suite(P), hello.srtp = Srtp(P), hello.ems \in BOOLEAN,
         hello.ems <=> Ems(P)
  PROVE  /\ Fit(P) => ServerHelloFits(c, hello) /\ PreMaster(Curve(P), Curve(P)) # None
         /\ ServerHelloFits(c, hello) => (P["client"].ems = "require" => Ems(P))
<1> DEFINE mine == P["client"]
           theirs == P["server"]
<1>1. IsList(mine.suites) /\ IsList(mine.srtp) /\ None \notin SupportedCurves
  BY ListsOfPair, TwoSides
<1>2. Suite(P) # None => Suite(P) \in ToSet(mine.suites)
  <2>1. mine.suites \in Seq(ToSet(mine.suites) \ {None})
    BY <1>1 DEF IsList
  <2> HIDE DEF mine, theirs
  <2>2. FirstCommon(mine.suites, ToSet(theirs.suites)) # None =>
          \E i \in DOMAIN mine.suites : FirstCommon(mine.suites, ToSet(theirs.suites)) = mine.suites[i]
    BY <2>1, FirstOfOffer
  <2> QED
    BY <2>2 DEF Suite, ToSet, mine, theirs
<1>3. Srtp(P) # None => Srtp(P) \in ToSet(mine.srtp)
  <2>1. mine.srtp \in Seq(ToSet(mine.srtp) \ {None})
    BY <1>1 DEF IsList
  <2> HIDE DEF mine, theirs
  <2>2. FirstCommon(mine.srtp, ToSet(theirs.srtp)) # None =>
          \E i \in DOMAIN mine.srtp : FirstCommon(mine.srtp, ToSet(theirs.srtp)) = mine.srtp[i]
    BY <2>1, FirstOfOffer
  <2> QED
    BY <2>2 DEF Srtp, ToSet, mine, theirs
<1> HIDE DEF mine, theirs
<1>4. c.config = mine /\ mine = P["client"]
  BY DEF mine
<1>5. Fit(P) => /\ Suite(P) # None /\ Curve(P) \in SupportedCurves
                /\ ServerAgreed(P) /\ (mine.ems = "require" => Ems(P))
  BY <1>4, FitIs
<1>6. ServerAgreed(P) => (mine.srtp # <<>> => Srtp(P) # None)
  BY <1>4 DEF ServerAgreed
<1>7. Fit(P) => ServerHelloFits(c, hello)
  BY <1>2, <1>3, <1>4, <1>5, <1>6 DEF ServerHelloFits
<1>8. Fit(P) => PreMaster(Curve(P), Curve(P)) # None
  BY <1>1, <1>5 DEF PreMaster
<1>9. ServerHelloFits(c, hello) => (mine.ems = "require" => Ems(P))
  BY <1>4 DEF ServerHelloFits
<1> QED
  BY <1>4, <1>7, <1>8, <1>9

\* The answer of the server: the client gives up only when it does not suit it.
LEMMA Flight3Decides ==
  ASSUME NEW P, NEW c, NEW p, Looking(P, "client", c, p), c.flight \in {1, 3},
         NEW o, o = Flight3Parse(c)
  PROVE  Decides(P, "client", c, o) /\ Proceeds("client", c, p, o.conn)
<1> DEFINE rules == <<May("HelloVerifyRequest", "server")>>
           again == FullPull(c.cache, c.recv_seq, rules)
           pull  == FullPull(c.cache, c.recv_seq, ServerRules)
           hello == pull.msgs["ServerHello"]
           curve == pull.msgs["ServerKeyExchange"].curve
           bad == ~ServerHelloFits(c, hello) \/ PreMaster(curve, curve) = None
           cert == IF "Certificate" \in DOMAIN pull.msgs THEN pull.msgs["Certificate"].cert ELSE c.peer_cert
           d == [c EXCEPT !.recv_seq = pull.seq, !.suite = hello.suite, !.srtp = hello.srtp,
                          !.ems = c.ems \/ (hello.ems /\ c.config.ems # "disable"),
                          !.peer_cert = cert,
                          !.keypair = curve, !.pre_master = PreMaster(curve, curve),
                          !.requested = @ \/ "CertificateRequest" \in DOMAIN pull.msgs,
                          !.flight = 5, !.fsm = "preparing"]
<1>1. \/ o = Keep(c)
      \/ pull.ok /\ bad /\ o = Fail(c)
      \/ /\ "HelloVerifyRequest" \in DOMAIN again.msgs
         /\ o = [conn |-> Cookied(c, again.msgs["HelloVerifyRequest"].cookie, again.seq), alert |-> FALSE]
      \/ pull.ok /\ ~bad /\ o = [conn |-> d, alert |-> FALSE]
  BY DEF Flight3Parse, Goto, Cookied, ServerRules
<1>2. /\ Two(P, "client", c, p) /\ IsConn(c) /\ c.config = P["client"] /\ P \in Pairs
      /\ ClientChose(P, c) /\ c.fsm = "waiting" /\ ClientKnows(P, c) /\ ServerKnows(P, p)
  BY TwoSides DEF Looking, Two, Typed, Knows
<1>3. "HelloVerifyRequest" \in DOMAIN again.msgs => again.msgs["HelloVerifyRequest"].cookie = "cookie"
  <2> SUFFICES ASSUME "HelloVerifyRequest" \in DOMAIN again.msgs
               PROVE  again.msgs["HelloVerifyRequest"].cookie = "cookie"
    OBVIOUS
  <2>1. /\ May("HelloVerifyRequest", "server") \in ToSet(rules)
        /\ \A q \in ToSet(rules) : q.typ = "HelloVerifyRequest" => q = May("HelloVerifyRequest", "server")
    BY DEF ToSet
  <2>2. again = FullPull(c.cache, c.recv_seq, rules)
    OBVIOUS
  <2> HIDE DEF again, rules
  <2> QED
    BY <2>1, <2>2, CookieIs
<1>4. pull.ok =>
        /\ hello.suite = Suite(P) /\ hello.srtp = Srtp(P)
        /\ hello.ems \in BOOLEAN /\ (hello.ems <=> Ems(P)) /\ curve = Curve(P)
  BY <1>2, ServerHeard
<1>5. pull.ok => cert = P["server"].cert /\ \E m \in Got("client", c) : m.typ = "ServerKeyExchange"
  BY <1>2, CertificateHeard
<1> HIDE DEF pull, hello, curve, cert, again, rules
<1>6. pull.ok => (Fit(P) => ~bad) /\ (~bad => (P["client"].ems = "require" => Ems(P)))
  BY <1>2, <1>4, HelloFits
<1> HIDE DEF bad
<1>7. CASE o = Keep(c)
  BY <1>7, KeepDecides, TwoSides
<1>8. CASE pull.ok /\ bad /\ o = Fail(c)
  BY <1>6, <1>8, FailDecides, TwoSides
<1>9. CASE /\ "HelloVerifyRequest" \in DOMAIN again.msgs
           /\ o = [conn |-> Cookied(c, again.msgs["HelloVerifyRequest"].cookie, again.seq), alert |-> FALSE]
  BY <1>3, <1>9, CookieDecides
<1>10. CASE pull.ok /\ ~bad /\ o = [conn |-> d, alert |-> FALSE]
  <2> DEFINE ems == c.ems \/ (hello.ems /\ c.config.ems # "disable")
             requested == c.requested \/ "CertificateRequest" \in DOMAIN pull.msgs
             pre_master == PreMaster(curve, curve)
  <2>1. d = [c EXCEPT !.recv_seq = pull.seq, !.suite = hello.suite, !.srtp = hello.srtp,
                      !.ems = ems, !.peer_cert = cert, !.keypair = curve,
                      !.pre_master = pre_master, !.requested = requested,
                      !.flight = 5, !.fsm = "preparing"]
    OBVIOUS
  <2> HIDE DEF d, ems, requested, pre_master
  <2>2. /\ IsConn(d) /\ d.flight = 5 /\ d.fsm = "preparing" /\ d.peer_cert = cert
        /\ \A f \in Fields \ {"recv_seq", "suite", "srtp", "ems", "peer_cert", "keypair",
                              "pre_master", "requested", "flight", "fsm"} : d[f] = c[f]
    BY <1>2, <2>1, FieldNames DEF IsConn
  <2>3. Same(c, d, ChoiceFields)
    <3>1. {"recv_seq", "suite", "srtp", "ems", "peer_cert", "keypair",
           "pre_master", "requested", "flight", "fsm"} \subseteq ChoiceFields
      BY DEF ChoiceFields
    <3> QED
      BY <2>2, <3>1 DEF Same
  <2>4. d.reader = c.reader /\ d.rendezvous = c.rendezvous /\ d.cookie = c.cookie
    BY <2>2, FieldNames
  <2>5. Made("client", d) = Made("client", c) /\ Got("client", d) = Got("client", c)
        /\ (HasKeys(d) <=> HasKeys(c))
    BY <2>3, ChoiceMakes, TwoSides
  <2>6. ~HasKeys(c)
    BY <1>2 DEF ClientChose
  <2>7. ClientKnows(P, d)
    BY <1>2, <1>5, <1>6, <1>10, <2>2, <2>4, <2>5, <2>6 DEF ClientKnows
  <2>8. Decides(P, "client", c, [conn |-> d, alert |-> FALSE])
    BY <2>2, <2>3, <2>4, <2>7, GoesOn, TwoSides
  <2> QED
    BY <1>10, <2>2, <2>8 DEF Proceeds
<1> QED
  BY <1>1, <1>7, <1>8, <1>9, <1>10

\* Before the client has a cookie, all that it can have heard is the request for one.
LEMMA RequestHeard ==
  ASSUME NEW P, NEW c, NEW p, Two(P, "client", c, p), HeardOne(c), p.flight \in {0, 2}
  PROVE  Matching(c.cache, May("HelloVerifyRequest", "server")) # {}
<1>1. "client" \in Sides /\ Peer("client") = "server"
  BY TwoSides
<1>2. Taken("client", c, p) /\ ServerMade(P, p) /\ c.next \in Nat
  BY DEF Two, Typed
<1>3. \A m \in Sent("server", p) : m = HelloVerifyRequest
  BY <1>2 DEF ServerMade, Made
<1>4. HelloVerifyRequest.seq = 0 /\ HelloVerifyRequest.typ = "HelloVerifyRequest"
      /\ HelloVerifyRequest.from = "server" /\ HelloVerifyRequest.epoch = 0
  BY DEF HelloVerifyRequest
<1>5. c.fragments = {}
  <2> SUFFICES ASSUME NEW m \in c.fragments PROVE FALSE
    OBVIOUS
  <2>1. m.seq = 0 /\ m.seq > c.next
    BY <1>1, <1>2, <1>3, <1>4 DEF Taken
  <2> QED
    BY <1>2, <2>1
<1>6. 0 < c.next
  BY <1>5 DEF HeardOne
<1>7. PICK m \in Got("client", c) : m.seq = 0
  BY <1>2, <1>6 DEF Taken
<1>8. m = HelloVerifyRequest
  BY <1>1, <1>2, <1>3 DEF Taken
<1>9. m \in c.cache
  BY DEF Got
<1> QED
  BY <1>4, <1>8, <1>9 DEF Matching, May, Rule

\* What answers the first ClientHello: a server is never told off.
LEMMA Flight1Decides ==
  ASSUME NEW P, NEW c, NEW p, Looking(P, "client", c, p), c.flight = 1,
         HeardOne(c), p.flight \in {0, 2}, NEW o, o = Flight1Parse(c)
  PROVE  Decides(P, "client", c, o) /\ Proceeds("client", c, p, o.conn)
<1> DEFINE rule == May("HelloVerifyRequest", "server")
           other == May("ServerHello", "server")
           rules == <<rule, other>>
           pull == FullPull(c.cache, c.recv_seq, rules)
<1>1. \/ o = Keep(c)
      \/ o = Flight3Parse(c)
      \/ "HelloVerifyRequest" \notin DOMAIN pull.msgs
      \/ /\ "HelloVerifyRequest" \in DOMAIN pull.msgs
         /\ o = [conn |-> Cookied(c, pull.msgs["HelloVerifyRequest"].cookie, pull.seq), alert |-> FALSE]
  BY DEF Flight1Parse, Goto, Cookied
<1>2. /\ rule \in ToSet(rules) /\ rule.typ = "HelloVerifyRequest"
      /\ \A q \in ToSet(rules) : q.typ = "HelloVerifyRequest" => q = rule
  <2>1. rule.typ = "HelloVerifyRequest" /\ other.typ = "ServerHello"
    BY DEF May, Rule
  <2>2. ToSet(rules) = {rule, other}
    <3> HIDE DEF rule, other
    <3> QED
      BY DEF ToSet
  <2> HIDE DEF rule, other, rules
  <2> QED
    BY <2>1, <2>2
<1>3. "HelloVerifyRequest" \in DOMAIN pull.msgs
  <2>1. Matching(c.cache, rule) # {} /\ Bounded(c.cache)
    BY RequestHeard, CacheIsBounded, TwoSides DEF Looking
  <2> HIDE DEF rule, rules
  <2> QED
    BY <1>2, <2>1, Heard
<1>4. pull.msgs["HelloVerifyRequest"].cookie = "cookie"
  <2>1. pull = FullPull(c.cache, c.recv_seq, rules)
    OBVIOUS
  <2>2. /\ May("HelloVerifyRequest", "server") \in ToSet(rules)
        /\ \A q \in ToSet(rules) : q.typ = "HelloVerifyRequest" => q = May("HelloVerifyRequest", "server")
    BY <1>2
  <2> HIDE DEF pull, rules, rule
  <2> QED
    BY <1>3, <2>1, <2>2, CookieIs
<1> HIDE DEF pull, rules, rule
<1>5. CASE o = Keep(c)
  BY <1>5, KeepDecides, TwoSides
<1>6. CASE o = Flight3Parse(c)
  BY <1>6, Flight3Decides
<1>7. CASE o = [conn |-> Cookied(c, pull.msgs["HelloVerifyRequest"].cookie, pull.seq), alert |-> FALSE]
  BY <1>4, <1>7, CookieDecides
<1> QED
  BY <1>1, <1>3, <1>5, <1>6, <1>7

--------------------------------------------------------------------------------
(* Parsing the last flights *)

\* Rules that ask for no last message of the server: those of every transcript.
NotServersEnd(rules) ==
    \A i \in DOMAIN rules :
        rules[i].from \in Sides /\ (rules[i].from = "server" => rules[i].typ # "Finished")

\* No transcript has the end of the server in it; the session's has no proof and no end.
LEMMA TranscriptRules ==
  /\ NotServersEnd(VerifyRules) /\ NotServersEnd(SessionRules)
  /\ \A i \in DOMAIN SessionRules : SessionRules[i].typ \notin {"CertificateVerify", "Finished"}
<1> DEFINE last == <<Need("CertificateVerify", "client"), NeedFinished("client")>>
           D == ToSet(SessionRules) \cup ToSet(last)
           Fine(r) == r.from \in Sides /\ (r.from = "server" => r.typ # "Finished")
           Early(r) == r.from \in Sides /\ r.typ \notin {"CertificateVerify", "Finished"}
<1>1. SessionRules \in Seq(D) /\ Len(SessionRules) = 8 /\ DOMAIN SessionRules = 1 .. 8
  BY DEF SessionRules, ToSet
<1>2. last \in Seq(D) /\ Len(last) = 2
  BY DEF ToSet
<1>3. \A i \in 1 .. 8 : Early(SessionRules[i])
  <2>1. \A i \in 1 .. 8 : i = 1 \/ i = 2 \/ i = 3 \/ i = 4 \/ i = 5 \/ i = 6 \/ i = 7 \/ i = 8
    OBVIOUS
  <2>2. /\ Early(SessionRules[1]) /\ Early(SessionRules[2]) /\ Early(SessionRules[3])
        /\ Early(SessionRules[4]) /\ Early(SessionRules[5]) /\ Early(SessionRules[6])
        /\ Early(SessionRules[7]) /\ Early(SessionRules[8])
    BY DEF SessionRules, Need, Rule, Sides
  <2> HIDE DEF Early
  <2> QED
    BY <2>1, <2>2
<1>4. \A i \in 1 .. 2 : Fine(last[i])
  <2>1. Fine(last[1]) /\ Fine(last[2])
    BY DEF Need, NeedFinished, Rule, Sides
  <2>2. \A i \in 1 .. 2 : i = 1 \/ i = 2
    OBVIOUS
  <2> HIDE DEF last, Fine
  <2> QED
    BY <2>1, <2>2
<1>5. VerifyRules = SessionRules \o last
  BY DEF VerifyRules
<1> HIDE DEF last, D
<1>6. /\ VerifyRules \in Seq(D) /\ Len(VerifyRules) = 8 + 2
      /\ \A i \in 1 .. 8 : VerifyRules[i] = SessionRules[i]
      /\ \A i \in 1 .. 2 : VerifyRules[8 + i] = last[i]
  <2> DEFINE a == SessionRules
             t == VerifyRules
  <2>1. a \in Seq(D) /\ last \in Seq(D) /\ t = a \o last
    BY <1>1, <1>2, <1>5
  <2> HIDE DEF a, t
  <2>2. /\ t \in Seq(D) /\ Len(t) = Len(a) + Len(last)
        /\ \A i \in 1 .. Len(a) : t[i] = a[i]
        /\ \A i \in 1 .. Len(last) : t[Len(a) + i] = last[i]
    BY <2>1, Joined
  <2>3. Len(a) = 8 /\ Len(last) = 2
    BY <1>1, <1>2 DEF a
  <2> QED
    BY <2>2, <2>3 DEF a, t
<1>7. \A i \in 1 .. 10 : i \in 1 .. 8 \/ (i - 8 \in 1 .. 2 /\ i = 8 + (i - 8))
  OBVIOUS
<1>8. \A i \in 1 .. 8 : Fine(SessionRules[i])
  BY <1>3
<1> HIDE DEF Fine
<1>9. \A i \in 1 .. 10 : Fine(VerifyRules[i])
  <2> SUFFICES ASSUME NEW i \in 1 .. 10 PROVE Fine(VerifyRules[i])
    OBVIOUS
  <2>1. CASE i \in 1 .. 8
    <3>1. VerifyRules[i] = SessionRules[i]
      BY <1>6, <2>1
    <3> QED
      BY <1>8, <2>1, <3>1
  <2>2. CASE i - 8 \in 1 .. 2 /\ i = 8 + (i - 8)
    <3>1. VerifyRules[i] = last[i - 8]
      BY <1>6, <2>2
    <3> QED
      BY <1>4, <2>2, <3>1
  <2> QED
    BY <1>7, <2>1, <2>2
<1>10. DOMAIN VerifyRules = 1 .. 10
  BY <1>6
<1> QED
  BY <1>1, <1>3, <1>8, <1>9, <1>10 DEF NotServersEnd, Fine

\* A client that has the whole of flight 4 and waits has every transcript in its cache.
LEMMA ClientKnowsAll ==
  ASSUME NEW P, NEW c, NEW p, Two(P, "client", c, p), c.fsm # "sending",
         NEW done \in Got("client", c), done.typ = "ServerHelloDone",
         NEW rules, NotServersEnd(rules)
  PROVE  Pull(c.cache, rules) = Pull(Made("client", c) \cup Made("server", p), rules)
<1> DEFINE S == Made("client", c) \cup Made("server", p)
<1>1. /\ \A x \in Got("client", c) : x \in Made("server", p)
      /\ Messages(c.packets) \subseteq c.cache /\ \A x \in c.cache : x.from \in Sides
      /\ ServerMade(P, p)
      /\ \A x \in Made("client", c) : x.from = "client"
      /\ \A x \in Made("server", p) : x.from = "server"
  BY TwoSides DEF Two, Taken, Own, Typed, Made
<1>2. c.cache \subseteq S
  <2> SUFFICES ASSUME NEW x \in c.cache PROVE x \in S
    OBVIOUS
  <2>1. x \in Got("client", c) \/ x \in Sent("client", c)
    BY <1>1, TwoSides DEF Got, Sent
  <2> QED
    BY <1>1, <2>1 DEF Made
<1>3. \A x \in Made("client", c) : x \in c.cache
  BY <1>1 DEF Made, Sent
<1>4. ASSUME NEW x \in Made("server", p), x.typ # "Finished" PROVE x \in c.cache
  <2>1. x.seq <= done.seq
    BY <1>1, <1>4 DEF ServerMade
  <2>2. x \in Got("client", c)
    BY <2>1, KnowsEarlier, TwoSides
  <2> QED
    BY <2>2 DEF Got
<1>5. ASSUME NEW i \in DOMAIN rules PROVE Matching(c.cache, rules[i]) = Matching(S, rules[i])
  <2> DEFINE rule == rules[i]
  <2>1. rule.from = "server" => rule.typ # "Finished"
    BY DEF NotServersEnd
  <2> HIDE DEF rule
  <2>2. ASSUME NEW x \in S, x.typ = rule.typ, x.from = rule.from PROVE x \in c.cache
    BY <1>1, <1>3, <1>4, <2>1, <2>2
  <2> HIDE DEF S
  <2>3. Matching(c.cache, rule) = Matching(S, rule)
    BY <1>2, <2>2 DEF Matching
  <2> QED
    BY <2>3 DEF rule
<1> HIDE DEF S
<1>6. Pull(c.cache, rules) = Pull(S, rules)
  BY <1>5, PullOfSame
<1> QED
  BY <1>6 DEF S

\* The end of the client's wait: what the server has finished with is what was said.
LEMMA Flight5Decides ==
  ASSUME NEW P, NEW c, NEW p, Looking(P, "client", c, p), c.flight = 5,
         NEW said, said = Made("client", c) \cup Made("server", p),
         HasKeys(c) => c.master = Secret(P, said), ProofsShow(P, said),
         NEW o, o = Flight5Parse(c)
  PROVE  Decides(P, "client", c, o) /\ Proceeds("client", c, p, o.conn)
<1> DEFINE rule == NeedFinished("server")
           pull == FullPull(c.cache, c.recv_seq, <<rule>>)
           shown == pull.msgs["Finished"].verify_data
           d == [c EXCEPT !.fsm = "finished"]
<1>1. \/ o = Keep(c)
      \/ pull.ok /\ shown # VerifyData(c.master, Pull(c.cache, VerifyRules)) /\ o = Fail(c)
      \/ o = [conn |-> d, alert |-> FALSE]
  BY DEF Flight5Parse, Finish
<1>2. /\ Two(P, "client", c, p) /\ IsConn(c) /\ ClientChose(P, c) /\ c.fsm = "waiting"
      /\ ClientKnows(P, c) /\ Own("server", p)
  BY TwoSides DEF Looking, Two, Knows
<1>3. HasKeys(c) /\ c.fsm # "sending"
  BY <1>2 DEF ClientChose
<1>4. pull.ok => shown = VerifyData(c.master, Pull(c.cache, VerifyRules))
  <2> SUFFICES ASSUME pull.ok PROVE shown = VerifyData(c.master, Pull(c.cache, VerifyRules))
    OBVIOUS
  <2>1. rule.from = "server" /\ rule.typ = "Finished" /\ ~rule.optional
    BY DEF NeedFinished, Rule
  <2> HIDE DEF rule
  <2>2. "client" \in Sides /\ Peer("client") = "server"
    BY TwoSides
  <2>3. RuleOf("client", <<rule>>, rule)
    BY <2>1, <2>2 DEF RuleOf, ToSet
  <2>4. Brings("client", c, p, rule.typ, pull.msgs[rule.typ])
    <3>1. pull = FullPull(c.cache, c.recv_seq, <<rule>>)
      OBVIOUS
    <3> HIDE DEF pull
    <3> QED
      BY <1>2, <2>1, <2>2, <2>3, <3>1, PulledIs
  <2> HIDE DEF pull
  <2>5. PICK m \in Made("server", p) : m.typ = "Finished" /\ shown = m.body.verify_data
    BY <2>1, <2>2, <2>4 DEF Brings
  <2>6. m \in said /\ m.from = "server"
    BY <1>2, <2>5 DEF Own
  <2>7. shown = VerifyData(Secret(P, said), Pull(said, VerifyRules))
    BY <2>5, <2>6 DEF ProofsShow
  <2>8. PICK done \in Got("client", c) : done.typ = "ServerHelloDone"
    BY <1>2 DEF ClientChose
  <2>9. Pull(c.cache, VerifyRules) = Pull(said, VerifyRules)
    BY <1>2, <1>3, <2>8, ClientKnowsAll, TranscriptRules
  <2> QED
    BY <1>3, <2>7, <2>9
<1> HIDE DEF pull, shown
<1>5. CASE o = Keep(c)
  BY <1>5, KeepDecides, TwoSides
<1>6. CASE o = [conn |-> d, alert |-> FALSE]
  <2>1. IsConn(d) /\ d.fsm = "finished" /\ \A f \in Fields \ {"fsm"} : d[f] = c[f]
    BY <1>2, FieldNames DEF IsConn
  <2> HIDE DEF d
  <2>2. /\ d.flight = c.flight /\ d.reader = c.reader /\ d.rendezvous = c.rendezvous
        /\ d.cookie = c.cookie /\ d.peer_cert = c.peer_cert /\ d.master = c.master
    BY <2>1, FieldNames
  <2>3. Same(c, d, ChoiceFields)
    <3>1. {"fsm"} \subseteq ChoiceFields
      BY DEF ChoiceFields
    <3> QED
      BY <2>1, <3>1 DEF Same
  <2>4. Made("client", d) = Made("client", c) /\ Got("client", d) = Got("client", c)
    BY <2>3, ChoiceMakes, TwoSides
  <2>5. ClientKnows(P, d)
    BY <2>2, <2>4, KnowsOn, TwoSides DEF Looking
  <2>6. Decides(P, "client", c, [conn |-> d, alert |-> FALSE])
    BY <2>1, <2>2, <2>3, <2>5, GoesOn, TwoSides
  <2> QED
    BY <1>6, <2>2, <2>6, TwoSides DEF Proceeds
<1> QED
  BY <1>1, <1>4, <1>5, <1>6

\* Deriving keys changes the keys.
LEMMA KeysMove ==
  ASSUME NEW c, IsConn(c), NEW key, NEW d, d = ServerKeys(c, key)
  PROVE  IsConn(d) /\ \A f \in Fields \ {"master"} : d[f] = c[f]
<1>1. CASE HasKeys(c)
  BY <1>1 DEF ServerKeys
<1>2. CASE ~HasKeys(c)
  <2> DEFINE master == MasterSecret(c, PreMaster(c.keypair, key), SessionHash(c.cache, <<>>))
  <2>1. d = [c EXCEPT !.master = master]
    BY <1>2 DEF ServerKeys
  <2> HIDE DEF master
  <2> QED
    BY <2>1, FieldNames DEF IsConn
<1> QED
  BY <1>1, <1>2

\* Reading what waited for the keys: a queue without alerts leaves the reader as it was.
LEMMA QueueMoves ==
  ASSUME NEW P, NEW s \in Sides, NEW c, NEW p, Two(P, s, c, p), NEW d, d = HandleQueuedPackets(c)
  PROVE  /\ IsConn(d) /\ \A f \in Fields \ (Moving \cup {"reader"}) : d[f] = c[f]
         /\ NoAlert(ToSet(c.queue)) => d.reader = c.reader /\ NoAlert(ToSet(d.queue))
<1> DEFINE Q == ToSet(c.queue)
           first == [c EXCEPT !.queue = <<>>]
           R == ReadAll(first, c.queue, FALSE)
           x == CHOOSE y \in R : TRUE
           b == x.conn
<1>1. Side(P, s, c, p) /\ Own(Peer(s), p) /\ c.queue \in Seq(Q)
      /\ \A r \in ToSet(c.queue) : Genuine(r, p.local_epoch, Sent(Peer(s), p))
  BY DEF Two, Typed, Taken
<1>2. ReadOn(s, c, p, Q, first)
  BY <1>1, ReadBegins
<1> HIDE DEF first, Q
<1>3. R # {} /\ \A y \in R : IsRead(s, c, p, Q, y)
  <2>1. FALSE \in BOOLEAN
    OBVIOUS
  <2> QED
    BY <1>1, <1>2, <2>1, ReadAllKeeps
<1> HIDE DEF R
<1>4. IsRead(s, c, p, Q, x)
  BY <1>3
<1>5. d = [x.conn EXCEPT !.reader = IF x.alert THEN "gone" ELSE @]
  BY DEF HandleQueuedPackets, x, R, first
<1> HIDE DEF x
<1>6. ReadOn(s, c, p, Q, b) /\ (x.alert => \E r \in Q : r.content = "alert") /\ x.alert \in BOOLEAN
  BY <1>4 DEF IsRead
<1>7. d = [b EXCEPT !.reader = IF x.alert THEN "gone" ELSE @]
  BY <1>5
<1> HIDE DEF b
<1>8. IsConn(b) /\ \A f \in Fields \ Moving : b[f] = c[f]
  BY <1>6 DEF ReadOn, Same
<1>9. /\ IsConn(d) /\ \A f \in Fields \ {"reader"} : d[f] = b[f]
      /\ ~x.alert => d.reader = b.reader
  BY <1>6, <1>7, <1>8, FieldNames DEF IsConn
<1>10. b.reader = c.reader /\ d.queue = b.queue
  BY <1>8, <1>9, FieldNames DEF Moving
<1>11. ToSet(d.queue) \subseteq Q
  <2>1. b.queue \in Seq(Q)
    BY <1>6 DEF ReadOn
  <2> QED
    BY <1>10, <2>1 DEF ToSet
<1>12. NoAlert(Q) => d.reader = c.reader /\ NoAlert(ToSet(d.queue))
  BY <1>6, <1>9, <1>10, <1>11 DEF NoAlert
<1> QED
  BY <1>8, <1>9, <1>12 DEF Q

\* What the server makes of the client's proof: it holds when the client is one that fits.
LEMMA ProofIs ==
  ASSUME NEW P, NEW c, NEW p, Looking(P, "server", c, p), c.flight = 4,
         NEW said, said = Made("client", p) \cup Made("server", c), ProofsShow(P, said),
         NEW start, NEW pull, pull = FullPull(c.cache, start, ClientRules), pull.ok,
         "CertificateVerify" \in DOMAIN pull.msgs
  PROVE  /\ Asked(P) /\ P["client"].cert # None
         /\ ClientProofHolds(c, P["client"].cert, pull.msgs["CertificateVerify"])
              <=> /\ SignerFits(P["client"], P["server"])
                  /\ P["server"].auth >= VerifyClientCertIfGiven => P["client"].cert.trusted
<1> DEFINE proof == pull.msgs["CertificateVerify"]
           rule == May("CertificateVerify", "client")
           mine == P["server"]
           theirs == P["client"]
<1>1. "server" \in Sides /\ Peer("server") = "client" /\ Two(P, "server", c, p) /\ c.fsm = "waiting"
      /\ c.config = mine /\ P \in Pairs /\ Own("client", p)
  BY TwoSides DEF Looking, Two, Typed
<1>2. rule.typ = "CertificateVerify" /\ rule.from = "client" /\ rule \in ToSet(ClientRules)
  BY RulesOfClient DEF May, Rule
<1> HIDE DEF rule
<1>3. RuleOf("server", ClientRules, rule)
  BY <1>1, <1>2, RulesOfClient DEF RuleOf
<1>4. Brings("server", c, p, "CertificateVerify", proof)
  BY <1>1, <1>2, <1>3, PulledIs
<1>5. \E m \in Got("server", c) : m.typ = "ClientKeyExchange"
  BY <1>1, ClientHeard
<1> HIDE DEF proof
<1>6. PICK m \in Made("client", p) : m.typ = "CertificateVerify" /\ proof = m.body
  BY <1>1, <1>4 DEF Brings
<1>7. m \in said /\ m.from = "client"
  BY <1>1, <1>6 DEF Own
<1>8. /\ Asked(P) /\ theirs.cert # None
      /\ proof = [scheme |-> SelectScheme(theirs.schemes, theirs.cert),
                  signature |-> Sign(theirs.cert, Pull(said, SessionRules))]
  BY <1>6, <1>7 DEF ProofsShow
<1>9. Pull(c.cache, SessionRules) = Pull(said, SessionRules)
  BY <1>1, <1>5, SessionKnown
<1>10. IsList(theirs.schemes)
  BY <1>1, ListsOfPair, TwoSides
<1> DEFINE cert == theirs.cert
           own == Sign(cert, None).scheme
           scheme == SelectScheme(theirs.schemes, cert)
           text == Pull(said, SessionRules)
<1>11. /\ proof.scheme = scheme /\ proof.signature = [by |-> cert, scheme |-> own, message |-> text]
  BY <1>8 DEF Sign
<1>12. SignerFits(theirs, mine) <=> scheme = own /\ scheme \in ToSet(mine.schemes)
  BY <1>10, SignerIs DEF Announces
<1>13. ClientProofHolds(c, cert, proof) <=>
         /\ scheme \in ToSet(mine.schemes)
         /\ [by |-> cert, scheme |-> own, message |-> text] = [by |-> cert, scheme |-> scheme, message |-> text]
         /\ mine.auth >= VerifyClientCertIfGiven => cert.trusted
  <2>1. cert # None
    BY <1>8
  <2> HIDE DEF cert, own, scheme, text, mine, theirs
  <2> QED
    BY <1>1, <1>9, <1>11, <2>1 DEF ClientProofHolds, SignatureHolds, text
<1>14. [by |-> cert, scheme |-> own, message |-> text] = [by |-> cert, scheme |-> scheme, message |-> text]
         <=> scheme = own
  <2> HIDE DEF cert, own, scheme, text
  <2> QED
    OBVIOUS
<1> HIDE DEF own, scheme, text
<1>15. ClientProofHolds(c, cert, proof) <=>
         /\ SignerFits(theirs, mine) /\ (mine.auth >= VerifyClientCertIfGiven => cert.trusted)
  BY <1>12, <1>13, <1>14
<1> QED
  BY <1>8, <1>15 DEF proof

\* A server accepts in the end exactly the client that fits.
LEMMA AcceptedIs ==
  ASSUME NEW P, NEW cert, cert = (IF Asked(P) THEN P["client"].cert ELSE None),
         NEW proven \in BOOLEAN,
         proven => /\ Asked(P) /\ P["client"].cert # None
                   /\ SignerFits(P["client"], P["server"])
                   /\ P["server"].auth >= VerifyClientCertIfGiven => P["client"].cert.trusted,
         ~proven => cert = None,
         NEW verified, proven => verified = (P["server"].auth >= VerifyClientCertIfGiven)
  PROVE  ClientAccepted(P["server"].auth, cert, verified) <=> ClientCertFits(P["client"], P["server"])
<1> DEFINE auth == P["server"].auth
<1>1. \A x \in {3, 4} : x >= 3
  OBVIOUS
<1>2. auth \in {VerifyClientCertIfGiven, RequireAndVerifyClientCert} => auth >= VerifyClientCertIfGiven
  BY <1>1 DEF VerifyClientCertIfGiven, RequireAndVerifyClientCert
<1>3. auth \in {RequireAnyClientCert, RequireAndVerifyClientCert} => Asked(P)
  BY DEF RequireAnyClientCert, RequireAndVerifyClientCert, NoClientCert, Asked
<1>4. Asked(P) <=> auth # NoClientCert
  BY DEF Asked
<1> QED
  BY <1>2, <1>3, <1>4 DEF ClientAccepted, ClientCertFits

\* A server that looks on is calm still, and knows what it knew.
LooksOn(P, c, p, d) ==
    /\ Looking(P, "server", d, p) /\ d.flight = 4 /\ d.rendezvous = FALSE
    /\ Made("server", d) = Made("server", c) /\ Got("server", c) \subseteq Got("server", d)

\* What a server keeps to look on: its flight and messages, and its calm.
LEMMA StillLooks ==
  ASSUME NEW P, NEW c, NEW p, Looking(P, "server", c, p), c.flight = 4, c.rendezvous = FALSE,
         NEW d, Side(P, "server", d, p),
         \A f \in {"flight", "fsm", "packets", "rendezvous"} : d[f] = c[f],
         Made("server", d) = Made("server", c), Got("server", c) \subseteq Got("server", d),
         Fit(P) => d.reader = "up" /\ NoAlert(ToSet(d.queue))
  PROVE  LooksOn(P, c, p, d)
<1>1. /\ d.flight = 4 /\ d.fsm = c.fsm /\ d.packets = c.packets /\ d.rendezvous = FALSE
      /\ c.fsm = "waiting" /\ Two(P, "server", c, p) /\ P \in Pairs
      /\ Knows(P, "server", c) /\ Knows(P, Peer("server"), p)
  BY DEF Looking
<1>2. Two(P, "server", d, p) /\ IsConn(d)
  BY <1>1, TwoThen, TwoSides DEF Side, Typed
<1>3. ServerKnows(P, d)
  BY <1>1 DEF Knows, ServerKnows
<1>4. Knows(P, "server", d)
  BY <1>1, <1>3, TwoSides DEF Knows, Calm
<1> QED
  BY <1>1, <1>2, <1>4 DEF LooksOn, Looking

\* The client's key exchange is there, and what the client shows of itself.
KeyIsThere(c) == \E m \in Got("server", c) : m.typ = "ClientKeyExchange"
ShownBy(P) == IF Asked(P) THEN P["client"].cert ELSE None
Shows(c, verified) == c.verified = verified

\* The server looks on with the certificate, and with what waited for the keys.
LEMMA ServerLooksOn ==
  ASSUME NEW P, NEW c, NEW p, Looking(P, "server", c, p), c.flight = 4, c.rendezvous = FALSE,
         KeyIsThere(c), NEW verified
  PROVE  LET shown == Shown(c, ShownBy(P), verified)
             read  == HandleQueuedPackets(ServerKeys(shown, Curve(P)))
         IN  LooksOn(P, c, p, shown) /\ LooksOn(P, c, p, read) /\ Shows(read, verified)
<1> DEFINE cert == ShownBy(P)
           shown == Shown(c, cert, verified)
           read == HandleQueuedPackets(ServerKeys(shown, Curve(P)))
           keyed == ServerKeys(shown, Curve(P))
           secret == Secret(P, Made("client", p) \cup Made("server", shown))
<1>0. /\ shown = Shown(c, cert, verified) /\ read = HandleQueuedPackets(keyed)
      /\ cert = (IF Asked(P) THEN P["client"].cert ELSE None)
  BY DEF ShownBy
<1> HIDE DEF shown, read, cert
<1>1. /\ Two(P, "server", c, p) /\ c.fsm = "waiting" /\ IsConn(c) /\ Side(P, "server", c, p)
      /\ (Fit(P) => Calm(c)) /\ "server" \in Sides
  BY TwoSides DEF Looking, Two, Knows
<1>2. \E m \in Got("server", c) : m.typ = "ClientKeyExchange"
  BY DEF KeyIsThere
<1>3. /\ Chosen(P, "server", c, shown) /\ shown.flight = 4 /\ shown.fsm = "waiting"
      /\ shown.keypair = c.keypair
  BY <1>0, <1>1, CertificateShown
<1>4. Continues(P, "server", c, p, shown, secret)
  BY <1>1, <1>3, ChosenContinues
<1>5. /\ IsConn(shown) /\ shown.verified = verified
      /\ \A f \in Fields \ {"peer_cert", "verified"} : shown[f] = c[f]
  BY <1>0, <1>1, FieldNames DEF IsConn, Shown
<1>6. /\ \A f \in {"flight", "fsm", "packets", "rendezvous"} : shown[f] = c[f]
      /\ shown.reader = c.reader /\ shown.queue = c.queue
  BY <1>5, FieldNames
<1>7. LooksOn(P, c, p, shown)
  BY <1>1, <1>4, <1>6, StillLooks DEF Continues, Calm
<1> HIDE DEF secret
<1>8. Two(P, "server", shown, p) /\ c.keypair = Curve(P) /\ Curve(P) \in SupportedCurves
  BY <1>1, <1>7 DEF LooksOn, Looking, Two, ServerChose
<1>9. PreMaster(shown.keypair, Curve(P)) # None
  BY <1>3, <1>8, NoneIsFresh DEF PreMaster
<1>10. Continues(P, "server", shown, p, keyed, secret)
  <2>1. PICK m \in Got("server", shown) : m.typ = "ClientKeyExchange"
    BY <1>2, <1>4 DEF Continues
  <2>2. secret = Secret(P, Made("client", p) \cup Made("server", shown))
    BY DEF secret
  <2> HIDE DEF keyed
  <2>3. keyed = ServerKeys(shown, Curve(P))
    BY DEF keyed
  <2> QED
    BY <1>3, <1>8, <1>9, <2>1, <2>2, <2>3, ServerDerives
<1>11. IsConn(keyed) /\ \A f \in Fields \ {"master"} : keyed[f] = shown[f]
  BY <1>5, KeysMove
<1> HIDE DEF keyed
<1>12. Two(P, "server", keyed, p)
  BY <1>1, <1>8, <1>10, TwoThen DEF Continues
<1>13. read = HandleQueuedPackets(keyed)
  BY <1>0
<1>14. Continues(P, "server", keyed, p, read, secret)
  BY <1>1, <1>12, <1>13, QueueIsRead
<1>15. /\ IsConn(read) /\ \A f \in Fields \ (Moving \cup {"reader"}) : read[f] = keyed[f]
       /\ NoAlert(ToSet(keyed.queue)) => read.reader = keyed.reader /\ NoAlert(ToSet(read.queue))
  BY <1>1, <1>12, <1>13, QueueMoves
<1>16. /\ \A f \in {"flight", "fsm", "packets", "rendezvous"} : keyed[f] = shown[f] /\ read[f] = keyed[f]
       /\ keyed.reader = shown.reader /\ keyed.queue = shown.queue
       /\ keyed.verified = shown.verified /\ read.verified = keyed.verified
  BY <1>11, <1>15, FieldNames DEF Moving
<1>17. Continues(P, "server", c, p, read, secret)
  BY <1>4, <1>10, <1>14, Onwards
<1>18. LooksOn(P, c, p, read)
  <2>1. \A f \in {"flight", "fsm", "packets", "rendezvous"} : read[f] = c[f]
    BY <1>6, <1>16
  <2>2. Fit(P) => read.reader = "up" /\ NoAlert(ToSet(read.queue))
    BY <1>1, <1>6, <1>15, <1>16 DEF Calm
  <2> QED
    BY <1>17, <2>1, <2>2, StillLooks DEF Continues
<1>19. LooksOn(P, c, p, shown) /\ LooksOn(P, c, p, read) /\ read.verified = verified
  BY <1>5, <1>7, <1>16, <1>18
<1> QED
  BY <1>19 DEF shown, read, cert, Shows

\* What a server that looks on decides, it decides.
LEMMA DecidesOn ==
  ASSUME NEW P, NEW c, NEW p, NEW d, LooksOn(P, c, p, d), c.flight = 4, NEW o,
         Decides(P, "server", d, o)
  PROVE  Decides(P, "server", c, o) /\ Proceeds("server", c, p, o.conn)
BY TwoSides DEF LooksOn, Decides, Proceeds

\* The client's answer to flight 4: the server goes on with a client that fits.
LEMMA Flight4Decides ==
  ASSUME NEW P, NEW c, NEW p, Looking(P, "server", c, p), c.flight = 4, c.rendezvous = FALSE,
         NEW said, said = Made("client", p) \cup Made("server", c), ProofsShow(P, said),
         NEW o, o = Flight4Parse(c)
  PROVE  Decides(P, "server", c, o) /\ Proceeds("server", c, p, o.conn)
<1> DEFINE keys   == FullPull(c.cache, c.recv_seq, ClientRules)
           public_key == keys.msgs["ClientKeyExchange"].public_key
           cert   == IF "Certificate" \in DOMAIN keys.msgs THEN keys.msgs["Certificate"].cert ELSE c.peer_cert
           proven == "CertificateVerify" \in DOMAIN keys.msgs
           holds  == ClientProofHolds(c, cert, keys.msgs["CertificateVerify"])
           verified == IF proven THEN c.config.auth >= VerifyClientCertIfGiven ELSE c.verified
           shown  == Shown(c, cert, verified)
           read   == HandleQueuedPackets(ServerKeys(shown, public_key))
           pull   == FullPull(read.cache, keys.seq, <<NeedFinished("client")>>)
           taken  == ClientAccepted(c.config.auth, cert, read.verified)
           last   == [read EXCEPT !.recv_seq = pull.seq, !.flight = 6, !.fsm = "preparing"]
<1>1. \/ o = Keep(c)
      \/ keys.ok /\ proven /\ ~holds /\ o = Fail(c)
      \/ keys.ok /\ o = Keep(shown)
      \/ keys.ok /\ ~HasKeys(c) /\ PreMaster(c.keypair, public_key) = None
      \/ keys.ok /\ o = Keep(read)
      \/ /\ keys.ok /\ (proven => holds) /\ (~proven => cert = None) /\ pull.ok
         /\ \/ ~taken /\ o = Fail(read)
            \/ taken /\ o = [conn |-> last, alert |-> FALSE]
  <2>1. shown = [c EXCEPT !.peer_cert = cert,
                          !.verified = IF proven THEN c.config.auth >= VerifyClientCertIfGiven ELSE @]
    BY DEF Shown
  <2>2. o =
          IF ~keys.ok THEN Keep(c)
          ELSE IF proven /\ ~holds THEN Fail(c)
          ELSE IF ~proven /\ cert # None THEN Keep(shown)
          ELSE IF ~HasKeys(c) /\ PreMaster(c.keypair, public_key) = None THEN Fail(c)
          ELSE IF ~pull.ok THEN Keep(read)
          ELSE IF ~taken THEN Fail(read)
          ELSE [conn |-> last, alert |-> FALSE]
    BY <2>1 DEF Flight4Parse, ClientRules, Goto
  <2> HIDE DEF keys, public_key, cert, proven, holds, shown, read, pull, taken, last
  <2> QED
    BY <2>2
<1>2. /\ Two(P, "server", c, p) /\ IsConn(c) /\ c.config = P["server"] /\ P \in Pairs
      /\ ServerChose(P, c) /\ c.fsm = "waiting" /\ "server" \in Sides /\ Peer("server") = "client"
  BY TwoSides DEF Looking, Two, Typed
<1>3. keys = FullPull(c.cache, c.recv_seq, ClientRules)
  OBVIOUS
<1>4. keys.ok =>
        /\ public_key = Curve(P)
        /\ cert = (IF Asked(P) THEN P["client"].cert ELSE None)
  <2> SUFFICES ASSUME keys.ok PROVE public_key = Curve(P) /\ cert = (IF Asked(P) THEN P["client"].cert ELSE None)
    OBVIOUS
  <2>1. /\ public_key = Curve(P)
        /\ "Certificate" \in DOMAIN keys.msgs =>
              Asked(P) /\ keys.msgs["Certificate"].cert = P["client"].cert
        /\ Asked(P) => "Certificate" \in DOMAIN keys.msgs
    BY <1>2, ClientHeard
  <2>2. c.peer_cert # None => Asked(P)
    BY <1>2 DEF ServerChose
  <2> HIDE DEF keys
  <2> QED
    BY <2>1, <2>2
<1>5. keys.ok /\ proven =>
        /\ Asked(P) /\ P["client"].cert # None
        /\ holds <=> /\ SignerFits(P["client"], P["server"])
                     /\ P["server"].auth >= VerifyClientCertIfGiven => P["client"].cert.trusted
  <2> HIDE DEF keys, cert
  <2>1. keys.ok /\ proven =>
          /\ Asked(P) /\ P["client"].cert # None
          /\ ClientProofHolds(c, P["client"].cert, keys.msgs["CertificateVerify"])
               <=> /\ SignerFits(P["client"], P["server"])
                   /\ P["server"].auth >= VerifyClientCertIfGiven => P["client"].cert.trusted
    BY <1>3, ProofIs
  <2>2. keys.ok /\ Asked(P) => cert = P["client"].cert
    BY <1>4
  <2> QED
    BY <2>1, <2>2
<1>6. keys.ok => LooksOn(P, c, p, shown) /\ LooksOn(P, c, p, read) /\ read.verified = verified
  <2> SUFFICES ASSUME keys.ok PROVE LooksOn(P, c, p, shown) /\ LooksOn(P, c, p, read) /\ read.verified = verified
    OBVIOUS
  <2>1. public_key = Curve(P) /\ cert = (IF Asked(P) THEN P["client"].cert ELSE None)
    BY <1>4
  <2> HIDE DEF keys, public_key, cert, verified, shown, read
  <2>2. shown = Shown(c, cert, verified) /\ read = HandleQueuedPackets(ServerKeys(shown, Curve(P)))
    BY <2>1 DEF shown, read
  <2>3. KeyIsThere(c) /\ cert = ShownBy(P)
    BY <1>2, <1>3, <2>1, ClientHeard DEF KeyIsThere, ShownBy
  <2>4. /\ LooksOn(P, c, p, Shown(c, ShownBy(P), verified))
        /\ LooksOn(P, c, p, HandleQueuedPackets(ServerKeys(Shown(c, ShownBy(P), verified), Curve(P))))
        /\ Shows(HandleQueuedPackets(ServerKeys(Shown(c, ShownBy(P), verified), Curve(P))), verified)
    BY <2>3, ServerLooksOn
  <2> QED
    BY <2>2, <2>3, <2>4 DEF Shows
<1> HIDE DEF keys, public_key, cert, holds, shown, read
<1>7. keys.ok /\ (proven => holds) /\ (~proven => cert = None) =>
        (taken <=> ClientCertFits(P["client"], P["server"]))
  <2> SUFFICES ASSUME keys.ok, proven => holds, ~proven => cert = None
               PROVE  taken <=> ClientCertFits(P["client"], P["server"])
    OBVIOUS
  <2>1. proven \in BOOLEAN /\ (proven => verified = (P["server"].auth >= VerifyClientCertIfGiven))
    BY <1>2
  <2>2. proven => /\ Asked(P) /\ P["client"].cert # None
                  /\ SignerFits(P["client"], P["server"])
                  /\ P["server"].auth >= VerifyClientCertIfGiven => P["client"].cert.trusted
    BY <1>5
  <2>3. cert = (IF Asked(P) THEN P["client"].cert ELSE None)
    BY <1>4
  <2>4. taken = ClientAccepted(P["server"].auth, cert, verified)
    BY <1>2, <1>6
  <2> HIDE DEF proven, verified, taken
  <2>5. ClientAccepted(P["server"].auth, cert, verified) <=> ClientCertFits(P["client"], P["server"])
    BY <2>1, <2>2, <2>3, AcceptedIs
  <2> QED
    BY <2>4, <2>5
<1> HIDE DEF proven, verified, taken
<1>8. CASE o = Keep(c)
  BY <1>2, <1>8, KeepDecides
<1>9. CASE keys.ok /\ proven /\ ~holds /\ o = Fail(c)
  <2>1. ~ClientCertFits(P["client"], P["server"])
    BY <1>5, <1>9 DEF ClientCertFits, Asked
  <2>2. ~Fit(P)
    BY <1>2, <2>1, FitIs
  <2> QED
    BY <1>2, <1>9, <2>2, FailDecides
<1>10. CASE keys.ok /\ o = Keep(shown)
  <2>1. Decides(P, "server", shown, o)
    BY <1>2, <1>6, <1>10, KeepDecides DEF LooksOn
  <2> QED
    BY <1>6, <1>10, <2>1, DecidesOn
<1>11. CASE keys.ok /\ ~HasKeys(c) /\ PreMaster(c.keypair, public_key) = None
  <2>1. c.keypair = Curve(P) /\ Curve(P) \in SupportedCurves
    BY <1>2 DEF ServerChose
  <2> QED
    BY <1>4, <1>11, <2>1, NoneIsFresh DEF PreMaster
<1>12. CASE keys.ok /\ o = Keep(read)
  <2>1. Decides(P, "server", read, o)
    BY <1>2, <1>6, <1>12, KeepDecides DEF LooksOn
  <2> QED
    BY <1>6, <1>12, <2>1, DecidesOn
<1>13. CASE keys.ok /\ (proven => holds) /\ (~proven => cert = None) /\ ~taken /\ o = Fail(read)
  <2>1. ~Fit(P)
    BY <1>2, <1>7, <1>13, FitIs
  <2>2. Decides(P, "server", read, o)
    BY <1>2, <1>6, <1>13, <2>1, FailDecides DEF LooksOn
  <2> QED
    BY <1>6, <1>13, <2>2, DecidesOn
<1>14. CASE /\ keys.ok /\ (proven => holds) /\ (~proven => cert = None) /\ pull.ok
            /\ taken /\ o = [conn |-> last, alert |-> FALSE]
  <2>1. ClientCertFits(P["client"], P["server"])
    BY <1>7, <1>14
  <2>2. Looking(P, "server", read, p) /\ IsConn(read) /\ Two(P, "server", read, p) /\ ServerKnows(P, read)
        /\ read.flight = 4
    BY <1>6, <1>14 DEF LooksOn, Looking, Knows
  <2>3. \E m \in Got("server", read) : m.typ = "Finished"
    <3> DEFINE rule == NeedFinished("client")
    <3>1. rule.from = "client" /\ rule.typ = "Finished" /\ ~rule.optional
      BY DEF NeedFinished, Rule
    <3>2. pull = FullPull(read.cache, keys.seq, <<rule>>)
      OBVIOUS
    <3> HIDE DEF rule, pull
    <3>3. RuleOf("server", <<rule>>, rule)
      BY <1>2, <3>1 DEF RuleOf, ToSet
    <3>4. Brings("server", read, p, rule.typ, pull.msgs[rule.typ])
      BY <1>2, <1>14, <2>2, <3>1, <3>2, <3>3, PulledIs
    <3> QED
      BY <3>1, <3>4 DEF Brings
  <2> HIDE DEF pull
  <2>4. /\ IsConn(last) /\ last.flight = 6 /\ last.fsm = "preparing"
        /\ \A f \in Fields \ {"recv_seq", "flight", "fsm"} : last[f] = read[f]
    BY <2>2, FieldNames DEF IsConn
  <2> HIDE DEF last
  <2>5. Same(read, last, ChoiceFields)
    <3>1. {"recv_seq", "flight", "fsm"} \subseteq ChoiceFields
      BY DEF ChoiceFields
    <3> QED
      BY <2>4, <3>1 DEF Same
  <2>6. last.reader = read.reader /\ last.rendezvous = read.rendezvous
    BY <2>4, FieldNames
  <2>7. Made("server", last) = Made("server", read) /\ Got("server", last) = Got("server", read)
    BY <1>2, <2>5, ChoiceMakes
  <2>8. ServerKnows(P, last)
    BY <2>1, <2>2, <2>3, <2>4, <2>7 DEF ServerKnows
  <2>9. Decides(P, "server", read, [conn |-> last, alert |-> FALSE])
    BY <1>2, <2>2, <2>4, <2>5, <2>6, <2>8, GoesOn, TwoSides
  <2> QED
    BY <1>6, <1>14, <2>9, DecidesOn
<1> QED
  BY <1>1, <1>8, <1>9, <1>10, <1>11, <1>12, <1>13, <1>14

\* A side that looks lets its reader go on.
LetsGo(b, c) == IsConn(c) /\ c.rendezvous = FALSE /\ \A f \in Fields \ {"rendezvous"} : c[f] = b[f]

\* Whatever a side has heard, what it makes of it is right.
LEMMA ParseDecides ==
  ASSUME NEW P, NEW K, NEW N, Inv(P, K, N), JInv(P, K, N), NEW s \in Sides,
         K[s].fsm = "waiting", K[s].rendezvous,
         NEW c, LetsGo(K[s], c), NEW o, o = Parse(c)
  PROVE  /\ Decides(P, s, c, o) /\ Proceeds(s, K[s], K[Peer(s)], o.conn)
         /\ Made(s, c) = Made(s, K[s])
<1> DEFINE b == K[s]
           p == K[Peer(s)]
           said == Said(K)
<1>1. /\ Side(P, s, b, p) /\ Typed(P, s, b) /\ IsConn(b) /\ b.fsm = "waiting" /\ b.rendezvous
      /\ Knows(P, s, b) /\ Knows(P, Peer(s), p) /\ P \in Pairs /\ ProofsShow(P, said)
      /\ HasKeys(b) => b.master = Secret(P, said)
  BY TwoSides DEF Inv, JInv, Side, Typed, Keyed
<1>2. HeardOne(b)
  BY <1>1 DEF Knows
<1>3. (s = "client" /\ b.flight = 1 => p.flight \in {0, 2})
      /\ (s = "client" => said = Made("client", b) \cup Made("server", p))
      /\ (s = "server" => said = Made("client", p) \cup Made("server", b))
  BY TwoSides DEF JInv, FirstThings, Said
<1> HIDE DEF b, p, said
<1>4. IsConn(c) /\ c.rendezvous = FALSE /\ \A f \in Fields \ {"rendezvous"} : c[f] = b[f]
  BY DEF LetsGo, b
<1>5. /\ c.fsm = "waiting" /\ c.reader = b.reader /\ c.flight = b.flight /\ c.packets = b.packets
      /\ c.cookie = b.cookie /\ c.peer_cert = b.peer_cert /\ c.master = b.master
      /\ c.fragments = b.fragments /\ c.next = b.next /\ c.queue = b.queue
  BY <1>1, <1>4, FieldNames
<1>6. Same(b, c, Flags) /\ c.reader \in {"up", "gone"} /\ c.rendezvous \in BOOLEAN
  BY <1>1, <1>4, <1>5 DEF Same, Flags, Typed
<1>7. Side(P, s, c, p) /\ Made(s, c) = Made(s, b) /\ Got(s, c) = Got(s, b)
  BY <1>1, <1>6, FlagSide
<1>8. Two(P, s, c, p)
  BY <1>7, TwoOfInv DEF p
<1>9. HeardOne(c)
  BY <1>2, <1>5 DEF HeardOne
<1>10. Knows(P, s, c)
  <2>1. (s = "client" => ClientKnows(P, c)) /\ (s = "server" => ServerKnows(P, c))
    BY <1>1, <1>5, <1>7, KnowsOn
  <2> QED
    BY <1>1, <1>5, <1>9, <2>1 DEF Knows, Calm
<1>11. Looking(P, s, c, p)
  BY <1>1, <1>4, <1>5, <1>8, <1>10 DEF Looking
<1>12. HasKeys(c) => c.master = Secret(P, said)
  BY <1>1, <1>5 DEF HasKeys
<1>13. Decides(P, s, c, o) /\ Proceeds(s, c, p, o.conn)
  <2>1. CASE s = "client"
    <3>1. c.flight \in {1, 3, 5} /\ Looking(P, "client", c, p)
      BY <1>7, <1>11, <2>1 DEF Side, Typed
    <3>2. CASE c.flight = 1
      <4>1. o = Flight1Parse(c) /\ p.flight \in {0, 2}
        BY <1>3, <1>5, <2>1, <3>2 DEF Parse
      <4> QED
        BY <1>9, <2>1, <3>1, <3>2, <4>1, Flight1Decides
    <3>3. CASE c.flight = 3
      <4>1. o = Flight3Parse(c)
        BY <3>3 DEF Parse
      <4> QED
        BY <2>1, <3>1, <3>3, <4>1, Flight3Decides
    <3>4. CASE c.flight = 5
      <4>1. o = Flight5Parse(c)
        BY <3>4 DEF Parse
      <4>2. said = Made("client", c) \cup Made("server", p)
        BY <1>3, <1>7, <2>1
      <4> QED
        BY <1>1, <1>12, <2>1, <3>1, <3>4, <4>1, <4>2, Flight5Decides
    <3> QED
      BY <3>1, <3>2, <3>3, <3>4
  <2>2. CASE s = "server"
    <3>1. c.flight \in {0, 2, 4} /\ Looking(P, "server", c, p)
      BY <1>5, <1>7, <1>11, <2>2, TwoSides DEF Side, Typed, ServerChose
    <3>2. CASE c.flight = 0
      <4>1. o = Flight0Parse(c)
        BY <3>2 DEF Parse
      <4> QED
        BY <2>2, <3>1, <3>2, <4>1, Flight0Decides
    <3>3. CASE c.flight = 2
      <4>1. o = Flight2Parse(c)
        BY <3>3 DEF Parse
      <4> QED
        BY <2>2, <3>1, <3>3, <4>1, Flight2Decides
    <3>4. CASE c.flight = 4
      <4>1. o = Flight4Parse(c)
        BY <3>4 DEF Parse
      <4>2. said = Made("client", p) \cup Made("server", c)
        BY <1>3, <1>7, <2>2
      <4> QED
        BY <1>1, <1>4, <2>2, <3>1, <3>4, <4>1, <4>2, Flight4Decides
    <3> QED
      BY <3>1, <3>2, <3>3, <3>4
  <2> QED
    BY <2>1, <2>2, TwoSides
<1>14. Proceeds(s, b, p, o.conn)
  BY <1>5, <1>13 DEF Proceeds
<1> QED
  BY <1>7, <1>13, <1>14 DEF b, p

\* The handshake looks at the cache.
LEMMA LookDecides ==
  ASSUME NEW P, NEW K, NEW N, NEW M, Inv(P, K, N), JInv(P, K, N), NEW s \in Sides,
         K[s].fsm = "waiting", K[s].rendezvous,
         NEW o, o = Parse([K[s] EXCEPT !.rendezvous = FALSE]), o.alert = FALSE => M = N
  PROVE  JInv(P, [K EXCEPT ![s] = o.conn], M)
<1> DEFINE c == [K[s] EXCEPT !.rendezvous = FALSE]
           L == [K EXCEPT ![s] = o.conn]
<1>0. LetsGo(K[s], c)
  <2>1. IsConn(K[s])
    BY DEF Inv, Side, Typed
  <2> QED
    BY <2>1, FieldNames DEF IsConn, LetsGo
<1>1. /\ Decides(P, s, c, o) /\ Proceeds(s, K[s], K[Peer(s)], o.conn)
      /\ Made(s, c) = Made(s, K[s])
  <2>1. o = Parse(c)
    OBVIOUS
  <2> HIDE DEF c
  <2> QED
    BY <1>0, <2>1, ParseDecides
<1> HIDE DEF c
<1>2. Knows(P, s, o.conn) /\ Made(s, o.conn) = Made(s, K[s]) /\ (Fit(P) => o.alert = FALSE)
  BY <1>1 DEF Decides
<1>3. CalmNet(P, M)
  BY <1>2 DEF JInv, CalmNet
<1>4. K = [x \in Sides |-> K[x]] /\ FirstThings(K)
  BY DEF Inv, JInv
<1>5. FirstThings(L)
  <2>1. L[s] = o.conn /\ \A x \in Sides : x # s => L[x] = K[x]
    BY <1>4
  <2> HIDE DEF L
  <2>2. CASE s = "client"
    BY <1>1, <1>4, <2>1, <2>2, TwoSides DEF Proceeds, FirstThings
  <2>3. CASE s = "server"
    BY <1>1, <1>4, <2>1, <2>3, TwoSides DEF Proceeds, FirstThings
  <2> QED
    BY <2>2, <2>3, TwoSides
<1> QED
  BY <1>2, <1>3, <1>5, DecisionStep

--------------------------------------------------------------------------------
(* Preparing a flight *)

\* The numbers of a flight's messages bring no alert into it.
LEMMA NumbersCalm ==
  ASSUME NEW s, NEW q, FlightOf(s, q), NEW n \in Nat, NEW R, R = Numbered(q, n)
  PROVE  NoAlert(ToSet(R))
<1>1. /\ R \in Seq(ToSet(R)) /\ Len(R) = Len(q)
      /\ \A i \in 1 .. Len(q) : R[i].content = q[i].content
  BY NumbersRise
<1>2. \A r \in ToSet(q) : r.content # "alert"
  <2>1. ASSUME NEW r, IsMessage(s, r) PROVE r.content = "handshake"
    BY <2>1 DEF IsMessage
  <2>2. ChangeCipherSpec.content = "ccs"
    BY DEF ChangeCipherSpec
  <2> QED
    BY <2>1, <2>2 DEF FlightOf
<1>3. \A i \in 1 .. Len(q) : q[i] \in ToSet(q)
  BY DEF FlightOf, ToSet
<1>4. ASSUME NEW r \in ToSet(R) PROVE r.content # "alert"
  <2>1. PICK i \in 1 .. Len(q) : r = R[i]
    BY <1>1 DEF ToSet
  <2> QED
    BY <1>1, <1>2, <1>3, <2>1
<1> QED
  BY <1>4 DEF NoAlert

\* A flight that is made: what its side knows with the new messages is what counts.
LEMMA MadeDecides ==
  ASSUME NEW P, NEW K, NEW N, Inv(P, K, N), JInv(P, K, N), NEW s \in Sides,
         K[s].fsm = "preparing", NEW c, Numberable(s, K[s], c), NEW d, d = WithNumbers(c),
         s = "client" => ClientKnows(P, d), s = "server" => ServerKnows(P, d),
         ProofsShow(P, Made(s, d) \cup Made(Peer(s), K[Peer(s)]))
  PROVE  JInv(P, [K EXCEPT ![s] = d], N)
<1> DEFINE b == K[s]
           L == [K EXCEPT ![s] = d]
           records == Numbered(c.packets, c.send_seq)
<1>1. /\ K = [x \in Sides |-> K[x]] /\ Two(P, s, b, K[Peer(s)])
      /\ Knows(P, s, b) /\ CalmNet(P, N)
  BY TwoOfInv DEF Inv, JInv
<1>2. Prepared(s, b, c, d)
  BY <1>1, NumberedSide
<1>3. b.fsm = "preparing" /\ Numberable(s, b, c)
  OBVIOUS
<1>4. L[s] = d /\ \A x \in Sides : x # s => L[x] = K[x]
  BY <1>1
<1>5. Said(L) = Made(s, d) \cup Made(Peer(s), K[Peer(s)])
  BY SaidThen
<1>6. FirstThings(L)
  <2>1. d.flight = b.flight
    BY <1>2, MakingKeeps DEF Prepared
  <2> QED
    BY <2>1, SameFirstThings
<1> HIDE DEF b, L, records
<1>7. d.packets = records
  <2>1. IsConn(c)
    BY <1>3 DEF Numberable, Same
  <2>2. d = [c EXCEPT !.packets = records, !.send_seq = @ + Cardinality(Messages(records)),
                      !.local_epoch = IF \E r \in ToSet(records) : r.epoch = 1 THEN 1 ELSE @]
    BY DEF WithNumbers, records
  <2> QED
    BY <2>1, <2>2, FieldNames DEF IsConn
<1>8. NoAlert(ToSet(d.packets))
  BY <1>3, <1>7, NumbersCalm DEF Numberable, records
<1>9. /\ d.flight = b.flight /\ d.reader = b.reader /\ d.rendezvous = b.rendezvous
      /\ d.queue = b.queue /\ d.next = b.next /\ d.fragments = b.fragments
      /\ d.fsm = "sending" /\ Got(s, d) = Got(s, b)
  BY <1>2, MakingKeeps DEF Prepared
<1>10. Knows(P, s, d)
  BY <1>1, <1>8, <1>9 DEF Knows, Calm, HeardOne
<1>11. \A x \in Sides : Knows(P, x, L[x])
  BY <1>4, <1>10 DEF JInv
<1>12. JInv(P, L, N)
  BY <1>1, <1>5, <1>6, <1>11 DEF JInv, L
<1> QED
  BY <1>12 DEF L

\* Before there are keys nobody has proved anything or ended.
LEMMA NoProofsYet ==
  ASSUME NEW P, NEW K, NEW N, Inv(P, K, N), NEW s \in Sides, K[s].fsm = "preparing",
         K[s].flight # 6
  PROVE  /\ \A m \in Made("client", K["client"]) : m.typ = "ClientHello"
         /\ \A m \in Made("server", K["server"]) : m.typ # "Finished"
<1>1. ~HasKeys(K["client"]) /\ ~HasKeys(K["server"])
  BY NoKeysYet, TwoSides
<1>2. /\ ClientMade(P, K["client"]) /\ ServerMade(P, K["server"])
      /\ ServerChose(P, K["server"])
  BY TwoRecords
<1>3. K["server"].flight # 6
  BY <1>1, <1>2 DEF ServerChose
<1> QED
  BY <1>1, <1>2, <1>3 DEF ClientMade, ServerMade

AddsNoProof(s, b, d) ==
    \A m \in Made(s, d) : m \in Made(s, b) \/ m.typ \notin {"CertificateVerify", "Finished"}

\* An early flight has no proofs in it either.
LEMMA EarlyDecides ==
  ASSUME NEW P, NEW K, NEW N, Inv(P, K, N), JInv(P, K, N), NEW s \in Sides,
         K[s].fsm = "preparing", K[s].flight # 6,
         NEW c, Numberable(s, K[s], c), NEW d, d = WithNumbers(c),
         s = "client" => ClientKnows(P, d), s = "server" => ServerKnows(P, d),
         AddsNoProof(s, K[s], d)
  PROVE  JInv(P, [K EXCEPT ![s] = d], N)
<1> DEFINE said == Made(s, d) \cup Made(Peer(s), K[Peer(s)])
<1>1. /\ \A m \in Made("client", K["client"]) : m.typ = "ClientHello"
      /\ \A m \in Made("server", K["server"]) : m.typ # "Finished"
  BY NoProofsYet
<1>2. Own("client", K["client"]) /\ Own("server", K["server"])
  BY TwoRecords DEF Side
<1>3. ASSUME NEW m \in said
      PROVE  (m.from = "client" => m.typ # "CertificateVerify") /\ (m.from = "server" => m.typ # "Finished")
  <2>1. \/ m.typ \notin {"CertificateVerify", "Finished"}
        \/ m \in Made("client", K["client"]) \/ m \in Made("server", K["server"])
    BY <1>3, TwoSides DEF AddsNoProof
  <2>2. m \in Made("server", K["server"]) => m.from = "server"
    BY <1>2 DEF Own
  <2> QED
    BY <1>1, <2>1, <2>2, TwoSides
<1>4. ProofsShow(P, said)
  BY <1>3 DEF ProofsShow
<1> QED
  BY <1>4, MadeDecides

\* A flight of new messages, before anybody has keys, can be numbered.
LEMMA NewMessagesNumberable ==
  ASSUME NEW P, NEW K, NEW N, Inv(P, K, N), NEW s \in Sides, K[s].fsm = "preparing",
         K[s].flight # 6, NEW c, Same(K[s], c, Making), c.fsm = "sending",
         c.local_epoch = K[s].local_epoch, c.remote_epoch = K[s].remote_epoch,
         c.send_seq = K[s].send_seq, FlightOf(s, c.packets),
         \A r \in ToSet(c.packets) : r # ChangeCipherSpec /\ r.epoch = 0
  PROVE  /\ Numberable(s, K[s], c) /\ Prepared(s, K[s], c, WithNumbers(c))
         /\ K[s].send_seq \in Nat
<1>1. /\ ~HasKeys(K[s]) /\ Two(P, s, K[s], K[Peer(s)])
      /\ Typed(P, s, K[s]) /\ Own(s, K[s])
  BY NoKeysYet
<1>2. \A m \in Made(s, K[s]) : m.seq < c.send_seq
  BY <1>1 DEF Own
<1>3. c.send_seq \in Nat
  BY <1>1 DEF Typed
<1>4. Numberable(s, K[s], c)
  BY <1>1, <1>2, <1>3 DEF Numberable
<1>5. Prepared(s, K[s], c, WithNumbers(c))
  BY <1>1, <1>4, NumberedSide
<1> QED
  BY <1>3, <1>4, <1>5

\* The server waits for a client.
LEMMA MadeFlight0Decides ==
  ASSUME NEW P, NEW K, NEW N, Inv(P, K, N), JInv(P, K, N),
         K["server"].fsm = "preparing", K["server"].flight = 0,
         NEW c, c = Flight0Generate(K["server"]).conn, NEW d, d = WithNumbers(c)
  PROVE  JInv(P, [K EXCEPT !["server"] = d], N)
<1> DEFINE b == K["server"]
<1>1. /\ "server" \in Sides /\ IsConn(b) /\ b.local_epoch = 0 /\ b.remote_epoch = 0
  BY NoKeysYet, TwoSides
<1>2. ServerKnows(P, b)
  BY TwoSides DEF JInv, Knows
<1>3. c = [b EXCEPT !.cookie = "cookie", !.local_epoch = 0, !.remote_epoch = 0,
                    !.curve = "X25519", !.fsm = "sending", !.packets = <<>>]
  BY DEF Flight0Generate, Sending
<1>4. b.fsm = "preparing" /\ b.flight = 0
  OBVIOUS
<1> HIDE DEF b
<1>5. /\ IsConn(c) /\ c.fsm = "sending" /\ c.packets = <<>> /\ c.local_epoch = b.local_epoch
      /\ c.remote_epoch = b.remote_epoch
      /\ \A f \in Fields \ {"cookie", "local_epoch", "remote_epoch", "curve", "fsm", "packets"} : c[f] = b[f]
  <2>1. DOMAIN b = Fields /\ b = [f \in Fields |-> b[f]]
    BY <1>1 DEF IsConn
  <2>2. c.fsm = "sending" /\ c.packets = <<>> /\ c.local_epoch = 0 /\ c.remote_epoch = 0
    BY <1>3, <2>1, FieldNames
  <2>3. \A f \in Fields \ {"cookie", "local_epoch", "remote_epoch", "curve", "fsm", "packets"} : c[f] = b[f]
    BY <1>3, <2>1
  <2>4. IsConn(c)
    BY <1>3, <2>1 DEF IsConn
  <2> QED
    BY <1>1, <2>2, <2>3, <2>4
<1>6. c.send_seq = b.send_seq
  BY <1>5, FieldNames
<1>7. Same(b, c, Making)
  <2>1. {"cookie", "local_epoch", "remote_epoch", "curve", "fsm", "packets"} \subseteq Making
    BY DEF Making
  <2> QED
    BY <1>5, <2>1 DEF Same
<1>8. ToSet(c.packets) = {} /\ FlightOf("server", c.packets) /\ Messages(Numbered(c.packets, c.send_seq)) = {}
  <2>1. DOMAIN (<<>>) = {}
    OBVIOUS
  <2>2. ToSet(<<>>) = {}
    BY DEF ToSet
  <2>3. Numbered(<<>>, c.send_seq) = <<>>
    BY <2>1 DEF Numbered
  <2>4. FlightOf("server", <<>>)
    BY <2>2 DEF FlightOf
  <2> QED
    BY <1>5, <2>2, <2>3, <2>4, NoMessages
<1>9. b.flight # 6
  BY <1>4
<1>10. Numberable("server", b, c) /\ Prepared("server", b, c, d)
  BY <1>1, <1>4, <1>5, <1>6, <1>7, <1>8, <1>9, NewMessagesNumberable DEF b
<1>11. Made("server", d) = Made("server", b) \cup {} /\ Got("server", d) = Got("server", b) /\ d.flight = 0
  BY <1>4, <1>8, <1>10, MakingKeeps DEF Prepared
<1>12. ServerKnows(P, d)
  BY <1>2, <1>4, <1>11 DEF ServerKnows
<1>13. AddsNoProof("server", b, d)
  BY <1>11 DEF AddsNoProof
<1> QED
  BY <1>1, <1>4, <1>9, <1>10, <1>11, <1>12, <1>13, EarlyDecides, TwoSides DEF b

\* It asks for a cookie, which is the one there is.
LEMMA MadeFlight2Decides ==
  ASSUME NEW P, NEW K, NEW N, Inv(P, K, N), JInv(P, K, N),
         K["server"].fsm = "preparing", K["server"].flight = 2,
         NEW c, c = Flight2Generate(K["server"]).conn, NEW d, d = WithNumbers(c)
  PROVE  JInv(P, [K EXCEPT !["server"] = d], N)
<1> DEFINE b == K["server"]
           q == <<HandshakeRecord(b, "HelloVerifyRequest", [cookie |-> b.cookie])>>
<1>1. /\ "server" \in Sides /\ Two(P, "server", b, K["client"])
      /\ ~HasKeys(b) /\ b.local_epoch = 0 /\ b.remote_epoch = 0
      /\ Typed(P, "server", b) /\ IsConn(b) /\ Own("server", b)
  BY NoKeysYet, TwoSides
<1>2. ServerMade(P, b) /\ ServerChose(P, b) /\ ServerKnows(P, b)
  BY TwoRecords, TwoSides DEF JInv, Knows
<1>3. c = [b EXCEPT !.send_seq = 0, !.fsm = "sending", !.packets = q]
  <2>1. [b EXCEPT !.send_seq = 0].cookie = b.cookie
    BY <1>1, FieldNames DEF IsConn
  <2> QED
    BY DEF Flight2Generate, Sending
<1>4. b.fsm = "preparing" /\ b.flight = 2
  OBVIOUS
<1>5. b.role = "server" /\ b.cookie = "cookie"
  BY <1>1, <1>2, <1>4 DEF ServerChose, Typed
<1>6. /\ FlightOf("server", q) /\ \A r \in ToSet(q) : r # ChangeCipherSpec /\ r.epoch = 0
      /\ Messages(Numbered(q, 0)) = {HelloVerifyRequest}
  BY <1>5, OneMessage DEF HelloVerifyRequest
<1> HIDE DEF b, q
<1>7. /\ IsConn(c) /\ c.fsm = "sending" /\ c.packets = q /\ c.send_seq = 0
      /\ \A f \in Fields \ {"send_seq", "fsm", "packets"} : c[f] = b[f]
  BY <1>1, <1>2, <1>3, FieldNames DEF IsConn
<1>8. /\ c.local_epoch = b.local_epoch /\ c.remote_epoch = b.remote_epoch
  BY <1>7, FieldNames
<1>9. Same(b, c, Making)
  <2>1. {"send_seq", "fsm", "packets"} \subseteq Making
    BY DEF Making
  <2> QED
    BY <1>7, <2>1 DEF Same
<1>10. \A m \in Made("server", b) : m = HelloVerifyRequest
  BY <1>2, <1>4 DEF ServerMade
<1>11. Numberable("server", b, c)
  <2>1. HasKeys(b) => HasKeys(c)
    BY <1>1
  <2>2. \A m \in Made("server", b) : m \in Messages(Numbered(c.packets, c.send_seq))
    BY <1>6, <1>7, <1>10
  <2>3. ~\E r \in ToSet(c.packets) : r = ChangeCipherSpec \/ r.epoch = 1
    BY <1>6, <1>7
  <2> QED
    BY <1>6, <1>7, <1>8, <1>9, <2>1, <2>2, <2>3 DEF Numberable
<1>12. /\ Made("server", d) = Made("server", b) \cup {HelloVerifyRequest}
       /\ Got("server", d) = Got("server", b) /\ d.flight = 2
  <2>1. Prepared("server", b, c, d)
    BY <1>1, <1>4, <1>11, NumberedSide
  <2>2. d.flight = b.flight
    BY <2>1, MakingKeeps DEF Prepared
  <2> QED
    BY <1>4, <1>6, <1>7, <2>1, <2>2 DEF Prepared
<1>13. HelloVerifyRequest.typ = "HelloVerifyRequest" /\ HelloVerifyRequest.body.cookie = "cookie"
  BY DEF HelloVerifyRequest
<1>14. ServerKnows(P, d)
  <2>1. \A m \in Made("server", d) : m = HelloVerifyRequest
    BY <1>10, <1>12
  <2> QED
    BY <1>2, <1>4, <1>12, <1>13, <2>1 DEF ServerKnows
<1>15. AddsNoProof("server", b, d)
  BY <1>12, <1>13 DEF AddsNoProof
<1> QED
  BY <1>1, <1>4, <1>11, <1>12, <1>14, <1>15, EarlyDecides, TwoSides DEF b

\* The client greets without a cookie or with the one it has.
LEMMA MadeHelloDecides ==
  ASSUME NEW P, NEW K, NEW N, Inv(P, K, N), JInv(P, K, N),
         K["client"].fsm = "preparing", K["client"].flight \in {1, 3},
         NEW cookie, cookie = (IF K["client"].flight = 1 THEN None ELSE K["client"].cookie),
         NEW c, c = Greeting(K["client"], cookie), NEW d, d = WithNumbers(c)
  PROVE  JInv(P, [K EXCEPT !["client"] = d], N)
<1> DEFINE b == K["client"]
           body == [cookie |-> cookie, suites |-> P["client"].suites, curves |-> P["client"].curves,
                    srtp |-> P["client"].srtp, ems |-> P["client"].ems # "disable"]
           q == <<HandshakeRecord(b, "ClientHello", body)>>
<1>1. /\ "client" \in Sides /\ ~HasKeys(b) /\ Typed(P, "client", b) /\ IsConn(b)
  BY NoKeysYet, TwoSides
<1>2. ClientKnows(P, b) /\ \A m \in Made("client", b) : m.typ = "ClientHello"
  <2>1. b.flight # 6
    OBVIOUS
  <2> QED
    BY <1>1, <2>1, NoProofsYet DEF JInv, Knows
<1>3. c = [b EXCEPT !.cookie = cookie, !.fsm = "sending", !.packets = q]
  <2> DEFINE x == [b EXCEPT !.cookie = cookie]
  <2>1. x.cookie = cookie /\ x.config = P["client"] /\ x.role = b.role
    BY <1>1, FieldNames DEF IsConn, Typed
  <2> HIDE DEF x
  <2>2. ClientHello(x) = HandshakeRecord(b, "ClientHello", body)
    BY <2>1 DEF ClientHello, HandshakeRecord
  <2>3. c = [x EXCEPT !.fsm = "sending", !.packets = <<ClientHello(x)>>]
    BY DEF Greeting, Sending, x
  <2> QED
    BY <2>2, <2>3 DEF x
<1>4. b.fsm = "preparing" /\ b.flight \in {1, 3} /\ cookie = (IF b.flight = 1 THEN None ELSE b.cookie)
  OBVIOUS
<1>5. b.role = "client" /\ b.send_seq \in Nat
  BY <1>1 DEF Typed
<1>6. body.cookie = cookie
  OBVIOUS
<1> HIDE DEF b, body
<1> DEFINE hello == [typ |-> "ClientHello", from |-> "client", epoch |-> 0, seq |-> b.send_seq, body |-> body]
<1>7. /\ FlightOf("client", q) /\ \A r \in ToSet(q) : r # ChangeCipherSpec /\ r.epoch = 0
      /\ Messages(Numbered(q, b.send_seq)) = {hello}
  BY <1>5, OneMessage
<1>8. hello.typ = "ClientHello" /\ hello.body.cookie = cookie
  BY <1>6
<1> HIDE DEF q, hello
<1>9. /\ IsConn(c) /\ c.fsm = "sending" /\ c.packets = q /\ c.cookie = cookie
      /\ \A f \in Fields \ {"cookie", "fsm", "packets"} : c[f] = b[f]
  BY <1>1, <1>3, FieldNames DEF IsConn
<1>10. /\ c.master = b.master /\ c.local_epoch = b.local_epoch /\ c.remote_epoch = b.remote_epoch
       /\ c.send_seq = b.send_seq
  BY <1>9, FieldNames
<1>11. Same(b, c, Making)
  <2>1. {"cookie", "fsm", "packets"} \subseteq Making
    BY DEF Making
  <2> QED
    BY <1>9, <2>1 DEF Same
<1>12. b.flight # 6
  BY <1>4
<1>13. Numberable("client", b, c) /\ Prepared("client", b, c, d)
  BY <1>1, <1>4, <1>7, <1>9, <1>10, <1>11, <1>12, NewMessagesNumberable DEF b
<1>14. /\ Made("client", d) = Made("client", b) \cup {hello} /\ Got("client", d) = Got("client", b)
       /\ d.master = b.master /\ d.cookie = cookie
  BY <1>7, <1>9, <1>10, <1>13 DEF Prepared
<1>15. d.flight = b.flight
  BY <1>13, MakingKeeps DEF Prepared
<1>16. ClientKnows(P, d)
  <2>1. cookie \in {None, "cookie"} /\ (b.flight = 1 => cookie = None)
    BY <1>2, <1>4 DEF ClientKnows
  <2>2. ~HasKeys(d)
    BY <1>1, <1>14 DEF HasKeys
  <2>3. ASSUME NEW m \in Made("client", d)
        PROVE  /\ m.typ = "ClientHello" /\ m.body.cookie \in {None, "cookie"}
               /\ d.flight = 1 => m.body.cookie = None
    <3>1. CASE m \in Made("client", b)
      BY <1>2, <1>15, <3>1 DEF ClientKnows
    <3>2. CASE m = hello
      BY <1>8, <1>15, <2>1, <3>2
    <3> QED
      BY <1>14, <2>3, <3>1, <3>2
  <2> QED
    BY <1>4, <1>14, <1>15, <2>1, <2>2, <2>3 DEF ClientKnows
<1>17. AddsNoProof("client", b, d)
  BY <1>8, <1>14 DEF AddsNoProof
<1> QED
  BY <1>1, <1>4, <1>12, <1>13, <1>14, <1>16, <1>17, EarlyDecides, TwoSides DEF b

\* The server shows its certificate and signs its key before it is done.
LEMMA MadeFlight4Decides ==
  ASSUME NEW P, NEW K, NEW N, Inv(P, K, N), JInv(P, K, N),
         K["server"].fsm = "preparing", K["server"].flight = 4,
         NEW c, c = Sending(K["server"], Flight4Packets(K["server"])).conn,
         NEW d, d = WithNumbers(c)
  PROVE  JInv(P, [K EXCEPT !["server"] = d], N)
<1> DEFINE b == K["server"]
           q == Flight4Packets(b)
           A == Messages(Numbered(q, b.send_seq))
<1>1. /\ "server" \in Sides /\ Typed(P, "server", b) /\ IsConn(b)
  BY NoKeysYet, TwoSides
<1>2. ServerMade(P, b) /\ ServerChose(P, b) /\ ServerKnows(P, b)
  BY TwoRecords, TwoSides DEF JInv, Knows
<1>3. c = [b EXCEPT !.fsm = "sending", !.packets = q]
  BY DEF Sending
<1>4. b.fsm = "preparing" /\ b.flight = 4 /\ b.flight # 6
  OBVIOUS
<1>5. b.role = "server" /\ b.config = P["server"] /\ b.send_seq \in Nat
  BY <1>1 DEF Typed
<1>6. /\ FlightOf("server", q) /\ \A r \in ToSet(q) : r # ChangeCipherSpec /\ r.epoch = 0
      /\ \A m \in A :
           /\ m.typ \notin {"HelloVerifyRequest", "CertificateVerify", "Finished"}
           /\ m.typ = "Certificate" => m.body.cert = b.config.cert
           /\ m.typ = "ServerKeyExchange" => m.body = ServerKeyExchange(b).msg.body
           /\ m.typ = "ServerHelloDone" => \E x \in A : x.typ = "Certificate" /\ x.seq < m.seq
  <2> HIDE DEF b
  <2>1. q = Flight4Packets(b) /\ A = Messages(Numbered(q, b.send_seq))
    OBVIOUS
  <2> HIDE DEF q, A
  <2> QED
    BY <1>5, <2>1, Flight4Says
<1> HIDE DEF b, q, A
<1>7. /\ IsConn(c) /\ c.fsm = "sending" /\ c.packets = q
      /\ \A f \in Fields \ {"fsm", "packets"} : c[f] = b[f]
  BY <1>1, <1>3, FieldNames DEF IsConn
<1>8. /\ c.local_epoch = b.local_epoch /\ c.remote_epoch = b.remote_epoch
      /\ c.send_seq = b.send_seq
  BY <1>7, FieldNames
<1>9. Same(b, c, Making)
  <2>1. {"fsm", "packets"} \subseteq Making
    BY DEF Making
  <2> QED
    BY <1>7, <2>1 DEF Same
<1>10. Numberable("server", b, c) /\ Prepared("server", b, c, d)
  BY <1>1, <1>4, <1>6, <1>7, <1>8, <1>9, NewMessagesNumberable DEF b
<1>11. Made("server", d) = Made("server", b) \cup A /\ d.flight = 4
  BY <1>4, <1>7, <1>8, <1>10, MakingKeeps DEF Prepared, A
<1>12. ServerKeyExchange(b).msg.body = ServerKey(P)
  <2>1. b.curve = Curve(P)
    BY <1>2, <1>4 DEF ServerChose
  <2> QED
    BY <1>5, <2>1 DEF ServerKeyExchange, HandshakeRecord, ServerKey
<1>13. ServerKnows(P, d)
  <2>1. \A m \in Made("server", b) : m.typ = "HelloVerifyRequest" /\ m.body.cookie = "cookie"
    BY <1>2, <1>4 DEF ServerMade, HelloVerifyRequest
  <2>2. ASSUME NEW m \in Made("server", d)
        PROVE  /\ m.typ = "HelloVerifyRequest" => m.body.cookie = "cookie"
               /\ m.typ = "Certificate" => m.body.cert = P["server"].cert
               /\ m.typ = "ServerKeyExchange" => m.body = ServerKey(P)
               /\ m.typ = "ServerHelloDone" =>
                     \E x \in Made("server", d) : x.typ = "Certificate" /\ x.seq < m.seq
    <3>1. CASE m \in Made("server", b)
      BY <2>1, <3>1
    <3>2. CASE m \in A
      BY <1>5, <1>6, <1>11, <1>12, <3>2
    <3> QED
      BY <1>11, <2>2, <3>1, <3>2
  <2> QED
    BY <1>2, <1>4, <1>11, <2>2 DEF ServerKnows
<1>14. AddsNoProof("server", b, d)
  BY <1>6, <1>11 DEF AddsNoProof
<1> QED
  BY <1>1, <1>4, <1>10, <1>13, <1>14, EarlyDecides, TwoSides DEF b

\* The server's end shows what was said, which its end is no part of.
LEMMA MadeFlight6Decides ==
  ASSUME NEW P, NEW K, NEW N, Inv(P, K, N), JInv(P, K, N),
         K["server"].fsm = "preparing", K["server"].flight = 6,
         NEW c, c = Flight6Generate(K["server"]).conn, NEW d, d = WithNumbers(c)
  PROVE  JInv(P, [K EXCEPT !["server"] = d], N)
<1> DEFINE b == K["server"]
           p == K["client"]
           data == VerifyData(b.master, Pull(b.cache, VerifyRules))
           q == Ending(b, data)
           X == Messages(Numbered(q, b.send_seq))
           said == Made("client", p) \cup Made("server", b)
           then == Made("client", p) \cup Made("server", d)
<1>1. /\ "server" \in Sides /\ Two(P, "server", b, p)
      /\ Typed(P, "server", b) /\ IsConn(b) /\ Own("server", b) /\ Own("client", p)
      /\ Taken("server", b, p)
  <2>1. Two(P, "server", b, p)
    BY TwoOfInv, TwoSides DEF Inv
  <2> QED
    BY <2>1, TwoSides DEF Two, Typed
<1>2. /\ ServerMade(P, b) /\ ServerChose(P, b) /\ ServerKnows(P, b) /\ ClientKnows(P, p)
  BY TwoRecords, TwoSides DEF JInv, Knows
<1>3. c = [b EXCEPT !.fsm = "sending", !.packets = q]
  BY DEF Flight6Generate, Sending, Ending
<1>4. b.fsm = "preparing" /\ b.flight = 6
  OBVIOUS
<1>5. b.role = "server" /\ b.send_seq \in Nat
  BY <1>1 DEF Typed
<1>6. /\ ProofsShow(P, said) /\ b.master = Secret(P, said) /\ HasKeys(b)
  <2>1. said = Said(K)
    BY DEF Said
  <2>2. HasKeys(b)
    BY <1>2, <1>4 DEF ServerChose
  <2> QED
    BY <1>1, <2>1, <2>2 DEF JInv, Inv, Keyed
<1>7. /\ FlightOf("server", q) /\ \E r \in ToSet(q) : r.epoch = 1
      /\ \A m \in X : m.typ = "Finished" /\ m.body.verify_data = data
  <2> HIDE DEF b, data
  <2>1. /\ FlightOf("server", q) /\ \E r \in ToSet(q) : r.epoch = 1
    BY <1>5, EndingIs
  <2>2. \A r \in ToSet(q) : IsHandshake(r) => r.msg.typ = "Finished" /\ r.msg.body.verify_data = data
    <3>1. ~IsHandshake(ChangeCipherSpec)
      BY DEF IsHandshake, ChangeCipherSpec
    <3> DEFINE f == FinishedRecord(b, data)
    <3>2. f.msg.typ = "Finished" /\ f.msg.body.verify_data = data
      BY DEF FinishedRecord
    <3> HIDE DEF f
    <3>3. ToSet(<<ChangeCipherSpec, f>>) = {ChangeCipherSpec, f}
      BY DEF ToSet
    <3>4. q = <<ChangeCipherSpec, f>>
      BY DEF Ending, f
    <3> QED
      BY <3>1, <3>2, <3>3, <3>4
  <2> DEFINE R == Numbered(q, b.send_seq)
  <2>3. R = Numbered(q, b.send_seq)
    OBVIOUS
  <2> HIDE DEF q, R
  <2>4. /\ \A i \in 1 .. Len(q) :
             IsHandshake(q[i]) => R[i].msg.typ = q[i].msg.typ /\ R[i].msg.body = q[i].msg.body
        /\ Messages(R) = {R[i].msg : i \in Shakes(q)}
    BY <1>5, <2>1, <2>3, NumbersRise
  <2>5. \A i \in Shakes(q) : i \in 1 .. Len(q) /\ q[i] \in ToSet(q) /\ IsHandshake(q[i])
    BY <2>1 DEF Shakes, FlightOf, ToSet
  <2>6. \A i \in Shakes(q) : R[i].msg.typ = "Finished" /\ R[i].msg.body.verify_data = data
    BY <2>2, <2>4, <2>5
  <2> QED
    BY <2>1, <2>3, <2>4, <2>6 DEF X
<1> HIDE DEF b, p, q, X, data
<1>8. /\ IsConn(c) /\ c.fsm = "sending" /\ c.packets = q
      /\ \A f \in Fields \ {"fsm", "packets"} : c[f] = b[f]
  BY <1>1, <1>3, FieldNames DEF IsConn
<1>9. /\ c.master = b.master /\ c.local_epoch = b.local_epoch /\ c.remote_epoch = b.remote_epoch
      /\ c.send_seq = b.send_seq
  BY <1>8, FieldNames
<1>10. Same(b, c, Making)
  <2>1. {"fsm", "packets"} \subseteq Making
    BY DEF Making
  <2> QED
    BY <1>8, <2>1 DEF Same
<1>11. Numberable("server", b, c)
  <2>1. HasKeys(c)
    BY <1>6, <1>9 DEF HasKeys
  <2>2. \A m \in Made("server", b) : m.seq < c.send_seq
    BY <1>1, <1>9 DEF Own
  <2> QED
    BY <1>5, <1>7, <1>8, <1>9, <1>10, <2>1, <2>2 DEF Numberable
<1>12. /\ Made("server", d) = Made("server", b) \cup X /\ Got("server", d) = Got("server", b)
       /\ d.flight = 6 /\ Own("server", d)
  <2>1. Prepared("server", b, c, d) /\ Own("server", d)
    BY <1>1, <1>4, <1>11, NumberedSide
  <2> QED
    BY <1>4, <1>8, <1>9, <2>1, MakingKeeps DEF Prepared, X
<1>13. ServerKnows(P, d)
  <2>1. ASSUME NEW m \in Made("server", d)
        PROVE  /\ m.typ = "HelloVerifyRequest" => m.body.cookie = "cookie"
               /\ m.typ = "Certificate" => m.body.cert = P["server"].cert
               /\ m.typ = "ServerKeyExchange" => m.body = ServerKey(P)
               /\ m.typ = "ServerHelloDone" =>
                     \E x \in Made("server", d) : x.typ = "Certificate" /\ x.seq < m.seq
    <3>1. CASE m \in Made("server", b)
      BY <1>2, <1>12, <3>1 DEF ServerKnows
    <3>2. CASE m \in X
      BY <1>7, <3>2
    <3> QED
      BY <1>12, <2>1, <3>1, <3>2
  <2> QED
    BY <1>2, <1>4, <1>12, <2>1 DEF ServerKnows
<1>14. then = said \cup X /\ \A m \in X : m.from = "server" /\ m.typ = "Finished"
  BY <1>7, <1>12 DEF Own
<1> HIDE DEF said, then
<1>15. ASSUME NEW rules, NotServersEnd(rules)
       PROVE  Pull(then, rules) = Pull(said, rules)
  <2>1. \A i \in DOMAIN rules : Matching(then, rules[i]) = Matching(said, rules[i])
    BY <1>14, <1>15 DEF Matching, NotServersEnd
  <2> QED
    BY <2>1, PullOfSame
<1>16. Pull(b.cache, VerifyRules) = Pull(said, VerifyRules)
  <2>1. PICK f \in Got("server", b) : f.typ = "Finished"
    BY <1>2, <1>4 DEF ServerKnows
  <2>2. f \in Made("client", p)
    BY <1>1, <2>1, TwoSides DEF Taken, Made
  <2>3. ASSUME NEW x \in Made("client", p) PROVE x \in Got("server", b)
    <3>1. x.seq <= f.seq
      BY <1>2, <2>1, <2>2 DEF ClientKnows
    <3> QED
      BY <1>1, <2>1, <3>1, KnowsEarlier, TwoSides
  <2>4. Got("server", b) \subseteq Made("client", p)
    BY <1>1, TwoSides DEF Taken, Made
  <2>5. Made("server", b) = Sent("server", b)
    BY <1>1, <1>4 DEF Own, Made, Sent
  <2>6. b.cache = Got("server", b) \cup Sent("server", b)
    BY <1>1, TwoSides DEF Typed, Got, Sent
  <2>7. b.cache = said
    BY <2>3, <2>4, <2>5, <2>6 DEF said
  <2> QED
    BY <2>7
<1>17. Secret(P, then) = Secret(P, said)
  BY <1>15, TranscriptRules DEF Secret
<1>18. ProofsShow(P, then)
  <2>1. ASSUME NEW m \in then, m.from = "client", m.typ = "CertificateVerify"
        PROVE  /\ Asked(P) /\ P["client"].cert # None
               /\ m.body = [scheme |-> SelectScheme(P["client"].schemes, P["client"].cert),
                            signature |-> Sign(P["client"].cert, Pull(then, SessionRules))]
    <3>1. m \in said
      BY <1>14, <2>1
    <3>2. Pull(then, SessionRules) = Pull(said, SessionRules)
      BY <1>15, TranscriptRules
    <3> QED
      BY <1>6, <2>1, <3>1, <3>2 DEF ProofsShow
  <2>2. ASSUME NEW m \in then, m.from = "server", m.typ = "Finished"
        PROVE  m.body.verify_data = VerifyData(Secret(P, then), Pull(then, VerifyRules))
    <3>1. m \in X
      <4>1. m \notin Made("server", b)
        BY <1>2, <1>4, <2>2 DEF ServerMade
      <4>2. m \notin Made("client", p)
        BY <1>1, <2>2, TwoSides DEF Own
      <4> QED
        BY <1>14, <4>1, <4>2, <2>2 DEF said
    <3>2. Pull(then, VerifyRules) = Pull(said, VerifyRules)
      BY <1>15, TranscriptRules
    <3>3. data = VerifyData(Secret(P, said), Pull(said, VerifyRules))
      BY <1>6, <1>16 DEF data
    <3> QED
      BY <1>7, <1>17, <3>1, <3>2, <3>3
  <2> QED
    BY <2>1, <2>2 DEF ProofsShow
<1>19. ProofsShow(P, Made("server", d) \cup Made("client", p))
  <2>1. Made("server", d) \cup Made("client", p) = then
    BY DEF then
  <2> QED
    BY <1>18, <2>1
<1> QED
  BY <1>1, <1>4, <1>11, <1>13, <1>19, MadeDecides, TwoSides DEF b, p

\* Of the client's last flight only the proof is a CertificateVerify, and the end is last.
LEMMA LastFlightOrder ==
  ASSUME NEW c, c.role = "client", c.requested \in BOOLEAN, NEW body, NEW proof \in Proofs(c, body),
         NEW e, e.role = "client", NEW data, NEW q, q = LastFlight(c, e, proof, data)
  PROVE  \A i \in 1 .. Len(q) :
            IsHandshake(q[i]) =>
               /\ q[i].msg.typ = "CertificateVerify" => proof # <<>> /\ q[i].msg.body = body
               /\ q[i].msg.typ = "Finished" => i = Len(q)
<1> DEFINE u == Unsent(c)
           v == u \o proof
           w == Ending(e, data)
           Fine(r) == r.msg.typ # "Finished" /\
                         (r.msg.typ = "CertificateVerify" => proof # <<>> /\ r.msg.body = body)
<1>1. u \in Seq(ToSet(u)) /\ \A i \in 1 .. Len(u) : Fine(u[i])
  <2> DEFINE a == HandshakeRecord(c, "Certificate", [cert |-> c.config.cert])
             k == HandshakeRecord(c, "ClientKeyExchange", [public_key |-> c.keypair])
  <2>1. a.msg.typ = "Certificate" /\ k.msg.typ = "ClientKeyExchange"
    BY RecordIs
  <2>2. u = <<a, k>> \/ u = <<k>>
    BY UnsentIs
  <2> HIDE DEF a, k
  <2>3. Fine(a) /\ Fine(k)
    BY <2>1
  <2> HIDE DEF u, Fine
  <2>4. CASE u = <<a, k>>
    <3>1. Len(u) = 2 /\ u[1] = a /\ u[2] = k /\ u \in Seq({a, k})
      BY <2>4
    <3>2. \A i \in 1 .. 2 : i = 1 \/ i = 2
      OBVIOUS
    <3>3. u \in Seq(ToSet(u))
      BY <3>1, OfItsOwn
    <3> QED
      BY <2>3, <3>1, <3>2, <3>3
  <2>5. CASE u = <<k>>
    <3>1. Len(u) = 1 /\ u[1] = k /\ u \in Seq({k})
      BY <2>5
    <3>2. \A i \in 1 .. 1 : i = 1
      OBVIOUS
    <3>3. u \in Seq(ToSet(u))
      BY <3>1, OfItsOwn
    <3> QED
      BY <2>3, <3>1, <3>2, <3>3
  <2> QED
    BY <2>2, <2>4, <2>5
<1>2. proof \in Seq(ToSet(proof)) /\ \A i \in 1 .. Len(proof) : Fine(proof[i])
  <2> DEFINE r == HandshakeRecord(c, "CertificateVerify", body)
  <2>1. r.msg.typ = "CertificateVerify" /\ r.msg.body = body
    BY RecordIs
  <2>2. proof = <<>> \/ proof = <<r>>
    BY DEF Proofs
  <2> HIDE DEF r, u
  <2>3. CASE proof = <<>>
    <3>1. proof \in Seq({}) /\ Len(proof) = 0
      BY <2>3
    <3> QED
      BY <3>1, OfItsOwn
  <2>4. CASE proof = <<r>>
    <3>1. Len(proof) = 1 /\ proof[1] = r /\ proof \in Seq({r}) /\ proof # <<>>
      BY <2>4
    <3>2. Fine(r)
      BY <2>1, <3>1
    <3>3. \A i \in 1 .. 1 : i = 1
      OBVIOUS
    <3> HIDE DEF Fine
    <3> QED
      BY <3>1, <3>2, <3>3, OfItsOwn
  <2> QED
    BY <2>2, <2>3, <2>4
<1>3. w \in Seq(ToSet(w)) /\ Len(w) = 2 /\ ~IsHandshake(w[1])
  <2> DEFINE f == FinishedRecord(e, data)
  <2>1. ~IsHandshake(ChangeCipherSpec)
    BY DEF IsHandshake, ChangeCipherSpec
  <2>2. w = <<ChangeCipherSpec, f>>
    BY DEF Ending
  <2> HIDE DEF f, w
  <2>3. w \in Seq({ChangeCipherSpec, f}) /\ Len(w) = 2 /\ w[1] = ChangeCipherSpec
    BY <2>2
  <2> QED
    BY <2>1, <2>3, OfItsOwn
<1>4. v = u \o proof /\ q = v \o w
  BY DEF LastFlight
<1> DEFINE S == ToSet(u) \cup ToSet(proof) \cup ToSet(w)
<1>5. ToSet(u) \subseteq S /\ ToSet(proof) \subseteq S /\ ToSet(w) \subseteq S
  OBVIOUS
<1> HIDE DEF u, v, w, Fine, S
<1>6. u \in Seq(S) /\ proof \in Seq(S) /\ w \in Seq(S)
  BY <1>1, <1>2, <1>3, <1>5
<1>7. /\ v \in Seq(S) /\ Len(v) = Len(u) + Len(proof)
      /\ \A i \in 1 .. Len(u) : v[i] = u[i]
      /\ \A i \in 1 .. Len(proof) : v[Len(u) + i] = proof[i]
  BY <1>4, <1>6, Joined
<1>8. /\ q \in Seq(S) /\ Len(q) = Len(v) + Len(w)
      /\ \A i \in 1 .. Len(v) : q[i] = v[i]
      /\ \A i \in 1 .. Len(w) : q[Len(v) + i] = w[i]
  BY <1>4, <1>6, <1>7, Joined
<1>9. Len(u) \in Nat /\ Len(proof) \in Nat
  BY <1>6
<1>10. ASSUME NEW i \in 1 .. Len(v) PROVE Fine(v[i])
  <2>1. CASE i \in 1 .. Len(u)
    BY <1>1, <1>7, <2>1
  <2>2. CASE i - Len(u) \in 1 .. Len(proof)
    <3>1. i = Len(u) + (i - Len(u))
      BY <1>9
    <3> QED
      BY <1>2, <1>7, <2>2, <3>1
  <2>3. i \in 1 .. Len(u) \/ i - Len(u) \in 1 .. Len(proof)
    BY <1>7, <1>9
  <2> QED
    BY <2>1, <2>2, <2>3
<1>11. ASSUME NEW i \in 1 .. Len(q), IsHandshake(q[i]) PROVE Fine(q[i]) \/ i = Len(q)
  <2>1. i \in 1 .. Len(v) \/ i = Len(v) + 1 \/ i = Len(q)
    <3>1. Len(v) \in Nat /\ Len(q) = Len(v) + 2
      BY <1>3, <1>7, <1>8, <1>9
    <3> QED
      BY <1>11, <3>1
  <2>2. 1 \in 1 .. Len(w)
    BY <1>3
  <2>3. CASE i = Len(v) + 1
    <3>1. q[Len(v) + 1] = w[1]
      BY <1>8, <2>2
    <3>2. q[i] = w[1]
      BY <2>3, <3>1
    <3> QED
      BY <1>3, <1>11, <3>2
  <2>4. CASE i \in 1 .. Len(v)
    <3>1. Fine(v[i])
      BY <1>10, <2>4
    <3>2. q[i] = v[i]
      BY <1>8, <2>4
    <3> QED
      BY <3>1, <3>2
  <2> QED
    BY <2>1, <2>3, <2>4
<1>12. IsHandshake(q[Len(q)]) => q[Len(q)].msg.typ = "Finished"
  <2> DEFINE f == FinishedRecord(e, data)
  <2>1. f.msg.typ = "Finished"
    BY DEF FinishedRecord
  <2>2. w = <<ChangeCipherSpec, f>>
    BY DEF Ending, w
  <2> HIDE DEF f
  <2>3. w[2] = f /\ 2 \in 1 .. Len(w)
    BY <1>3, <2>2
  <2>4. q[Len(q)] = w[2]
    BY <1>3, <1>8, <2>3
  <2> QED
    BY <2>1, <2>3, <2>4
<1> QED
  BY <1>11, <1>12 DEF Fine

\* So do its messages say it, the end with the highest number.
LastShows(body, proof, A) ==
    \A m \in A :
        /\ m.typ = "CertificateVerify" => proof # <<>> /\ m.body = body
        /\ m.typ = "Finished" => \A x \in A : x.seq <= m.seq

\* What the messages of the client's last flight show.
LEMMA LastFlightShows ==
  ASSUME NEW c, c.role = "client", c.requested \in BOOLEAN, NEW body, NEW proof \in Proofs(c, body),
         NEW e, e.role = "client", NEW data, NEW q, q = LastFlight(c, e, proof, data),
         FlightOf("client", q), NEW n \in Nat, NEW A, A = Messages(Numbered(q, n))
  PROVE  LastShows(body, proof, A)
<1>1. \A i \in 1 .. Len(q) :
         IsHandshake(q[i]) =>
            /\ q[i].msg.typ = "CertificateVerify" => proof # <<>> /\ q[i].msg.body = body
            /\ q[i].msg.typ = "Finished" => i = Len(q)
  BY LastFlightOrder
<1> DEFINE R == Numbered(q, n)
<1>2. R = Numbered(q, n)
  OBVIOUS
<1> HIDE DEF R
<1>3. /\ \A i \in 1 .. Len(q) :
           IsHandshake(q[i]) => R[i].msg.typ = q[i].msg.typ /\ R[i].msg.body = q[i].msg.body
      /\ Messages(R) = {R[i].msg : i \in Shakes(q)}
      /\ \A i, j \in Shakes(q) : i < j => R[i].msg.seq < R[j].msg.seq
      /\ \A i \in Shakes(q) : R[i].msg.seq \in Nat
  BY <1>2, NumbersRise
<1>4. \A i \in Shakes(q) : i \in 1 .. Len(q) /\ IsHandshake(q[i])
  BY DEF Shakes
<1>5. Len(q) \in Nat
  BY DEF FlightOf
<1>6. ASSUME NEW m \in A
      PROVE  /\ m.typ = "CertificateVerify" => proof # <<>> /\ m.body = body
             /\ m.typ = "Finished" => \A x \in A : x.seq <= m.seq
  <2>1. PICK i \in Shakes(q) : m = R[i].msg
    BY <1>2, <1>3
  <2>2. m.typ = q[i].msg.typ /\ m.body = q[i].msg.body /\ i \in 1 .. Len(q) /\ IsHandshake(q[i])
    BY <1>3, <1>4, <2>1
  <2>3. ASSUME m.typ = "Finished", NEW x \in A PROVE x.seq <= m.seq
    <3>1. i = Len(q)
      BY <1>1, <2>2, <2>3
    <3>2. PICK j \in Shakes(q) : x = R[j].msg
      BY <1>2, <1>3
    <3>3. j = i \/ j < i
      BY <1>4, <1>5, <3>1
    <3> QED
      BY <1>3, <2>1, <3>2, <3>3
  <2> QED
    BY <1>1, <2>2, <2>3
<1> QED
  BY <1>6 DEF LastShows

\* The client's last flight fails at the server's key exactly where it has to.
LEMMA KeyFailsIs ==
  ASSUME NEW P, NEW b, NEW p, Two(P, "client", b, p), ClientKnows(P, b), ServerKnows(P, p),
         b.flight = 5
  PROVE  KeyFails(b) <=> ~ServerProven(P)
<1> DEFINE rule == Need("ServerKeyExchange", "server")
           found == Latest(b.cache, rule)
           mine == P["client"]
           theirs == P["server"]
           own == Sign(theirs.cert, None).scheme
           scheme == SelectScheme(theirs.schemes, theirs.cert)
<1>1. /\ "client" \in Sides /\ Peer("client") = "server" /\ b.config = mine /\ P \in Pairs
      /\ Own("server", p)
  BY TwoSides DEF Two, Typed
<1>2. rule.typ = "ServerKeyExchange" /\ rule.from = "server" /\ rule.epoch = 0
  BY DEF Need, Rule
<1>3. PICK m \in Got("client", b) : m.typ = "ServerKeyExchange"
  BY DEF ClientKnows
<1>4. m \in Made("server", p)
  BY <1>1 DEF Two, Taken, Made
<1>5. m.epoch = 0
  BY <1>1, <1>3, <1>4 DEF Own
<1> HIDE DEF rule, found, mine, theirs, own, scheme
<1>6. m \in Matching(b.cache, rule)
  BY <1>1, <1>2, <1>3, <1>5 DEF Got, Matching
<1>7. found \in Matching(b.cache, rule)
  <2>1. Bounded(b.cache)
    BY <1>1, CacheIsBounded
  <2> QED
    BY <1>6, <2>1, LatestIs DEF found
<1>8. found \in Made("server", p) /\ found.typ = "ServerKeyExchange"
  BY <1>1, <1>2, <1>7, FoundIsSent
<1>9. found.body = ServerKey(P)
  BY <1>8 DEF ServerKnows
<1>10. /\ found.body.scheme = scheme /\ found.body.curve = Curve(P)
       /\ found.body.signature = [by |-> theirs.cert, scheme |-> own, message |-> Curve(P)]
  BY <1>9 DEF ServerKey, Sign, scheme, own, theirs
<1>11. b.peer_cert = theirs.cert /\ theirs.cert # None
  <2>1. ValidConfig("server", P["server"])
    BY <1>1, PairsAssumption DEF Sides
  <2> QED
    BY <2>1 DEF ClientKnows, ValidConfig, theirs
<1>12. ~KeyFails(b) <=>
         /\ scheme \in ToSet(mine.schemes)
         /\ [by |-> theirs.cert, scheme |-> own, message |-> Curve(P)] =
               [by |-> theirs.cert, scheme |-> scheme, message |-> Curve(P)]
         /\ mine.verify => theirs.cert.trusted
  BY <1>1, <1>10, <1>11 DEF KeyFails, ServerKeyHolds, SignatureHolds, found, rule
<1>13. [by |-> theirs.cert, scheme |-> own, message |-> Curve(P)] =
          [by |-> theirs.cert, scheme |-> scheme, message |-> Curve(P)] <=> scheme = own
  OBVIOUS
<1> QED
  BY <1>12, <1>13 DEF ServerProven, Announces, mine, theirs, own, scheme

\* The client's last flight proves what there is to prove.
LEMMA MadeFlight5Decides ==
  ASSUME NEW P, NEW K, NEW N, Inv(P, K, N), JInv(P, K, N),
         K["client"].fsm = "preparing", K["client"].flight = 5, ~KeyFails(K["client"]), NEW data,
         NEW e, e = Deriving(K["client"]),
         NEW c, c = Sending(e, LastFlight(K["client"], e, ProofOf(K["client"]), data)).conn,
         NEW d, d = WithNumbers(c)
  PROVE  JInv(P, [K EXCEPT !["client"] = d], N)
<1> DEFINE b == K["client"]
           p == K["server"]
           n == b.send_seq
           T == Numbered(Unsent(b), n)
           body == ProofBody(b)
           proof == ProofOf(b)
           q == LastFlight(b, e, proof, data)
           A == Messages(Numbered(q, n))
           then == Made("client", d) \cup Made("server", p)
<1>1. /\ "client" \in Sides /\ b.fsm = "preparing" /\ b.flight = 5 /\ b.flight # 6
      /\ Two(P, "client", b, p) /\ b.config = P["client"] /\ b.role = "client" /\ n \in Nat
      /\ b.requested \in BOOLEAN
  <2>1. "client" \in Sides /\ b.flight # 6 /\ Peer("client") = "server"
    BY TwoSides
  <2>2. Two(P, "client", b, p) /\ Typed(P, "client", b)
    BY <2>1, NoKeysYet
  <2> QED
    BY <2>1, <2>2 DEF Typed
<1>2. ClientKnows(P, b) /\ ServerKnows(P, p) /\ (b.requested <=> Asked(P))
  <2>1. ClientKnows(P, b) /\ ServerKnows(P, p)
    BY TwoSides DEF JInv, Knows
  <2>2. ClientChose(P, b)
    BY TwoRecords
  <2> QED
    BY <1>1, <2>1, <2>2 DEF ClientChose
<1>3. \A m \in Made("server", p) : m.typ # "Finished"
  BY <1>1, NoProofsYet
<1>4. T = Numbered(Unsent(b), b.send_seq) /\ proof \in Proofs(b, body)
  BY LastFlightIs
<1>5. e = [b EXCEPT !.master = ClientSecret(b, Transcript(T))]
  BY DEF Deriving
<1>6. e.role = "client"
  <2>1. Typed(P, "client", b)
    BY <1>1 DEF Two
  <2> HIDE DEF b, T
  <2> QED
    BY <1>1, <1>5, <2>1, FieldNames DEF Typed, IsConn
<1> HIDE DEF T, body, proof
<1>7. /\ \E X : LastMade(b, p, T, q, c, d, X)
      /\ FlightOf("client", q)
      /\ \A m \in Made("client", b) : m.typ = "ClientHello" /\ m.seq \in Nat /\ m.seq < n
  <2>1. c = Sending(e, LastFlight(b, e, proof, data)).conn
    BY DEF proof
  <2> QED
    BY <1>1, <1>4, <1>5, <2>1, Flight5Made
<1>8. PICK X : LastMade(b, p, T, q, c, d, X)
  BY <1>7
<1>9. q = LastFlight(b, e, proof, data) /\ A = Messages(Numbered(q, n))
  OBVIOUS
<1>10. ~KeyFails(b) /\ body = ProofBody(b) /\ proof = ProofOf(b)
  BY DEF body, proof
<1> HIDE DEF b, p, q, A, n
<1>11. /\ Numberable("client", b, c) /\ Answer(b, T, n) /\ \A x \in X : Later(x, n)
       /\ A = Messages(T) \cup X
       /\ Made("client", d) = Made("client", b) \cup Messages(T) \cup X
       /\ Got("client", d) = Got("client", b) /\ d.cookie = b.cookie /\ Same(b, d, Making)
       /\ Pull(then, SessionRules) = Pull(b.cache, SessionRules) \o Transcript(T)
  BY <1>8, <1>9 DEF LastMade, n
<1>12. LastShows(body, proof, A)
  BY <1>1, <1>4, <1>6, <1>7, <1>9, LastFlightShows
<1>13. ServerProven(P)
  BY <1>1, <1>2, <1>10, KeyFailsIs
<1>14. Made("client", d) = Made("client", b) \cup A
  BY <1>11
<1>15. \A m \in Messages(T) : m.typ \in {"Certificate", "ClientKeyExchange"}
  <2>1. PICK y : /\ KeyIn(b, y, n)
                 /\ \/ Messages(T) = {y}
                    \/ \E x : CertIn(b, x, n) /\ Messages(T) = {x, y}
    BY <1>11 DEF Answer
  <2> QED
    BY <2>1 DEF KeyIn, CertIn, ClientSays
<1>16. ASSUME NEW m \in A
       PROVE  m.typ # "ClientHello" /\ (m.typ = "Finished" => m.seq \in Nat /\ m.seq >= n)
  <2>1. CASE m \in Messages(T)
    BY <1>15, <2>1
  <2>2. CASE m \in X
    <3>1. Later(m, n)
      BY <1>11, <2>2
    <3> QED
      BY <3>1 DEF Later
  <2> QED
    BY <1>11, <1>16, <2>1, <2>2
<1>17. d.flight = 5 /\ d.peer_cert = b.peer_cert
  BY <1>1, <1>11, MakingKeeps
<1>18. ClientKnows(P, d)
  <2>1. ASSUME NEW m \in Made("client", d)
        PROVE  /\ m.typ = "ClientHello" => m.body.cookie \in {None, "cookie"}
               /\ m.typ = "Finished" => \A x \in Made("client", d) : x.seq <= m.seq
    <3>1. CASE m \in Made("client", b)
      BY <1>2, <1>7, <3>1 DEF ClientKnows
    <3>2. CASE m \in A
      <4>1. ASSUME m.typ = "Finished", NEW x \in Made("client", d) PROVE x.seq <= m.seq
        <5>1. CASE x \in A
          BY <1>12, <3>2, <4>1, <5>1 DEF LastShows
        <5>2. CASE x \in Made("client", b)
          <6>1. x.seq \in Nat /\ x.seq < n /\ m.seq \in Nat /\ m.seq >= n
            BY <1>7, <1>16, <3>2, <4>1, <5>2
          <6> QED
            BY <1>1, <6>1
        <5> QED
          BY <1>14, <4>1, <5>1, <5>2
      <4> QED
        BY <1>16, <3>2, <4>1
    <3> QED
      BY <1>14, <2>1, <3>1, <3>2
  <2>2. /\ P["client"].ems = "require" => Ems(P)
        /\ \E m \in Got("client", b) : m.typ = "ServerKeyExchange"
        /\ b.peer_cert = P["server"].cert /\ b.cookie \in {None, "cookie"}
    BY <1>1, <1>2 DEF ClientKnows
  <2>3. /\ d.cookie \in {None, "cookie"} /\ d.peer_cert = P["server"].cert
        /\ \E m \in Got("client", d) : m.typ = "ServerKeyExchange"
    BY <1>11, <1>17, <2>2
  <2> QED
    BY <1>13, <1>17, <2>1, <2>2, <2>3 DEF ClientKnows
<1>19. ProofsShow(P, then)
  <2>1. Own("server", p) /\ Own("client", d)
    <3>1. "client" \in Sides /\ b.fsm = "preparing"
      BY <1>1
    <3> QED
      BY <1>1, <1>11, <3>1, NumberedSide, TwoSides DEF Two
  <2>2. ASSUME NEW m \in then, m.from = "client", m.typ = "CertificateVerify"
        PROVE  /\ Asked(P) /\ P["client"].cert # None
               /\ m.body = [scheme |-> SelectScheme(P["client"].schemes, P["client"].cert),
                            signature |-> Sign(P["client"].cert, Pull(then, SessionRules))]
    <3>1. m \in A
      <4>1. m \notin Made("server", p)
        BY <2>1, <2>2 DEF Own
      <4>2. m \notin Made("client", b)
        BY <1>7, <2>2
      <4> QED
        BY <1>14, <2>2, <4>1, <4>2
    <3>2. proof # <<>> /\ m.body = body
      BY <1>12, <2>2, <3>1 DEF LastShows
    <3>3. Signs(b)
      BY <1>10, <3>2 DEF ProofOf
    <3>4. Asked(P) /\ P["client"].cert # None
      BY <1>1, <1>2, <3>3 DEF Signs
    <3>5. SessionHash(b.cache, Transcript(T)) = Pull(then, SessionRules)
      BY <1>11 DEF SessionHash
    <3>6. body = [scheme |-> SelectScheme(P["client"].schemes, P["client"].cert),
                  signature |-> Sign(P["client"].cert, SessionHash(b.cache, Transcript(T)))]
      BY <1>1, <1>4, <1>10 DEF ProofBody
    <3> QED
      BY <3>2, <3>4, <3>5, <3>6
  <2>3. ASSUME NEW m \in then, m.from = "server", m.typ = "Finished" PROVE FALSE
    <3>1. m \notin Made("client", d)
      BY <2>1, <2>3 DEF Own
    <3> QED
      BY <1>3, <2>3, <3>1 DEF p
  <2> HIDE DEF then
  <2> QED
    BY <2>2, <2>3 DEF ProofsShow
<1>20. ProofsShow(P, Made("client", d) \cup Made(Peer("client"), K[Peer("client")]))
  <2>1. Peer("client") = "server"
    BY TwoSides
  <2> QED
    BY <1>19, <2>1 DEF p
<1> QED
  BY <1>1, <1>11, <1>18, <1>20, MadeDecides DEF b

\* Who has no scheme announces nothing.
LEMMA NoSchemeFitsNot ==
  ASSUME NEW signer, NEW other, IsList(signer.schemes), IsList(other.schemes),
         SelectScheme(signer.schemes, signer.cert) = None
  PROVE  ~Announces(signer, other) /\ ~SignerFits(signer, other)
<1>1. None \notin ToSet(other.schemes)
  <2> DEFINE q == other.schemes
  <2>1. q \in Seq(ToSet(q) \ {None})
    BY DEF IsList
  <2> HIDE DEF q
  <2>2. \A i \in 1 .. Len(q) : q[i] # None
    BY <2>1
  <2>3. None \notin ToSet(q)
    BY <2>1, <2>2 DEF ToSet
  <2> QED
    BY <2>3 DEF q
<1>2. ~Announces(signer, other)
  BY <1>1 DEF Announces
<1> QED
  BY <1>2, SignerIs

\* A flight that cannot be made shows that the two do not fit.
LEMMA NoFlightNoFit ==
  ASSUME NEW P, NEW K, NEW N, Inv(P, K, N), JInv(P, K, N), NEW s \in Sides,
         K[s].fsm = "preparing", K[s].flight \in {4, 5}, Generate(K[s]) = Fail(K[s])
  PROVE  ~Fit(P)
<1> DEFINE b == K[s]
           g == Generate(b)
<1>1. /\ P \in Pairs /\ Typed(P, s, b) /\ b.config = P[s]
      /\ b.flight \in IF s = "client" THEN {1, 3, 5} ELSE {0, 2, 4, 6}
  BY DEF Inv, Side, Typed
<1>2. g.alert = TRUE /\ \A x, q : Sending(x, q).alert = FALSE
  BY DEF Fail, Sending
<1>3. \A x \in Sides : IsList(P[x].schemes)
  BY <1>1, ListsOfPair
<1>4. "client" \in Sides /\ "server" \in Sides
  BY TwoSides
<1>5. CASE b.flight = 4
  <2>1. s = "server"
    BY <1>1, <1>5, TwoSides
  <2>2. SelectScheme(b.config.schemes, b.config.cert) = None
    <3>1. g = Flight4Generate(b)
      BY <1>5 DEF Generate
    <3> HIDE DEF b, g
    <3> QED
      BY <1>2, <3>1 DEF Flight4Generate
  <2>3. ~Announces(P["server"], P["client"])
    BY <1>1, <1>3, <1>4, <2>1, <2>2, NoSchemeFitsNot
  <2> QED
    BY <1>1, <2>3, FitIs DEF ServerProven
<1>6. CASE b.flight = 5
  <2>1. s = "client" /\ b = K["client"]
    BY <1>1, <1>6, TwoSides
  <2>2. g = Flight5Generate(b)
    BY <1>6 DEF Generate
  <2>3. KeyFails(b) \/ ProofFails(b)
    <3> HIDE DEF b, g
    <3>1. ~KeyFails(b) /\ ~ProofFails(b) => g.alert = FALSE
      BY <1>2, <2>2, LastFlightIs
    <3> QED
      BY <1>2, <3>1
  <2>4. CASE KeyFails(b)
    <3>1. Two(P, "client", b, K["server"])
      <4>1. b.flight # 6 /\ b.fsm = "preparing"
        BY <1>6
      <4> QED
        BY <1>4, <2>1, <4>1, NoKeysYet, TwoSides
    <3>2. ClientKnows(P, b) /\ ServerKnows(P, K["server"])
      BY <2>1, TwoSides DEF JInv, Knows
    <3>3. ~ServerProven(P)
      BY <1>6, <2>4, <3>1, <3>2, KeyFailsIs
    <3> QED
      BY <1>1, <3>3, FitIs
  <2>5. CASE ProofFails(b)
    <3>1. b.requested => Asked(P)
      <4>1. ClientChose(P, b)
        BY <2>1, TwoRecords
      <4> QED
        BY <1>6, <4>1 DEF ClientChose
    <3>2. /\ Asked(P) /\ P["client"].cert # None
          /\ SelectScheme(P["client"].schemes, P["client"].cert) = None
      BY <1>1, <2>1, <2>5, <3>1 DEF ProofFails, Signs
    <3>3. ~SignerFits(P["client"], P["server"])
      BY <1>3, <1>4, <3>2, NoSchemeFitsNot
    <3>4. ~ClientCertFits(P["client"], P["server"])
      BY <3>2, <3>3 DEF ClientCertFits, Asked
    <3> QED
      BY <1>1, <3>4, FitIs
  <2> QED
    BY <2>3, <2>4, <2>5
<1> QED
  BY <1>5, <1>6

\* Then its side may give up.
LEMMA FailedDecides ==
  ASSUME NEW P, NEW K, NEW N, NEW M, Inv(P, K, N), JInv(P, K, N), NEW s \in Sides, ~Fit(P),
         NEW d, d = Failing(K[s])
  PROVE  JInv(P, [K EXCEPT ![s] = d], M)
<1> DEFINE c == K[s]
<1>1. IsConn(c) /\ Knows(P, s, c)
  BY DEF JInv, Inv, Side, Typed
<1>2. d = [c EXCEPT !.fsm = "failed", !.reader = "gone"]
  BY DEF Failing, Fail
<1> HIDE DEF c
<1>3. /\ d.rendezvous = c.rendezvous
      /\ d.flight = c.flight /\ d.packets = c.packets /\ d.cookie = c.cookie
      /\ d.peer_cert = c.peer_cert /\ d.master = c.master
      /\ d.fragments = c.fragments /\ d.next = c.next
      /\ d.cache = c.cache
  BY <1>1, <1>2, FieldNames DEF IsConn
<1>4. Made(s, d) = Made(s, c) /\ Got(s, d) = Got(s, c)
  BY <1>3 DEF Made, Sent, Got
<1>5. (s = "client" => ClientKnows(P, d)) /\ (s = "server" => ServerKnows(P, d))
  BY <1>1, <1>3, <1>4, KnowsOn
<1>6. Knows(P, s, d)
  BY <1>1, <1>3, <1>5 DEF Knows, HeardOne
<1>7. FirstThings([K EXCEPT ![s] = d])
  BY <1>3, SameFirstThings DEF c
<1>8. CalmNet(P, M)
  BY DEF CalmNet
<1> QED
  BY <1>4, <1>6, <1>7, <1>8, DecisionStep DEF c

\* A flight that is made keeps what decides, whichever it is.
LEMMA GenerateDecides ==
  ASSUME NEW P, NEW K, NEW N, Inv(P, K, N), JInv(P, K, N), NEW s \in Sides,
         K[s].fsm = "preparing", NEW g, g = Generate(K[s]), g # Fail(K[s]),
         NEW c, c = g.conn, NEW d, d = WithNumbers(c)
  PROVE  JInv(P, [K EXCEPT ![s] = d], N)
<1> DEFINE b == K[s]
<1>1. IsConn(b) /\ b.flight \in IF s = "client" THEN {1, 3, 5} ELSE {0, 2, 4, 6}
  BY DEF Inv, Side, Typed
<1>2. MadeFlight(b, c)
  <2>1. b.flight \in 0 .. 6
    <3>1. b.flight \in {1, 3, 5} \/ b.flight \in {0, 2, 4, 6}
      BY <1>1
    <3> HIDE DEF b
    <3> QED
      BY <3>1
  <2> QED
    BY <1>1, <2>1, Generates
<1>3. CASE s = "client"
  <2>1. b = K["client"] /\ b.flight \in {1, 3, 5} /\ K["client"].fsm = "preparing"
    BY <1>1, <1>3
  <2>2. CASE b.flight \in {1, 3}
    <3> DEFINE cookie == IF K["client"].flight = 1 THEN None ELSE K["client"].cookie
    <3>1. c = Greeting(K["client"], cookie)
      BY <1>2, <2>1, <2>2 DEF MadeFlight
    <3>2. cookie = (IF K["client"].flight = 1 THEN None ELSE K["client"].cookie)
      OBVIOUS
    <3> HIDE DEF cookie
    <3>3. JInv(P, [K EXCEPT !["client"] = d], N)
      BY <2>1, <2>2, <3>1, <3>2, MadeHelloDecides
    <3> QED
      BY <1>3, <3>3
  <2>3. CASE b.flight = 5
    <3>1. g = Flight5Generate(b) /\ g # Fail(b)
      BY <2>3 DEF Generate
    <3>2. ~KeyFails(b) /\ \E data : g = Sending(Deriving(b), LastFlight(b, Deriving(b), ProofOf(b), data))
      BY <3>1, LastFlightIs
    <3>3. PICK data : g = Sending(Deriving(b), LastFlight(b, Deriving(b), ProofOf(b), data))
      BY <3>2
    <3> DEFINE e == Deriving(K["client"])
    <3>4. e = Deriving(K["client"])
      OBVIOUS
    <3> HIDE DEF e
    <3>5. c = Sending(e, LastFlight(K["client"], e, ProofOf(K["client"]), data)).conn
      BY <2>1, <3>3, <3>4
    <3>6. JInv(P, [K EXCEPT !["client"] = d], N)
      BY <2>1, <2>3, <3>2, <3>4, <3>5, MadeFlight5Decides
    <3> QED
      BY <1>3, <3>6
  <2> QED
    BY <2>1, <2>2, <2>3
<1>4. CASE s = "server"
  <2>1. b = K["server"] /\ b.flight \in {0, 2, 4, 6} /\ K["server"].fsm = "preparing"
    BY <1>1, <1>4, TwoSides
  <2>2. CASE b.flight = 0
    <3>1. c = Flight0Generate(K["server"]).conn
      BY <1>2, <2>1, <2>2 DEF MadeFlight
    <3>2. JInv(P, [K EXCEPT !["server"] = d], N)
      BY <2>1, <2>2, <3>1, MadeFlight0Decides
    <3> QED
      BY <1>4, <3>2
  <2>3. CASE b.flight = 2
    <3>1. c = Flight2Generate(K["server"]).conn
      BY <1>2, <2>1, <2>3 DEF MadeFlight
    <3>2. JInv(P, [K EXCEPT !["server"] = d], N)
      BY <2>1, <2>3, <3>1, MadeFlight2Decides
    <3> QED
      BY <1>4, <3>2
  <2>4. CASE b.flight = 4
    <3>1. c = Sending(K["server"], Flight4Packets(K["server"])).conn
      BY <1>2, <2>1, <2>4 DEF MadeFlight
    <3>2. JInv(P, [K EXCEPT !["server"] = d], N)
      BY <2>1, <2>4, <3>1, MadeFlight4Decides
    <3> QED
      BY <1>4, <3>2
  <2>5. CASE b.flight = 6
    <3>1. c = Flight6Generate(K["server"]).conn
      BY <2>1, <2>5 DEF Generate
    <3>2. JInv(P, [K EXCEPT !["server"] = d], N)
      BY <2>1, <2>5, <3>1, MadeFlight6Decides
    <3> QED
      BY <1>4, <3>2
  <2> QED
    BY <2>1, <2>2, <2>3, <2>4, <2>5
<1> QED
  BY <1>3, <1>4, TwoSides

--------------------------------------------------------------------------------
(* What decides stays so in every step *)

\* Preparing a flight.
LEMMA PrepareDecides ==
  ASSUME IInv, DecisionInv, NEW s \in Sides, Prepare(s)
  PROVE  DecisionInv'
<1> DEFINE b == conn[s]
           g == Generate(b)
           c == g.conn
           records == Numbered(c.packets, c.send_seq)
           o == IF c.fsm = "failed" THEN g
                ELSE [g EXCEPT
                        !.conn.packets = records,
                        !.conn.send_seq = @ + Cardinality(Messages(records)),
                        !.conn.local_epoch = IF \E r \in ToSet(records) : r.epoch = 1 THEN 1 ELSE @]
<1>1. Inv(pair, conn, net) /\ JInv(pair, conn, net)
  BY DEF IInv, DecisionInv
<1>2. IsConn(b) /\ b.flight \in 0 .. 6
  <2>1. b.flight \in IF s = "client" THEN {1, 3, 5} ELSE {0, 2, 4, 6}
    BY <1>1 DEF Inv, Side, Typed
  <2>2. IsConn(b)
    BY <1>1 DEF Inv, Side, Typed
  <2>3. b.flight \in {1, 3, 5} \/ b.flight \in {0, 2, 4, 6}
    BY <2>1
  <2> HIDE DEF b
  <2> QED
    BY <2>2, <2>3
<1>3. /\ b.fsm = "preparing" /\ pair' = pair
      /\ conn' = [conn EXCEPT ![s] = o.conn]
      /\ net' \in IF o.alert THEN {net, net \cup {AlertDatagram(o.conn)}} ELSE {net}
  BY DEF Prepare, Becomes
<1>4. CASE b.flight \in {4, 5} /\ g = Fail(b)
  <2>1. c = Failing(b) /\ c.fsm = "failed"
    <3>1. g = Fail(b)
      BY <1>4
    <3> HIDE DEF b, g
    <3>2. c = Failing(b)
      BY <3>1 DEF Fail, Failing
    <3>3. Failing(b) = [b EXCEPT !.fsm = "failed", !.reader = "gone"]
      BY DEF Failing, Fail
    <3>4. Failing(b).fsm = "failed"
      BY <1>2, <3>3, FieldNames DEF IsConn
    <3> QED
      BY <3>2, <3>4
  <2>2. o.conn = c
    BY <2>1
  <2>3. ~Fit(pair)
    BY <1>1, <1>3, <1>4, NoFlightNoFit
  <2> HIDE DEF o, c, g
  <2>4. conn' = [conn EXCEPT ![s] = c]
    BY <1>3, <2>2
  <2>5. JInv(pair, [conn EXCEPT ![s] = c], net')
    BY <1>1, <2>1, <2>3, FailedDecides
  <2> QED
    BY <1>3, <2>4, <2>5 DEF DecisionInv
<1>5. CASE g = [conn |-> g.conn, alert |-> FALSE] /\ g.conn.fsm = "sending"
  <2>1. o.conn = WithNumbers(c) /\ o.alert = FALSE
    <3> HIDE DEF g
    <3> QED
      BY <1>5 DEF WithNumbers
  <2>2. g # Fail(b)
    <3>1. g.alert = FALSE /\ Fail(b).alert = TRUE
      BY <1>5 DEF Fail
    <3> QED
      BY <3>1
  <2> HIDE DEF o, c, g
  <2>3. conn' = [conn EXCEPT ![s] = WithNumbers(c)] /\ net' = net
    BY <1>3, <2>1
  <2>4. JInv(pair, [conn EXCEPT ![s] = WithNumbers(c)], net)
    BY <1>1, <1>3, <2>2, GenerateDecides DEF g, c
  <2> QED
    BY <1>3, <2>3, <2>4 DEF DecisionInv
<1> QED
  <2> HIDE DEF b, g, o, records
  <2>1. g = Generate(b)
    BY DEF g
  <2> QED
    BY <1>2, <1>4, <1>5, <2>1, Generates

\* Sending it.
LEMMA SendKeepsDecision ==
  ASSUME IInv, DecisionInv, NEW s \in Sides, NEW lost, Send(s, lost)
  PROVE  DecisionInv'
<1> DEFINE d == AfterSend(conn[s])
<1>1. /\ Inv(pair, conn, net) /\ JInv(pair, conn, net)
      /\ conn = [x \in Sides |-> conn[x]] /\ IsConn(conn[s])
  BY DEF IInv, DecisionInv, Inv, Side, Typed
<1>2. conn[s].fsm = "sending" /\ pair' = pair /\ net' \subseteq net \cup Datagrams(conn[s], pair.size)
  BY DEF Send
<1>3. conn' = [conn EXCEPT ![s] = d]
  <2>1. conn' = [conn EXCEPT ![s].cache = PushAll(@, Messages(conn[s].packets)),
                             ![s].fsm = IF IsLastSendFlight(conn[s]) THEN "finished" ELSE "waiting",
                             ![s].rendezvous = @ /\ ~IsLastSendFlight(conn[s])]
    BY DEF Send
  <2> DEFINE A == PushAll(conn[s].cache, Messages(conn[s].packets))
             last == IsLastSendFlight(conn[s])
  <2>2. conn' = [conn EXCEPT ![s] = [conn[s] EXCEPT !.cache = A,
                                                    !.fsm = IF last THEN "finished" ELSE "waiting",
                                                    !.rendezvous = @ /\ ~last]]
    <3> HIDE DEF A, last
    <3> QED
      BY <1>1, <2>1 DEF A, last
  <2> QED
    BY <2>2 DEF AfterSend
<1>4. JInv(pair, [conn EXCEPT ![s] = d], net')
  BY <1>1, <1>2, SendDecides
<1> QED
  BY <1>2, <1>3, <1>4 DEF DecisionInv

\* Parsing what has come.
LEMMA RendezvousKeepsDecision ==
  ASSUME IInv, DecisionInv, NEW s \in Sides, Rendezvous(s)
  PROVE  DecisionInv'
<1> DEFINE o == Parse([conn[s] EXCEPT !.rendezvous = FALSE])
<1>1. Inv(pair, conn, net) /\ JInv(pair, conn, net)
  BY DEF IInv, DecisionInv
<1>2. /\ conn[s].fsm = "waiting" /\ conn[s].rendezvous /\ pair' = pair
      /\ conn' = [conn EXCEPT ![s] = o.conn]
      /\ net' \in IF o.alert THEN {net, net \cup {AlertDatagram(o.conn)}} ELSE {net}
  BY DEF Rendezvous, Becomes
<1>3. o.alert = FALSE => net' = net
  BY <1>2
<1>4. o = Parse([conn[s] EXCEPT !.rendezvous = FALSE])
  OBVIOUS
<1> HIDE DEF o
<1>5. JInv(pair, [conn EXCEPT ![s] = o.conn], net')
  BY <1>1, <1>2, <1>3, <1>4, LookDecides
<1> QED
  BY <1>2, <1>5 DEF DecisionInv

\* Reading a datagram.
LEMMA ReadKeepsDecision ==
  ASSUME IInv, DecisionInv, NEW s \in Sides, NEW d \in net, Read(s, d)
  PROVE  DecisionInv'
<1>1. Inv(pair, conn, net) /\ JInv(pair, conn, net)
  BY DEF IInv, DecisionInv
<1>2. PICK x \in ReadAll(conn[s], d.records, TRUE) :
        /\ conn' = [conn EXCEPT ![s] =
                      [x.conn EXCEPT
                         !.reader = IF x.alert THEN "gone" ELSE @,
                         !.rendezvous = x.handshake /\ ~x.alert /\ ~Completed(x.conn)]]
        /\ \/ net' = net \ {d}
           \/ x.alert /\ net' = (net \ {d}) \cup {AlertDatagram(x.conn)}
  BY DEF Read
<1>3. d.to = s /\ pair' = pair
  BY DEF Read
<1>4. conn' = [conn EXCEPT ![s] = AfterRead(x)]
  BY <1>2 DEF AfterRead
<1>5. \A y \in net' : y \in net \/ x.alert
  BY <1>2
<1>6. JInv(pair, [conn EXCEPT ![s] = AfterRead(x)], net')
  BY <1>1, <1>2, <1>3, <1>5, ReadDecides
<1> QED
  BY <1>3, <1>4, <1>6 DEF DecisionInv

\* The end of a wait, by the timer or because the reader has gone.
LEMMA WaitKeepsDecision ==
  ASSUME IInv, DecisionInv, NEW s \in Sides, Retransmit(s) \/ ReaderGone(s)
  PROVE  DecisionInv'
<1>1. Inv(pair, conn, net) /\ JInv(pair, conn, net)
  BY DEF IInv, DecisionInv
<1>2. PICK fsm \in {"sending", "failed"} :
        /\ fsm = "failed" => conn[s].reader = "gone"
        /\ conn' = [conn EXCEPT ![s].fsm = fsm]
        /\ pair' = pair /\ net' = net
  BY DEF Retransmit, ReaderGone
<1>3. JInv(pair, [conn EXCEPT ![s].fsm = fsm], net)
  BY <1>1, <1>2, WaitDecides
<1> QED
  BY <1>2, <1>3 DEF DecisionInv

\* Whatever is lost, repeated or read in another order, what a side has found out holds.
LEMMA DecisionKeeps == IInv /\ DecisionInv /\ [Next]_vars => DecisionInv'
<1> SUFFICES ASSUME IInv, DecisionInv, [Next]_vars PROVE DecisionInv'
  OBVIOUS
<1>1. CASE UNCHANGED vars
  BY <1>1 DEF vars, DecisionInv
<1>2. ASSUME NEW s \in Sides, Prepare(s) PROVE DecisionInv'
  BY <1>2, PrepareDecides
<1>3. ASSUME NEW s \in Sides, NEW lost, Send(s, lost) PROVE DecisionInv'
  BY <1>3, SendKeepsDecision
<1>4. ASSUME NEW s \in Sides, Rendezvous(s) PROVE DecisionInv'
  BY <1>4, RendezvousKeepsDecision
<1>5. ASSUME NEW s \in Sides, Retransmit(s) \/ ReaderGone(s) PROVE DecisionInv'
  BY <1>5, WaitKeepsDecision
<1>6. ASSUME NEW s \in Sides, NEW d \in net, Read(s, d) PROVE DecisionInv'
  BY <1>6, ReadKeepsDecision
<1> QED
  BY <1>1, <1>2, <1>3, <1>4, <1>5, <1>6 DEF Next

\* Whatever is lost or reordered, only the two configurations decide: a side fails only
\* where they do not fit, and one that finishes has a peer that fits (parse and generate
\* of all flights, handle_incoming_packet, prepare and wait of handshaker.rs).
THEOREM ConfigsDecide == Spec => []OnlyConfigsDecide
<1>1. Init => DecisionInv
  BY DecisionBegins
<1>2. IInv /\ DecisionInv /\ [Next]_vars => DecisionInv'
  BY DecisionKeeps
<1>3. IInv /\ DecisionInv => OnlyConfigsDecide
  BY DecisionFollows
<1> QED
  BY <1>1, <1>2, <1>3, HandshakeInvariant, PTL DEF Spec
================================================================================
