--------------------------- MODULE Signaling_proofs ---------------------------
(***************************************************************************)
(* For any number of sessions and candidates: the types of both sides, and *)
(* that no ICE candidate of a live session is lost on its way and no       *)
(* answer is taken for another session's, as long as no handler of the     *)
(* player outlives its session (HandlersAreOwn).                           *)
(***************************************************************************)
EXTENDS Signaling, TLAPS

-----------------------------------------------------------------------------
(* Types *)

\* What the gateway sends, and what its peer task tells handle_signaling.
FromServer ==
    [type : {"ice_candidate"}, id : 1 .. ServerCandidates]
      \cup [type : {"connected", "sdp_offer", "error", "established", "failed"},
            id : {0} \cup Session]

\* What the player sends, and what becomes of it for the peer task.
LocalCandidate == [type : {"ice_candidate"}, id : 1 .. BrowserCandidates]
FromBrowser ==
    LocalCandidate \cup [type : {"sdp_answer", "request_stream", "close"}, id : {0} \cup Session]

\* The types of TypeOK, and of what the queues hold.
WireTypes ==
    /\ socket \in [Session -> SocketStates]
    /\ to_server \in [Session -> Seq(FromBrowser)]
    /\ to_browser \in [Session -> Seq(FromServer)]

PlayerTypes ==
    /\ PlayerTypeOK
    /\ queue \in [Session -> Seq(FromServer)]
    /\ flushing \in [Session -> Seq(RemoteCandidate)]
    /\ pendingCandidates \in Seq(RemoteCandidate)
    /\ pendingLocalCandidates \in Seq(LocalCandidate)

ServerTypes ==
    /\ ServerTypeOK
    /\ commands \in [Session -> Seq(FromBrowser)]
    /\ events \in [Session -> Seq(FromServer)]

Types == WireTypes /\ PlayerTypes /\ ServerTypes

-----------------------------------------------------------------------------
(* Sequences *)

\* The empty queue has every type.
LEMMA Empty == \A S : <<>> \in Seq(S)
OBVIOUS

\* A queue of some messages is a queue of more messages.
LEMMA Wider ==
  ASSUME NEW S, NEW T, S \subseteq T, NEW q \in Seq(S) PROVE q \in Seq(T)
OBVIOUS

\* Queues, one for each session, keep their types: taking the first element,
LEMMA Dequeued ==
  ASSUME NEW S, NEW f \in [Session -> Seq(S)], NEW s \in Session, f[s] # <<>>
  PROVE  Head(f[s]) \in S /\ [f EXCEPT ![s] = Tail(@)] \in [Session -> Seq(S)]
<1>1. Head(f[s]) \in S /\ Tail(f[s]) \in Seq(S) OBVIOUS
<1> QED BY <1>1

\* appending to one queue,
LEMMA Appended ==
  ASSUME NEW S, NEW q \in Seq(S), NEW m \in S PROVE Append(q, m) \in Seq(S)
OBVIOUS

\* and appending to the queue of a session.
LEMMA Enqueued ==
  ASSUME NEW S, NEW f \in [Session -> Seq(S)], NEW s \in Session, NEW m \in S
  PROVE  [f EXCEPT ![s] = Append(@, m)] \in [Session -> Seq(S)]
<1>1. Append(f[s], m) \in Seq(S) OBVIOUS
<1> QED BY <1>1

\* Likewise a set for each session, when an element joins it.
LEMMA Included ==
  ASSUME NEW I, NEW S, NEW f \in [I -> SUBSET S], NEW i \in I, NEW c \in S
  PROVE  [f EXCEPT ![i] = @ \cup {c}] \in [I -> SUBSET S]
<1>1. f[i] \cup {c} \in SUBSET S OBVIOUS
<1> QED BY <1>1

\* What CandidatesIn collects.
LEMMA InQueue ==
  ASSUME NEW S, NEW q \in Seq(S), NEW x
  PROVE  x \in CandidatesIn(q) <=>
           \E j \in 1 .. Len(q) : q[j].type = "ice_candidate" /\ q[j].id = x
BY DEF CandidatesIn

\* It follows a queue that grows,
LEMMA CandidatesAppend ==
  ASSUME NEW S, NEW q \in Seq(S), NEW m \in S
  PROVE  /\ m.type = "ice_candidate" =>
               CandidatesIn(Append(q, m)) = CandidatesIn(q) \cup {m.id}
         /\ m.type # "ice_candidate" => CandidatesIn(Append(q, m)) = CandidatesIn(q)
<1> DEFINE p == Append(q, m)
<1>1. p \in Seq(S) /\ Len(p) = Len(q) + 1 /\ p[Len(q) + 1] = m
      /\ \A j \in 1 .. Len(q) : p[j] = q[j]
  OBVIOUS
<1>2. ASSUME NEW x
      PROVE  x \in CandidatesIn(p) <=>
               x \in CandidatesIn(q) \/ (m.type = "ice_candidate" /\ x = m.id)
  <2>1. Len(q) \in Nat OBVIOUS
  <2> HIDE DEF p
  <2> QED BY <1>1, <2>1, InQueue
<1> QED
  BY <1>2

\* loses its first message,
LEMMA CandidatesTail ==
  ASSUME NEW S, NEW q \in Seq(S), q # <<>>
  PROVE  /\ Head(q).type = "ice_candidate" =>
               CandidatesIn(q) = CandidatesIn(Tail(q)) \cup {Head(q).id}
         /\ Head(q).type # "ice_candidate" => CandidatesIn(q) = CandidatesIn(Tail(q))
<1> DEFINE t == Tail(q)
           h == Head(q)
<1>1. /\ t \in Seq(S) /\ Len(q) \in Nat \ {0} /\ Len(t) = Len(q) - 1 /\ q[1] = h
      /\ \A j \in 1 .. Len(t) : t[j] = q[j + 1]
  OBVIOUS
<1>2. ASSUME NEW x
      PROVE  x \in CandidatesIn(q) <=>
               x \in CandidatesIn(t) \/ (h.type = "ice_candidate" /\ x = h.id)
  <2> HIDE DEF t, h
  <2>1. ASSUME NEW j \in 1 .. Len(q) PROVE j = 1 \/ (j - 1 \in 1 .. Len(t) /\ q[j] = t[j - 1])
     BY <1>1
  <2>2. ASSUME NEW j \in 1 .. Len(t) PROVE j + 1 \in 1 .. Len(q) /\ q[j + 1] = t[j]
     BY <1>1
  <2>3. 1 \in 1 .. Len(q) BY <1>1
  <2>4. ASSUME x \in CandidatesIn(q)
        PROVE  x \in CandidatesIn(t) \/ (h.type = "ice_candidate" /\ x = h.id)
    <3>1. PICK j \in 1 .. Len(q) : q[j].type = "ice_candidate" /\ q[j].id = x
      BY <2>4, InQueue
    <3> QED BY <3>1, <2>1, <1>1, InQueue
  <2>5. ASSUME x \in CandidatesIn(t) PROVE x \in CandidatesIn(q)
    <3>1. PICK j \in 1 .. Len(t) : t[j].type = "ice_candidate" /\ t[j].id = x
      BY <2>5, <1>1, InQueue
    <3> QED BY <3>1, <2>2, InQueue
  <2>6. ASSUME h.type = "ice_candidate", x = h.id PROVE x \in CandidatesIn(q)
    BY <2>6, <2>3, <1>1, InQueue
  <2> QED BY <2>4, <2>5, <2>6
<1> QED
  BY <1>2

\* or takes in another.
LEMMA CandidatesConcat ==
  ASSUME NEW S, NEW q \in Seq(S), NEW p \in Seq(S)
  PROVE CandidatesIn(q \o p) = CandidatesIn(q) \cup CandidatesIn(p)
<1> DEFINE c == q \o p
<1>1. /\ c \in Seq(S) /\ Len(q) \in Nat /\ Len(p) \in Nat /\ Len(c) = Len(q) + Len(p)
      /\ \A j \in 1 .. Len(q) : c[j] = q[j]
      /\ \A j \in 1 .. Len(p) : c[Len(q) + j] = p[j]
  OBVIOUS
<1>2. ASSUME NEW x
      PROVE x \in CandidatesIn(c) <=> x \in CandidatesIn(q) \/ x \in CandidatesIn(p)
  <2> HIDE DEF c
  <2>1. ASSUME NEW j \in 1 .. Len(c)
        PROVE (j \in 1 .. Len(q) /\ c[j] = q[j]) \/ (j - Len(q) \in 1 .. Len(p) /\ c[j] = p[j - Len(q)])
     BY <1>1
  <2>2. ASSUME NEW j \in 1 .. Len(q) PROVE j \in 1 .. Len(c) /\ c[j] = q[j]
     BY <1>1
  <2>3. ASSUME NEW j \in 1 .. Len(p) PROVE Len(q) + j \in 1 .. Len(c) /\ c[Len(q) + j] = p[j]
     BY <1>1
  <2>4. ASSUME x \in CandidatesIn(c)
        PROVE  x \in CandidatesIn(q) \/ x \in CandidatesIn(p)
    <3>1. PICK j \in 1 .. Len(c) : c[j].type = "ice_candidate" /\ c[j].id = x
      BY <2>4, <1>1, InQueue
    <3> QED BY <3>1, <2>1, InQueue
  <2>5. ASSUME x \in CandidatesIn(q) PROVE x \in CandidatesIn(c)
    <3>1. PICK j \in 1 .. Len(q) : q[j].type = "ice_candidate" /\ q[j].id = x
      BY <2>5, InQueue
    <3> QED BY <3>1, <2>2, <1>1, InQueue
  <2>6. ASSUME x \in CandidatesIn(p) PROVE x \in CandidatesIn(c)
    <3>1. PICK j \in 1 .. Len(p) : p[j].type = "ice_candidate" /\ p[j].id = x
      BY <2>6, InQueue
    <3> QED BY <3>1, <2>3, <1>1, InQueue
  <2> QED BY <2>4, <2>5, <2>6
<1> QED
  BY <1>2

\* The same of a queue's elements.
LEMMA ToSetTail ==
  ASSUME NEW S, NEW q \in Seq(S), q # <<>>
  PROVE ToSet(q) = ToSet(Tail(q)) \cup {Head(q)}
<1> DEFINE t == Tail(q)
           h == Head(q)
<1>1. /\ t \in Seq(S) /\ Len(q) \in Nat \ {0} /\ Len(t) = Len(q) - 1 /\ q[1] = h
      /\ \A j \in 1 .. Len(t) : t[j] = q[j + 1]
      /\ DOMAIN q = 1 .. Len(q) /\ DOMAIN t = 1 .. Len(t)
  OBVIOUS
<1>2. ASSUME NEW x
      PROVE x \in ToSet(q) <=> x \in ToSet(t) \/ x = h
  <2> HIDE DEF t, h
  <2>1. ASSUME NEW j \in 1 .. Len(q) PROVE j = 1 \/ (j - 1 \in 1 .. Len(t) /\ q[j] = t[j - 1])
     BY <1>1
  <2>2. ASSUME NEW j \in 1 .. Len(t) PROVE j + 1 \in 1 .. Len(q) /\ q[j + 1] = t[j]
     BY <1>1
  <2>3. 1 \in 1 .. Len(q) BY <1>1
  <2>4. ASSUME x \in ToSet(q)
        PROVE  x \in ToSet(t) \/ x = h
    <3>1. PICK j \in 1 .. Len(q) : q[j] = x
      BY <2>4, <1>1 DEF ToSet
    <3> QED BY <3>1, <2>1, <1>1 DEF ToSet
  <2>5. ASSUME x \in ToSet(t) PROVE x \in ToSet(q)
    <3>1. PICK j \in 1 .. Len(t) : t[j] = x
      BY <2>5, <1>1 DEF ToSet
    <3> QED BY <3>1, <2>2, <1>1 DEF ToSet
  <2>6. h \in ToSet(q)
    BY <2>3, <1>1 DEF ToSet
  <2> QED BY <2>4, <2>5, <2>6
<1> QED
  BY <1>2

\* The elements of a sequence that grows.
LEMMA ToSetAppend ==
  ASSUME NEW S, NEW q \in Seq(S), NEW m \in S
  PROVE ToSet(Append(q,m)) = ToSet(q) \cup {m}
<1> DEFINE p == Append(q, m)
<1>1. p \in Seq(S) /\ Len(p) = Len(q) + 1 /\ p[Len(q) + 1] = m
      /\ \A j \in 1 .. Len(q) : p[j] = q[j]
      /\ DOMAIN q = 1 .. Len(q) /\ DOMAIN p = 1 .. Len(p)
  OBVIOUS
<1>2. ASSUME NEW x
      PROVE x \in ToSet(p) <=> x \in ToSet(q) \/ x = m
  <2>1. Len(q) \in Nat OBVIOUS
  <2> HIDE DEF p
  <2> QED BY <1>1, <2>1 DEF ToSet
<1> QED
  BY <1>2

\* Domain and elements of the sequences that the steps build.
LEMMA AppendIs ==
  ASSUME NEW S, NEW q \in Seq(S), NEW m \in S
  PROVE  /\ Append(q, m) \in Seq(S) /\ Len(q) \in Nat
         /\ DOMAIN q = 1 .. Len(q) /\ DOMAIN Append(q, m) = 1 .. Len(q) + 1
         /\ Append(q, m)[Len(q) + 1] = m
         /\ \A j \in 1 .. Len(q) : Append(q, m)[j] = q[j]
OBVIOUS

\* The elements of a tail.
LEMMA TailIs ==
  ASSUME NEW S, NEW q \in Seq(S), q # <<>>
  PROVE  /\ Tail(q) \in Seq(S) /\ Len(q) \in Nat \ {0} /\ Head(q) = q[1] /\ Head(q) \in S
         /\ DOMAIN q = 1 .. Len(q) /\ DOMAIN Tail(q) = 1 .. Len(q) - 1
         /\ \A j \in 1 .. Len(q) - 1 : Tail(q)[j] = q[j + 1]
OBVIOUS

\* An element at the end leaves the first one alone.
LEMMA AppendHead ==
  ASSUME NEW S, NEW q \in Seq(S), NEW m \in S
  PROVE  /\ Append(q, m) # <<>>
         /\ q # <<>> => Head(Append(q, m)) = Head(q)
         /\ q = <<>> => Head(Append(q, m)) = m
<1> DEFINE p == Append(q, m)
<1>1. p \in Seq(S) /\ Len(p) = Len(q) + 1 /\ Len(q) \in Nat
  OBVIOUS
<1>2. ASSUME q # <<>> PROVE p[1] = q[1]
  <2>1. 1 \in 1 .. Len(q)
    BY <1>2, TailIs
  <2> QED
    BY <2>1, AppendIs
<1>5. ASSUME q = <<>> PROVE p[1] = m
  BY <1>5
<1>3. p # <<>>
  <2> HIDE DEF p
  <2> QED
    BY <1>1
<1>4. Head(p) = p[1] /\ (q # <<>> => Head(q) = q[1])
  <2>1. Head(p) = p[1]
    BY <1>1, <1>3, TailIs
  <2>2. q # <<>> => Head(q) = q[1]
    BY TailIs
  <2> QED
    BY <2>1, <2>2
<1> QED
  BY <1>2, <1>3, <1>4, <1>5

\* The elements of two sequences joined.
LEMMA ConcatIs ==
  ASSUME NEW S, NEW q \in Seq(S), NEW p \in Seq(S)
  PROVE  /\ q \o p \in Seq(S) /\ Len(q) \in Nat /\ Len(p) \in Nat
         /\ DOMAIN q = 1 .. Len(q) /\ DOMAIN p = 1 .. Len(p)
         /\ DOMAIN (q \o p) = 1 .. Len(q) + Len(p)
         /\ \A j \in 1 .. Len(q) : (q \o p)[j] = q[j]
         /\ \A j \in 1 .. Len(p) : (q \o p)[Len(q) + j] = p[j]
OBVIOUS

-----------------------------------------------------------------------------
(* Every step keeps the types *)

\* The initial state is typed.
LEMMA InitTypes == Init => Types
<1> SUFFICES ASSUME Init PROVE Types
  OBVIOUS
<1>1. WireTypes
  BY DEF Init, WiresInit, WireTypes, SocketStates
<1>2. /\ gathered \in [Session -> 0 .. BrowserCandidates]
      /\ offered \in [Session -> 0 .. ServerCandidates]
  BY WireBounds DEF Init, PlayerInit, ServerInit
<1>3. /\ added \in [Session -> SUBSET RemoteCandidate]
      /\ accepted \in [Session -> SUBSET (1 .. BrowserCandidates)]
  BY DEF Init, PlayerInit, ServerInit
<1>4. PlayerTypes
  BY <1>2, <1>3, Empty DEF Init, PlayerInit, PlayerTypes, PlayerTypeOK
<1>5. ServerTypes
  BY <1>2, <1>3 DEF Init, ServerInit, ServerTypes, ServerTypeOK, MainStates, ConnStates
<1> QED
  BY <1>1, <1>4, <1>5 DEF Types

\* Every message that a step sends has its place in the types.
LEMMA MessageTypes ==
  /\ \A i \in 1 .. ServerCandidates : Message("ice_candidate", i) \in FromServer
  /\ \A i \in 1 .. BrowserCandidates :
       Message("ice_candidate", i) \in LocalCandidate \cap FromBrowser
  /\ \A t \in {"connected", "error", "established", "failed"} : Message(t, 0) \in FromServer
  /\ \A s \in Session : Message("sdp_offer", s) \in FromServer
  /\ \A t \in {"request_stream", "close"} : Message(t, 0) \in FromBrowser
  /\ \A s \in {0} \cup Session : Message("sdp_answer", s) \in FromBrowser
BY DEF FromServer, FromBrowser, LocalCandidate, Message

\* A candidate's number, and an answer's session, are in range.
LEMMA CandidateNumber ==
  /\ \A m \in FromServer : m.type = "ice_candidate" => m.id \in 1 .. ServerCandidates
  /\ \A m \in FromBrowser : m.type = "ice_candidate" => m.id \in 1 .. BrowserCandidates
  /\ \A m \in FromBrowser : m.type = "sdp_answer" => m.id \in {0} \cup Session
BY DEF FromServer, FromBrowser, LocalCandidate

\* What a step leaves alone keeps its type.
LEMMA SameWires == ASSUME WireTypes, UNCHANGED wires PROVE WireTypes'
BY DEF WireTypes, wires

\* What the player is made of stays while it does nothing.
LEMMA SamePlayer == ASSUME PlayerTypes, UNCHANGED player PROVE PlayerTypes'
BY DEF PlayerTypes, PlayerTypeOK, player, fields, handlers, rtcs

\* The same of the server.
LEMMA SameServer == ASSUME ServerTypes, UNCHANGED server PROVE ServerTypes'
BY DEF ServerTypes, ServerTypeOK, server, tasks, channels, connection

\* The same of everything.
LEMMA SameTypes == ASSUME Types, UNCHANGED vars PROVE Types'
BY SameWires, SamePlayer, SameServer DEF Types, vars

\* play and stop keep the types.
LEMMA UserTypes == ASSUME Types, UserStep PROVE WireTypes' /\ PlayerTypes'
<1> USE DEF Types
<1>1. rtc' \in [Session -> {"none", "new", "answering", "connected", "failed", "closed"}]
      /\ closing' \subseteq Session
  BY DEF PlayerTypes, PlayerTypeOK, UserStep, Play, Stop, CloseConnection
<1>2. socket' \in [Session -> SocketStates]
  <2>1. CASE Stop
    BY <2>1 DEF WireTypes, SocketStates, Stop
  <2>2. ASSUME NEW s \in Session, Play(s) PROVE socket' \in [Session -> SocketStates]
    BY <2>2 DEF WireTypes, SocketStates, Play
  <2> QED
    BY <2>1, <2>2 DEF UserStep
<1>3. /\ UNCHANGED <<handlers, offer, added, gathered, to_server, to_browser>>
      /\ ResetFlags
      /\ ws' \in {0} \cup Session /\ pc' = 0 /\ state' \in {"idle", "connecting"}
  BY DEF UserStep, Play, Stop
<1>4. WireTypes'
  BY <1>2, <1>3 DEF WireTypes
<1>5. PlayerTypes'
  BY <1>1, <1>3, Empty DEF PlayerTypes, PlayerTypeOK, ResetFlags, handlers
<1> QED
  BY <1>4, <1>5

\* So does every step of the player's handlers,
LEMMA HandlerTypes ==
  ASSUME Types, NEW s \in Session, HandlerStep(s)
  PROVE  WireTypes' /\ PlayerTypes'
<1> USE DEF Types
<1>1. CASE OnOpen(s)
  <2>1. UNCHANGED player /\ to_browser' = to_browser
    BY <1>1 DEF OnOpen
  <2>2. socket' \in [Session -> SocketStates]
    BY <1>1 DEF OnOpen, WireTypes, SocketStates
  <2>3. to_server' \in [Session -> Seq(FromBrowser)]
    BY <1>1, Enqueued, MessageTypes DEF OnOpen, WireTypes
  <2> QED
    BY <2>1, <2>2, <2>3, SamePlayer DEF WireTypes
<1>2. CASE OnClose(s)
  BY <1>2, SameWires DEF OnClose, PlayerTypes, PlayerTypeOK, handlers, rtcs
<1>3. CASE OnMessage(s)
  <2>1. /\ to_browser' \in [Session -> Seq(FromServer)]
        /\ Head(to_browser[s]) \in FromServer
    BY <1>3, Dequeued DEF OnMessage, WireTypes
  <2>2. queue' \in [Session -> Seq(FromServer)]
    BY <1>3, <2>1, Enqueued DEF OnMessage, PlayerTypes
  <2> QED
    BY <1>3, <2>1, <2>2 DEF OnMessage, WireTypes, PlayerTypes, PlayerTypeOK, fields, rtcs
<1>4. ASSUME NEW t, Takes(s, t)
      PROVE  Head(queue[s]) \in FromServer /\ queue' \in [Session -> Seq(FromServer)]
  BY <1>4, Dequeued DEF Takes, PlayerTypes
<1>5. CASE HandleConnected(s)
  BY <1>4, <1>5, Empty, SameWires DEF HandleConnected, ResetFlags, PlayerTypes, PlayerTypeOK
<1>6. CASE HandleError(s)
  BY <1>4, <1>6, SameWires DEF HandleError, PlayerTypes, PlayerTypeOK, fields, rtcs
<1>7. ASSUME NEW c \in RemoteCandidate
      PROVE  pc # 0 /\ offer[pc] # 0 =>
               [added EXCEPT ![pc] = @ \cup {c}] \in [Session -> SUBSET RemoteCandidate]
  BY <1>7, Included DEF PlayerTypes, PlayerTypeOK
<1>8. CASE HandleCandidate(s)
  <2> DEFINE c == <<s, Head(queue[s]).id>>
  <2>1. c \in RemoteCandidate /\ queue' \in [Session -> Seq(FromServer)]
    BY <1>4, <1>8, CandidateNumber DEF HandleCandidate, Takes, RemoteCandidate
  <2>2. added' \in [Session -> SUBSET RemoteCandidate]
    <3>1. \/ added' = added
          \/ pc # 0 /\ offer[pc] # 0 /\ added' = [added EXCEPT ![pc] = @ \cup {c}]
      BY <1>8 DEF HandleCandidate
    <3>2. added \in [Session -> SUBSET RemoteCandidate]
      BY DEF PlayerTypes, PlayerTypeOK
    <3> QED
      BY <1>7, <2>1, <3>1, <3>2
  <2>3. pendingCandidates' \in Seq(RemoteCandidate)
    <3>1. \/ pendingCandidates' = pendingCandidates
          \/ pendingCandidates' = Append(pendingCandidates, c)
      BY <1>8 DEF HandleCandidate
    <3>2. pendingCandidates \in Seq(RemoteCandidate)
      BY DEF PlayerTypes
    <3> QED
      BY <2>1, <3>1, <3>2, Appended
  <2> QED
    BY <1>8, <2>1, <2>2, <2>3, SameWires DEF HandleCandidate, PlayerTypes, PlayerTypeOK
<1>9. CASE HandleOffer(s)
  BY <1>4, <1>9, SameWires DEF HandleOffer, PlayerTypes, PlayerTypeOK, fields, rtcs
<1>10. CASE RemoteDescriptionSet(s)
  BY <1>10, SameWires DEF RemoteDescriptionSet, PlayerTypes, PlayerTypeOK, fields
<1>11. CASE LocalDescriptionSet(s)
  BY <1>11, SameWires DEF LocalDescriptionSet, PlayerTypes, PlayerTypeOK, fields
<1>12. CASE WaitThrows(s)
  BY <1>12, SameWires DEF WaitThrows, PlayerTypes, PlayerTypeOK, fields, rtcs
<1>13. CASE SendAnswer(s)
  <2>1. Message("sdp_answer", AnswerOf(s)) \in FromBrowser
    BY MessageTypes DEF AnswerOf, PlayerTypes, PlayerTypeOK
  <2>2. pendingLocalCandidates \in Seq(FromBrowser)
    BY Wider DEF PlayerTypes, FromBrowser
  <2>3. to_server' \in [Session -> Seq(FromBrowser)]
    <3>1. ASSUME NEW q \in Seq(FromBrowser)
          PROVE  Append(q, Message("sdp_answer", AnswerOf(s))) \o pendingLocalCandidates \in Seq(FromBrowser)
      BY <2>1, <2>2
    <3> QED
      BY <1>13, <3>1 DEF SendAnswer, WireTypes, PlayerTypes, PlayerTypeOK
  <2>4. pendingLocalCandidates' \in Seq(LocalCandidate)
    BY <1>13 DEF SendAnswer, PlayerTypes
  <2>5. flushing' \in [Session -> Seq(RemoteCandidate)]
    BY <1>13 DEF SendAnswer, PlayerTypes
  <2> QED
    BY <1>13, <2>3, <2>4, <2>5 DEF SendAnswer, WireTypes, PlayerTypes, PlayerTypeOK, rtcs
<1>14. CASE FlushCandidate(s)
  <2>1. Head(flushing[s]) \in RemoteCandidate /\ flushing' \in [Session -> Seq(RemoteCandidate)]
    BY <1>14, Dequeued DEF FlushCandidate, PlayerTypes
  <2>2. added' \in [Session -> SUBSET RemoteCandidate]
    BY <1>7, <1>14, <2>1 DEF FlushCandidate, PlayerTypes, PlayerTypeOK
  <2> QED
    BY <1>14, <2>1, <2>2, SameWires DEF FlushCandidate, PlayerTypes, PlayerTypeOK, fields
<1>15. CASE FlushEnds(s)
  BY <1>15, SameWires DEF FlushEnds, PlayerTypes, PlayerTypeOK, rtcs
<1>16. CASE OnIceCandidate(s)
  <2> DEFINE m == Message("ice_candidate", gathered[s] + 1)
  <2>1. gathered[s] \in 0 .. BrowserCandidates /\ gathered[s] < BrowserCandidates
    BY <1>16 DEF OnIceCandidate, PlayerTypes, PlayerTypeOK
  <2>2. gathered[s] + 1 \in 1 .. BrowserCandidates
    BY <2>1, WireBounds
  <2>3. m \in LocalCandidate /\ m \in FromBrowser
    BY <2>2, MessageTypes
  <2>4. gathered' \in [Session -> 0 .. BrowserCandidates]
    BY <1>16, <2>2 DEF OnIceCandidate, PlayerTypes, PlayerTypeOK
  <2>5. \/ /\ ws \in Session /\ to_server' = [to_server EXCEPT ![ws] = Append(@, m)]
           /\ pendingLocalCandidates' = pendingLocalCandidates
        \/ /\ to_server' = to_server
           /\ pendingLocalCandidates' = Append(pendingLocalCandidates, m)
    BY <1>16 DEF OnIceCandidate, PlayerTypes, PlayerTypeOK
  <2>6. /\ to_server \in [Session -> Seq(FromBrowser)]
        /\ pendingLocalCandidates \in Seq(LocalCandidate)
    BY DEF WireTypes, PlayerTypes
  <2> HIDE DEF m
  <2>7. /\ to_server' \in [Session -> Seq(FromBrowser)]
        /\ pendingLocalCandidates' \in Seq(LocalCandidate)
    <3>1. ws \in Session => [to_server EXCEPT ![ws] = Append(@, m)] \in [Session -> Seq(FromBrowser)]
      BY <2>3, <2>6, Enqueued
    <3>2. Append(pendingLocalCandidates, m) \in Seq(LocalCandidate)
      BY <2>3, <2>6, Appended
    <3> QED
      BY <2>5, <2>6, <3>1, <3>2
  <2> QED
    BY <1>16, <2>4, <2>7 DEF OnIceCandidate, WireTypes, PlayerTypes, PlayerTypeOK, handlers
<1> QED
  BY <1>1, <1>2, <1>3, <1>5, <1>6, <1>8, <1>9, <1>10, <1>11, <1>12, <1>13, <1>14, <1>15, <1>16
     DEF HandlerStep

\* Sending and emitting keep the types of the queues.
LEMMA SendTypes ==
  ASSUME Types, NEW s \in Session, NEW m \in FromServer
  PROVE  /\ Send(s, m) => to_browser' \in [Session -> Seq(FromServer)]
         /\ Emit(s, m) => events' \in [Session -> Seq(FromServer)]
<1>1. [to_browser EXCEPT ![s] = Append(@, m)] \in [Session -> Seq(FromServer)]
  BY Enqueued DEF Types, WireTypes
<1>2. [events EXCEPT ![s] = Append(@, m)] \in [Session -> Seq(FromServer)]
  BY Enqueued DEF Types, ServerTypes
<1>3. to_browser \in [Session -> Seq(FromServer)]
  BY DEF Types, WireTypes
<1> QED
  BY <1>1, <1>2, <1>3 DEF Send, Emit

\* every step of the gateway,
LEMMA ServerStepTypes ==
  ASSUME Types, NEW s \in Session, ServerStep(s)
  PROVE  WireTypes' /\ ServerTypes'
<1> USE DEF Types
<1>a. /\ socket \in [Session -> SocketStates]
      /\ to_server \in [Session -> Seq(FromBrowser)]
      /\ to_browser \in [Session -> Seq(FromServer)]
      /\ commands \in [Session -> Seq(FromBrowser)]
      /\ events \in [Session -> Seq(FromServer)]
  BY DEF WireTypes, ServerTypes
<1>1. CASE AcceptRequest(s)
  <2>1. to_server' \in [Session -> Seq(FromBrowser)]
    BY <1>1, <1>a, Dequeued DEF AcceptRequest
  <2> QED
    BY <1>1, <2>1 DEF AcceptRequest, WireTypes, ServerTypes, ServerTypeOK, channels,
                      MainStates, ConnStates
<1>2. CASE AbandonRequest(s)
  BY <1>2, SameWires DEF AbandonRequest, ServerTypes, ServerTypeOK, channels, connection, MainStates
<1>3. CASE AbandonPeer(s)
  <2>1. to_browser' \in [Session -> Seq(FromServer)]
    BY <1>3, SendTypes, MessageTypes DEF AbandonPeer
  <2> QED
    BY <1>3, <2>1 DEF AbandonPeer, WireTypes, ServerTypes, ServerTypeOK, channels, connection,
                      MainStates
<1>4. CASE PeerCreated(s)
  <2>1. /\ to_browser' \in [Session -> Seq(FromServer)]
        /\ events' \in [Session -> Seq(FromServer)]
    BY <1>4, SendTypes, MessageTypes DEF PeerCreated
  <2> QED
    BY <1>4, <2>1 DEF PeerCreated, WireTypes, ServerTypes, ServerTypeOK, connection, MainStates
<1>5. CASE ForwardEvent(s)
  <2>1. events' \in [Session -> Seq(FromServer)] /\ Head(events[s]) \in FromServer
    BY <1>5, <1>a, Dequeued DEF ForwardEvent
  <2>2. to_browser' \in [Session -> Seq(FromServer)]
    <3>1. \/ to_browser' = to_browser
          \/ Send(s, Head(events[s]))
          \/ Send(s, Message("error", 0))
      BY <1>5 DEF ForwardEvent
    <3> QED
      BY <1>a, <2>1, <3>1, SendTypes, MessageTypes
  <2>3. main' \in [Session -> MainStates]
    BY <1>5 DEF ForwardEvent, ServerTypes, ServerTypeOK, MainStates
  <2> QED
    BY <1>5, <2>1, <2>2, <2>3 DEF ForwardEvent, WireTypes, ServerTypes, ServerTypeOK, connection
<1>6. CASE ReadMessage(s)
  <2>1. to_server' \in [Session -> Seq(FromBrowser)] /\ Head(to_server[s]) \in FromBrowser
    BY <1>6, <1>a, Dequeued DEF ReadMessage
  <2>2. [commands EXCEPT ![s] = Append(@, Head(to_server[s]))] \in [Session -> Seq(FromBrowser)]
    BY <1>a, <2>1, Enqueued
  <2>3. commands' \in [Session -> Seq(FromBrowser)]
    BY <1>6, <1>a, <2>2 DEF ReadMessage, Command
  <2> QED
    BY <1>6, <2>1, <2>3 DEF ReadMessage, WireTypes, ServerTypes, ServerTypeOK, connection, tasks
<1>7. CASE ReaderEnds(s)
  BY <1>7, SameWires DEF ReaderEnds, ServerTypes, ServerTypeOK, channels, connection
<1>8. CASE DropPeer(s)
  <2>1. [commands EXCEPT ![s] = Append(@, Message("close", 0))] \in [Session -> Seq(FromBrowser)]
    BY <1>a, Enqueued, MessageTypes
  <2>2. commands' \in [Session -> Seq(FromBrowser)]
    BY <1>8, <2>1 DEF DropPeer, Command
  <2> QED
    BY <1>8, <2>2, SameWires DEF DropPeer, ServerTypes, ServerTypeOK, connection, tasks
<1>9. CASE RunAnswer(s)
  <2>1. commands' \in [Session -> Seq(FromBrowser)] /\ Head(commands[s]) \in FromBrowser
    BY <1>9, <1>a, Dequeued DEF RunAnswer
  <2>2. Head(commands[s]).id \in {0} \cup Session
    BY <1>9, <2>1, CandidateNumber DEF RunAnswer
  <2>3. remote' \in [Session -> {0} \cup Session]
    <3>1. remote' = remote \/ remote' = [remote EXCEPT ![s] = Head(commands[s]).id]
      BY <1>9 DEF RunAnswer
    <3> QED
      BY <2>2, <3>1 DEF ServerTypes, ServerTypeOK
  <2>4. events' \in [Session -> Seq(FromServer)]
    <3>1. events' = events \/ Emit(s, Message("failed", 0))
      BY <1>9 DEF RunAnswer
    <3> QED
      BY <1>a, <3>1, SendTypes, MessageTypes
  <2>5. peer' \in [Session -> {"none", "running", "closing", "ended", "aborted"}]
    <3>1. peer' = peer \/ peer' = [peer EXCEPT ![s] = "closing"]
      BY <1>9 DEF RunAnswer
    <3> QED
      BY <3>1 DEF ServerTypes, ServerTypeOK
  <2> QED
    BY <1>9, <2>1, <2>3, <2>4, <2>5, SameWires DEF RunAnswer, ServerTypes, ServerTypeOK
<1>10. CASE RunCandidate(s)
  <2>1. commands' \in [Session -> Seq(FromBrowser)] /\ Head(commands[s]) \in FromBrowser
    BY <1>10, <1>a, Dequeued DEF RunCandidate
  <2>2. Head(commands[s]).id \in 1 .. BrowserCandidates
    BY <1>10, <2>1, CandidateNumber DEF RunCandidate
  <2>3. accepted \in [Session -> SUBSET (1 .. BrowserCandidates)]
    BY DEF ServerTypes, ServerTypeOK
  <2>4. accepted' \in [Session -> SUBSET (1 .. BrowserCandidates)]
    BY <1>10, <2>2, <2>3, Included DEF RunCandidate
  <2> QED
    BY <1>10, <2>1, <2>4, SameWires DEF RunCandidate, ServerTypes, ServerTypeOK, tasks
<1>11. CASE LeaveLoop(s)
  BY <1>11, SameWires DEF LeaveLoop, ServerTypes, ServerTypeOK, channels, connection
<1>12. CASE ClosePeerConnection(s)
  BY <1>12, SameWires DEF ClosePeerConnection, ServerTypes, ServerTypeOK, channels, ConnStates
<1>13. CASE PeerAborted(s)
  BY <1>13, SameWires DEF PeerAborted, ServerTypes, ServerTypeOK, channels, connection
<1>14. CASE Gather(s)
  <2>1. offered[s] \in 0 .. ServerCandidates /\ offered[s] < ServerCandidates
    BY <1>14 DEF Gather, ServerTypes, ServerTypeOK
  <2>2. offered[s] + 1 \in 1 .. ServerCandidates
    BY <2>1, WireBounds
  <2>3. events' \in [Session -> Seq(FromServer)]
    BY <1>14, <2>2, SendTypes, MessageTypes DEF Gather
  <2>4. offered' \in [Session -> 0 .. ServerCandidates]
    BY <1>14, <2>2 DEF Gather, ServerTypes, ServerTypeOK
  <2> QED
    BY <1>14, <2>3, <2>4, SameWires DEF Gather, ServerTypes, ServerTypeOK, tasks
<1>15. CASE StreamRemoved(s)
  BY <1>15, SameWires DEF StreamRemoved, ServerTypes, ServerTypeOK, channels, connection, tasks
<1> QED
  BY <1>1, <1>2, <1>3, <1>4, <1>5, <1>6, <1>7, <1>8, <1>9, <1>10, <1>11, <1>12, <1>13, <1>14, <1>15
     DEF ServerStep

\* and what its library reports.
LEMMA FailureTypes ==
  ASSUME Types, NEW s \in Session, ConnectionFailed(s) \/ ConnectionEstablished(s)
  PROVE  WireTypes' /\ ServerTypes'
<1>1. events' \in [Session -> Seq(FromServer)]
  BY SendTypes, MessageTypes DEF ConnectionFailed, ConnectionEstablished
<1>2. conn' \in [Session -> ConnStates]
  BY DEF ConnectionFailed, ConnectionEstablished, Types, ServerTypes, ServerTypeOK, ConnStates
<1> QED
  BY <1>1, <1>2, SameWires
     DEF ConnectionFailed, ConnectionEstablished, Types, ServerTypes, ServerTypeOK, tasks

\* The types are inductive by themselves.
LEMMA TypesStep == ASSUME Types, [Next]_vars PROVE Types'
<1> USE DEF Types
<1>1. CASE UNCHANGED vars
  BY <1>1, SameTypes
<1>2. CASE UserStep /\ UNCHANGED server
  BY <1>2, UserTypes, SameServer
<1>3. ASSUME NEW s \in Session, HandlerStep(s), UNCHANGED server PROVE Types'
  BY <1>3, HandlerTypes, SameServer
<1>4. ASSUME NEW s \in Session, ServerStep(s), UNCHANGED player PROVE Types'
  BY <1>4, ServerStepTypes, SamePlayer
<1>5. ASSUME NEW s \in Session, ConnectionFailed(s), UNCHANGED player PROVE Types'
  BY <1>5, FailureTypes, SamePlayer
<1>6. ASSUME NEW s \in Session, Connects(s) PROVE Types'
  BY <1>6, FailureTypes, SamePlayer DEF Connects
<1>7. ASSUME NEW s \in Session, BrowserSeesState(s) PROVE Types'
  <2>1. /\ UNCHANGED <<wires, server>>
        /\ PlayerTypes'
    BY <1>7 DEF BrowserSeesState, OnConnectionState, PlayerTypes, PlayerTypeOK, handlers
  <2> QED
    BY <2>1, SameWires, SameServer
<1>8. ASSUME NEW s \in Session, SocketDrops(s) PROVE Types'
  <2>1. WireTypes'
    BY <1>8 DEF SocketDrops, WireTypes, SocketStates
  <2>2. PlayerTypes'
    BY <1>8 DEF SocketDrops, PlayerTypes, PlayerTypeOK, fields, handlers, rtcs
  <2> QED
    BY <1>8, <2>1, <2>2, SameServer DEF SocketDrops
<1> QED
  BY <1>1, <1>2, <1>3, <1>4, <1>5, <1>6, <1>7, <1>8 DEF Next

-----------------------------------------------------------------------------
(* Messages in a queue *)

HasAnswer(q) == \E i \in DOMAIN q : q[i].type = "sdp_answer"

\* The peer task meets no candidate before an answer.
AnswerFirst(q) ==
    \A j \in DOMAIN q : q[j].type = "ice_candidate" =>
        \E i \in 1 .. j - 1 : q[i].type = "sdp_answer"

AnswersOf(q, s) == \A i \in DOMAIN q : q[i].type = "sdp_answer" => q[i].id = s

\* At most the first message is 'connected'.
ConnectedFirst(q) == \A i \in DOMAIN q : q[i].type = "connected" => i = 1
HasConnected(q) == \E i \in DOMAIN q : q[i].type = "connected"

\* How appending changes what is said of a queue,
LEMMA AppendAnswers ==
  ASSUME NEW S, NEW q \in Seq(S), NEW m \in S
  PROVE  /\ HasAnswer(Append(q, m)) <=> HasAnswer(q) \/ m.type = "sdp_answer"
         /\ AnswerFirst(q) /\ (m.type = "ice_candidate" => HasAnswer(q)) => AnswerFirst(Append(q, m))
         /\ \A s : AnswersOf(q, s) /\ (m.type = "sdp_answer" => m.id = s) => AnswersOf(Append(q, m), s)
         /\ ConnectedFirst(q) /\ (m.type = "connected" => q = <<>>) => ConnectedFirst(Append(q, m))
         /\ HasConnected(Append(q, m)) <=> HasConnected(q) \/ m.type = "connected"
<1> DEFINE p == Append(q, m)
           n == Len(q)
<1>1. /\ n \in Nat /\ DOMAIN q = 1 .. n /\ DOMAIN p = 1 .. n + 1 /\ p[n + 1] = m
      /\ \A j \in 1 .. n : p[j] = q[j]
  BY AppendIs
<1>2. q = <<>> => n = 0
  OBVIOUS
<1> HIDE DEF p, n
<1>3. /\ \A j \in 1 .. n + 1 : j \in 1 .. n \/ j = n + 1
      /\ n + 1 \in 1 .. n + 1 /\ \A j \in 1 .. n : j \in 1 .. n + 1 /\ \A i \in 1 .. j - 1 : i \in 1 .. n
  BY <1>1
<1>4. HasAnswer(p) <=> HasAnswer(q) \/ m.type = "sdp_answer"
  BY <1>1, <1>3 DEF HasAnswer
<1>5. HasConnected(p) <=> HasConnected(q) \/ m.type = "connected"
  BY <1>1, <1>3 DEF HasConnected
<1>6. ASSUME AnswerFirst(q), m.type = "ice_candidate" => HasAnswer(q) PROVE AnswerFirst(p)
  <2> SUFFICES ASSUME NEW j \in 1 .. n + 1, p[j].type = "ice_candidate"
               PROVE  \E i \in 1 .. j - 1 : p[i].type = "sdp_answer"
    BY <1>1 DEF AnswerFirst
  <2>1. CASE j \in 1 .. n
    <3>1. PICK i \in 1 .. j - 1 : q[i].type = "sdp_answer"
      BY <1>1, <1>6, <2>1 DEF AnswerFirst
    <3> QED
      BY <3>1, <1>1, <1>3, <2>1
  <2>2. CASE j = n + 1
    <3>1. PICK i \in 1 .. n : q[i].type = "sdp_answer"
      BY <1>1, <1>6, <2>2 DEF HasAnswer
    <3> QED
      BY <3>1, <1>1, <2>2
  <2> QED
    BY <1>3, <2>1, <2>2
<1>7. ASSUME NEW s, AnswersOf(q, s), m.type = "sdp_answer" => m.id = s PROVE AnswersOf(p, s)
  BY <1>1, <1>3, <1>7 DEF AnswersOf
<1>8. ASSUME ConnectedFirst(q), m.type = "connected" => n = 0 PROVE ConnectedFirst(p)
  BY <1>1, <1>3, <1>8 DEF ConnectedFirst
<1> QED
  BY <1>2, <1>4, <1>5, <1>6, <1>7, <1>8 DEF p

\* how taking its first message does,
LEMMA TailAnswers ==
  ASSUME NEW S, NEW q \in Seq(S), q # <<>>
  PROVE  /\ HasAnswer(q) <=> HasAnswer(Tail(q)) \/ Head(q).type = "sdp_answer"
         /\ AnswerFirst(q) => Head(q).type # "ice_candidate"
         /\ AnswerFirst(q) /\ Head(q).type # "sdp_answer" => AnswerFirst(Tail(q))
         /\ \A s : AnswersOf(q, s) => AnswersOf(Tail(q), s)
         /\ \A s : AnswersOf(q, s) /\ Head(q).type = "sdp_answer" => Head(q).id = s
         /\ ConnectedFirst(q) => ~HasConnected(Tail(q))
         /\ Head(q).type = "connected" => HasConnected(q)
<1> DEFINE t == Tail(q)
           n == Len(q)
<1>1. /\ n \in Nat \ {0} /\ DOMAIN q = 1 .. n /\ DOMAIN t = 1 .. n - 1 /\ Head(q) = q[1]
      /\ \A j \in 1 .. n - 1 : t[j] = q[j + 1]
  BY TailIs
<1> HIDE DEF t, n
<1>2. /\ 1 \in 1 .. n
      /\ \A j \in 1 .. n - 1 : j + 1 \in 1 .. n /\ j + 1 # 1
      /\ \A j \in 1 .. n : j = 1 \/ (j - 1 \in 1 .. n - 1 /\ t[j - 1] = q[j])
  BY <1>1
<1>3. HasAnswer(q) => HasAnswer(t) \/ Head(q).type = "sdp_answer"
  BY <1>1, <1>2 DEF HasAnswer
<1>4. HasAnswer(t) => HasAnswer(q)
  BY <1>1, <1>2 DEF HasAnswer
<1>5. Head(q).type = "sdp_answer" => HasAnswer(q)
  BY <1>1, <1>2 DEF HasAnswer
<1>6. AnswerFirst(q) => Head(q).type # "ice_candidate"
  BY <1>1, <1>2 DEF AnswerFirst
<1>7. ASSUME AnswerFirst(q), Head(q).type # "sdp_answer" PROVE AnswerFirst(t)
  <2> SUFFICES ASSUME NEW j \in 1 .. n - 1, t[j].type = "ice_candidate"
               PROVE  \E i \in 1 .. j - 1 : t[i].type = "sdp_answer"
    BY <1>1 DEF AnswerFirst
  <2>1. PICK i \in 1 .. j : q[i].type = "sdp_answer"
    BY <1>1, <1>2, <1>7 DEF AnswerFirst
  <2>2. i - 1 \in 1 .. j - 1 /\ t[i - 1] = q[i]
    BY <1>1, <1>2, <1>7, <2>1
  <2> QED
    BY <2>1, <2>2
<1>8. \A s : AnswersOf(q, s) => AnswersOf(t, s)
  BY <1>1, <1>2 DEF AnswersOf
<1>9. \A s : AnswersOf(q, s) /\ Head(q).type = "sdp_answer" => Head(q).id = s
  BY <1>1, <1>2 DEF AnswersOf
<1>10. ASSUME ConnectedFirst(q), HasConnected(t) PROVE FALSE
  <2>1. PICK i \in 1 .. n - 1 : t[i].type = "connected"
    BY <1>1, <1>10 DEF HasConnected
  <2>2. i + 1 \in 1 .. n /\ q[i + 1].type = "connected" /\ i + 1 # 1
    BY <1>1, <1>2, <2>1
  <2> QED
    BY <1>1, <1>10, <2>2 DEF ConnectedFirst
<1>11. Head(q).type = "connected" => HasConnected(q)
  BY <1>1, <1>2 DEF HasConnected
<1> QED
  BY <1>3, <1>4, <1>5, <1>6, <1>7, <1>8, <1>9, <1>10, <1>11 DEF t

\* and how the candidates do that waited for the answer.
LEMMA ConcatAnswers ==
  ASSUME NEW S, NEW q \in Seq(S), NEW p \in Seq(S),
         \A i \in DOMAIN p : p[i].type = "ice_candidate"
  PROVE  /\ HasAnswer(q) => HasAnswer(q \o p)
         /\ AnswerFirst(q) /\ HasAnswer(q) => AnswerFirst(q \o p)
         /\ \A s : AnswersOf(q, s) => AnswersOf(q \o p, s)
<1> DEFINE c == q \o p
           n == Len(q)
           k == Len(p)
<1>1. /\ n \in Nat /\ k \in Nat /\ DOMAIN q = 1 .. n /\ DOMAIN p = 1 .. k /\ DOMAIN c = 1 .. n + k
      /\ \A j \in 1 .. n : c[j] = q[j]
      /\ \A j \in 1 .. k : c[n + j] = p[j]
  BY ConcatIs
<1> HIDE DEF c, n, k
<1>2. \A j \in 1 .. n + k : j \in 1 .. n \/ (j > n /\ j - n \in 1 .. k /\ c[j] = p[j - n])
  BY <1>1
<1>3. \A j \in 1 .. n : j \in 1 .. n + k
  BY <1>1
<1>4. HasAnswer(q) => HasAnswer(c)
  BY <1>1, <1>3 DEF HasAnswer
<1>5. ASSUME AnswerFirst(q), HasAnswer(q) PROVE AnswerFirst(c)
  <2> SUFFICES ASSUME NEW j \in 1 .. n + k, c[j].type = "ice_candidate"
               PROVE  \E i \in 1 .. j - 1 : c[i].type = "sdp_answer"
    BY <1>1 DEF AnswerFirst
  <2>1. CASE j \in 1 .. n
    <3>1. PICK i \in 1 .. j - 1 : q[i].type = "sdp_answer"
      BY <1>1, <1>5, <2>1 DEF AnswerFirst
    <3>2. i \in 1 .. n
      BY <1>1, <2>1
    <3> QED
      BY <3>1, <3>2, <1>1
  <2>2. CASE j > n
    <3>1. PICK i \in 1 .. n : q[i].type = "sdp_answer"
      BY <1>1, <1>5 DEF HasAnswer
    <3>2. i \in 1 .. j - 1
      BY <1>1, <2>2
    <3> QED
      BY <3>1, <3>2, <1>1
  <2> QED
    BY <1>2, <2>1, <2>2
<1>6. ASSUME NEW s, AnswersOf(q, s) PROVE AnswersOf(c, s)
  <2>1. \A j \in 1 .. n + k : c[j].type = "sdp_answer" => j \in 1 .. n
    BY <1>1, <1>2
  <2> QED
    BY <1>1, <1>6, <2>1 DEF AnswersOf
<1> QED
  BY <1>4, <1>5, <1>6 DEF c

\* Nothing is in an empty queue.
LEMMA EmptyQueue ==
  /\ CandidatesIn(<<>>) = {} /\ ~HasAnswer(<<>>) /\ AnswerFirst(<<>>) /\ \A s : AnswersOf(<<>>, s)
  /\ ConnectedFirst(<<>>) /\ ~HasConnected(<<>>) /\ ToSet(<<>>) = {}
BY DEF CandidatesIn, HasAnswer, AnswerFirst, AnswersOf, ConnectedFirst, HasConnected, ToSet

\* Without candidates none is ahead of the answer.
LEMMA NoCandidates ==
  ASSUME NEW S, NEW q \in Seq(S), CandidatesIn(q) = {} PROVE AnswerFirst(q)
<1>1. DOMAIN q = 1 .. Len(q)
  OBVIOUS
<1>2. \A j \in DOMAIN q : q[j].type = "ice_candidate" => q[j].id \in CandidatesIn(q)
  BY <1>1, InQueue
<1> QED
  BY <1>2 DEF AnswerFirst

-----------------------------------------------------------------------------
(* The inductive invariant *)

\* Whose the open connection, the open socket and the busy handler are.
Owner ==
    /\ pc \in {0, ws}
    /\ pc # 0 => rtc[pc] \notin {"none", "closed"}
    /\ \A r \in Session :
          /\ rtc[r] \notin {"none", "closed"} => pc = r
          /\ socket[r] \in {"connecting", "open"} => ws = r
          /\ handler[r] # "ready" => target[r] = r /\ rtc[r] # "none"
          /\ handler[r] \in {"setting_local", "waiting_ice", "flushing"} => offer[r] = r
          /\ offer[r] \in {0, r}
          /\ handler[r] # "flushing" => flushing[r] = <<>>

\* How far a session can be before the gateway has created its peer, and before
\* 'connected', its first message, was handled.
Order(r) ==
    /\ main[r] \in {"waiting", "creating"} =>
          to_browser[r] = <<>> /\ queue[r] = <<>> /\ rtc[r] = "none" /\ peer[r] = "none"
    /\ main[r] = "waiting" => events[r] = <<>> /\ offered[r] = 0 /\ conn[r] = "none"
    /\ socket[r] \in {"unopened", "connecting"} => main[r] = "waiting" /\ to_server[r] = <<>>
    /\ ConnectedFirst(queue[r]) /\ ConnectedFirst(to_browser[r])
    /\ HasConnected(queue[r]) => handler[r] = "ready" /\ rtc[r] = "none" /\ ws = r
    /\ HasConnected(to_browser[r]) => queue[r] = <<>> /\ rtc[r] = "none"

\* Without a connection in the browser there is no answer and no candidate of it.
Unborn(r) ==
    rtc[r] = "none" =>
        /\ offer[r] = 0 /\ added[r] = {} /\ gathered[r] = 0 /\ accepted[r] = {} /\ remote[r] = 0
        /\ CandidatesIn(to_server[r]) = {} /\ ~HasAnswer(to_server[r])
        /\ CandidatesIn(commands[r]) = {} /\ ~HasAnswer(commands[r])

\* Until the browser has handled 'connected', the gateway's candidates are all under
\* way, and 'connected' is ahead of them.
Fresh(r) ==
    (ws = r /\ socket[r] = "open" /\ rtc[r] = "none" /\ main[r] \in {"creating", "forwarding"}) =>
        /\ 1 .. offered[r] =
              CandidatesIn(events[r]) \cup CandidatesIn(to_browser[r]) \cup CandidatesIn(queue[r])
        /\ main[r] = "forwarding" =>
              \/ queue[r] # <<>> /\ Head(queue[r]).type = "connected"
              \/ queue[r] = <<>> /\ to_browser[r] # <<>> /\ Head(to_browser[r]).type = "connected"

\* The answers of a session are its own.
Answered(r) ==
    /\ remote[r] \in {0, r}
    /\ AnswersOf(to_server[r], r) /\ AnswersOf(commands[r], r)

Numbers(C) == {c[2] : c \in C}

\* In a session that lives no candidate is lost, and none overtakes the answer.
BrowserKeeps(r) ==
    Alive(r) =>
        /\ 1 .. gathered[r] = accepted[r] \cup CandidatesIn(pendingLocalCandidates)
                                \cup CandidatesIn(to_server[r]) \cup CandidatesIn(commands[r])
        /\ remote[r] = 0 =>
              /\ AnswerFirst(commands[r])
              /\ HasAnswer(commands[r]) \/ AnswerFirst(to_server[r])
              /\ localAnswerSent => HasAnswer(commands[r]) \/ HasAnswer(to_server[r])

ServerKeeps(r) ==
    Alive(r) =>
        /\ 1 .. offered[r] =
              Numbers(added[r]) \cup Numbers(ToSet(pendingCandidates)) \cup Numbers(ToSet(flushing[r]))
                \cup CandidatesIn(events[r]) \cup CandidatesIn(to_browser[r])
                \cup CandidatesIn(queue[r])
        /\ remoteDescReady => offer[r] # 0
        /\ handler[r] = "flushing" => ToSet(pendingCandidates) \subseteq added[r] \cup ToSet(flushing[r])

SessionInv(r) ==
    Order(r) /\ Unborn(r) /\ Fresh(r) /\ Answered(r) /\ BrowserKeeps(r) /\ ServerKeeps(r)

IInv == Types /\ Owner /\ \A r \in Session : SessionInv(r)

-----------------------------------------------------------------------------
(* The gateway's steps *)

\* Every variable of a session is a function on the sessions.
Total ==
    /\ DOMAIN socket = Session /\ DOMAIN to_server = Session /\ DOMAIN to_browser = Session
    /\ DOMAIN queue = Session /\ DOMAIN handler = Session /\ DOMAIN target = Session
    /\ DOMAIN flushing = Session /\ DOMAIN rtc = Session /\ DOMAIN offer = Session
    /\ DOMAIN added = Session /\ DOMAIN gathered = Session
    /\ DOMAIN main = Session /\ DOMAIN reader = Session /\ DOMAIN peer = Session
    /\ DOMAIN events = Session /\ DOMAIN commands = Session /\ DOMAIN conn = Session
    /\ DOMAIN remote = Session /\ DOMAIN accepted = Session /\ DOMAIN offered = Session

\* The types say so.
LEMMA TypesTotal == Types => Total
<1> SUFFICES ASSUME Types PROVE Total
  OBVIOUS
<1>1. /\ DOMAIN socket = Session /\ DOMAIN to_server = Session /\ DOMAIN to_browser = Session
  BY DEF Types, WireTypes
<1>2. /\ DOMAIN queue = Session /\ DOMAIN handler = Session /\ DOMAIN target = Session
      /\ DOMAIN flushing = Session /\ DOMAIN rtc = Session /\ DOMAIN offer = Session
      /\ DOMAIN added = Session /\ DOMAIN gathered = Session
  BY DEF Types, PlayerTypes, PlayerTypeOK
<1>3. /\ DOMAIN main = Session /\ DOMAIN reader = Session /\ DOMAIN peer = Session
      /\ DOMAIN events = Session /\ DOMAIN commands = Session /\ DOMAIN conn = Session
      /\ DOMAIN remote = Session /\ DOMAIN accepted = Session /\ DOMAIN offered = Session
  BY DEF Types, ServerTypes, ServerTypeOK
<1> QED
  BY <1>1, <1>2, <1>3 DEF Total

\* The queues of one session are typed.
LEMMA QueuesAt ==
  ASSUME Types, NEW s \in Session
  PROVE  /\ to_server[s] \in Seq(FromBrowser) /\ commands[s] \in Seq(FromBrowser)
         /\ to_browser[s] \in Seq(FromServer) /\ events[s] \in Seq(FromServer)
         /\ queue[s] \in Seq(FromServer) /\ flushing[s] \in Seq(RemoteCandidate)
BY DEF Types, WireTypes, PlayerTypes, ServerTypes

\* What the rest of a step leaves alone.
SameSession(r) ==
    /\ socket'[r] = socket[r] /\ to_server'[r] = to_server[r] /\ to_browser'[r] = to_browser[r]
    /\ queue'[r] = queue[r] /\ handler'[r] = handler[r] /\ flushing'[r] = flushing[r]
    /\ rtc'[r] = rtc[r] /\ offer'[r] = offer[r] /\ added'[r] = added[r]
    /\ gathered'[r] = gathered[r]
    /\ main'[r] = main[r] /\ peer'[r] = peer[r] /\ events'[r] = events[r]
    /\ commands'[r] = commands[r] /\ conn'[r] = conn[r] /\ remote'[r] = remote[r]
    /\ accepted'[r] = accepted[r] /\ offered'[r] = offered[r]

\* The fields that the invariant of a live session mentions.
SameFields ==
    UNCHANGED <<pc, remoteDescReady, localAnswerSent, pendingCandidates, pendingLocalCandidates>>

\* A session that a step leaves alone keeps its invariant: the fields of `this' matter
\* to the live session only.
LEMMA Elsewhere ==
  ASSUME NEW r \in Session, SessionInv(r), SameSession(r), ws' = ws, SameFields \/ ~Alive(r)'
  PROVE  SessionInv(r)'
<1> USE DEF SameSession
<1>1. Order(r)' /\ Unborn(r)' /\ Answered(r)'
  BY DEF SessionInv, Order, Unborn, Answered
<1>2. Fresh(r)'
  BY DEF SessionInv, Fresh
<1>3. CASE ~Alive(r)'
  BY <1>1, <1>2, <1>3 DEF SessionInv, BrowserKeeps, ServerKeeps
<1>4. CASE SameFields
  <2>1. Alive(r)' <=> Alive(r)
    BY <1>4 DEF SameFields, Alive
  <2>2. BrowserKeeps(r)'
    BY <1>4, <2>1 DEF SameFields, SessionInv, BrowserKeeps
  <2>3. ServerKeeps(r)'
    BY <1>4, <2>1 DEF SameFields, SessionInv, ServerKeeps
  <2> QED
    BY <1>1, <1>2, <2>2, <2>3 DEF SessionInv
<1> QED
  BY <1>3, <1>4

\* A step of the gateway is a step of one session.
LEMMA ServerElsewhere ==
  ASSUME Total, NEW s \in Session, NEW r \in Session \ {s}, UNCHANGED player,
         ServerStep(s) \/ ConnectionFailed(s) \/ ConnectionEstablished(s)
  PROVE  SameSession(r) /\ ws' = ws /\ SameFields
<1> USE DEF Total, SameSession, SameFields, player, fields, handlers, rtcs, wires, tasks, channels, connection,
            Send, Emit, Command
<1>1. CASE AcceptRequest(s)
  BY <1>1 DEF AcceptRequest
<1>2. CASE AbandonRequest(s)
  BY <1>2 DEF AbandonRequest
<1>3. CASE AbandonPeer(s)
  BY <1>3 DEF AbandonPeer
<1>4. CASE PeerCreated(s)
  BY <1>4 DEF PeerCreated
<1>5. CASE ForwardEvent(s)
  BY <1>5 DEF ForwardEvent
<1>6. CASE ReadMessage(s)
  BY <1>6 DEF ReadMessage
<1>7. CASE ReaderEnds(s)
  BY <1>7 DEF ReaderEnds
<1>8. CASE DropPeer(s)
  BY <1>8 DEF DropPeer
<1>9. CASE RunAnswer(s)
  BY <1>9 DEF RunAnswer
<1>10. CASE RunCandidate(s)
  BY <1>10 DEF RunCandidate
<1>11. CASE LeaveLoop(s)
  BY <1>11 DEF LeaveLoop
<1>12. CASE ClosePeerConnection(s)
  BY <1>12 DEF ClosePeerConnection
<1>13. CASE PeerAborted(s)
  BY <1>13 DEF PeerAborted
<1>14. CASE Gather(s)
  BY <1>14 DEF Gather
<1>15. CASE StreamRemoved(s)
  BY <1>15 DEF StreamRemoved
<1>16. CASE ConnectionFailed(s)
  BY <1>16 DEF ConnectionFailed
<1>17. CASE ConnectionEstablished(s)
  BY <1>17 DEF ConnectionEstablished
<1> QED
  BY <1>1, <1>2, <1>3, <1>4, <1>5, <1>6, <1>7, <1>8, <1>9, <1>10, <1>11, <1>12, <1>13, <1>14, <1>15,
     <1>16, <1>17 DEF ServerStep

\* A step of the gateway keeps the invariant of its own session.
LEMMA OwnServerStep ==
  ASSUME Types, Owner, NEW s \in Session, SessionInv(s), UNCHANGED player,
         ServerStep(s) \/ ConnectionFailed(s) \/ ConnectionEstablished(s)
  PROVE  SessionInv(s)'
<1>t. Total
  BY TypesTotal
<1>q. /\ to_server[s] \in Seq(FromBrowser) /\ commands[s] \in Seq(FromBrowser)
      /\ to_browser[s] \in Seq(FromServer) /\ events[s] \in Seq(FromServer)
      /\ queue[s] \in Seq(FromServer)
  BY QueuesAt
<1>z. s # 0
  BY WireBounds DEF Session
<1>i. Order(s) /\ Unborn(s) /\ Fresh(s) /\ Answered(s) /\ BrowserKeeps(s) /\ ServerKeeps(s)
  BY DEF SessionInv
<1>s. /\ socket' = socket /\ ws' = ws /\ SameFields
      /\ queue' = queue /\ handler' = handler /\ flushing' = flushing
      /\ rtc' = rtc /\ offer' = offer /\ added' = added /\ gathered' = gathered
  <2>1. socket' = socket
    BY DEF ServerStep, AcceptRequest, AbandonRequest, AbandonPeer, PeerCreated, ForwardEvent,
           ReadMessage, ReaderEnds, DropPeer, RunAnswer, RunCandidate, LeaveLoop,
           ClosePeerConnection, PeerAborted, Gather, StreamRemoved, ConnectionFailed,
           ConnectionEstablished, wires
  <2> QED
    BY <2>1 DEF player, fields, handlers, rtcs, SameFields
<1> USE DEF Total
<1>1. CASE AcceptRequest(s)
  <2>1. /\ main[s] = "waiting" /\ main'[s] = "creating" /\ to_server[s] # <<>>
        /\ to_server'[s] = Tail(to_server[s])
        /\ UNCHANGED <<to_browser, peer, events, commands, remote, accepted, offered>>
    BY <1>1, <1>t DEF AcceptRequest, channels
  <2>2. /\ CandidatesIn(to_server[s]) = {} => CandidatesIn(Tail(to_server[s])) = {}
        /\ ~HasAnswer(to_server[s]) => ~HasAnswer(Tail(to_server[s]))
        /\ AnswersOf(to_server[s], s) => AnswersOf(Tail(to_server[s]), s)
    BY <1>q, <2>1, CandidatesTail, TailAnswers
  <2>3. Order(s)'
    BY <1>i, <1>s, <2>1 DEF Order
  <2>4. Unborn(s)' /\ Answered(s)'
    BY <1>i, <1>s, <2>1, <2>2 DEF Unborn, Answered
  <2>5. Fresh(s)'
    BY <1>i, <1>s, <2>1, EmptyQueue DEF Order, Fresh
  <2> QED
    BY <2>1, <2>3, <2>4, <2>5 DEF SessionInv, BrowserKeeps, ServerKeeps, Alive
<1>2. CASE AbandonRequest(s)
  <2>1. /\ main[s] = "waiting" /\ main'[s] = "ended" /\ socket[s] \in {"open", "closed"}
        /\ UNCHANGED <<to_server, to_browser, peer, events, commands, conn, remote, accepted, offered>>
    BY <1>2, <1>t DEF AbandonRequest, channels, connection, wires
  <2> QED
    BY <1>i, <1>s, <2>1
       DEF Order, Unborn, Fresh, Answered, SessionInv, BrowserKeeps, ServerKeeps, Alive
<1>3. CASE AbandonPeer(s)
  <2>1. /\ main[s] = "creating" /\ main'[s] = "ended"
        /\ \/ to_browser'[s] = to_browser[s]
           \/ to_browser'[s] = Append(to_browser[s], Message("error", 0))
        /\ UNCHANGED <<to_server, peer, events, commands, conn, remote, accepted, offered>>
    BY <1>3, <1>t DEF AbandonPeer, channels, connection, Send
  <2>2. ~HasConnected(to_browser'[s]) /\ ConnectedFirst(to_browser'[s])
    <3>1. ~HasConnected(to_browser[s]) /\ ConnectedFirst(to_browser[s])
      BY <1>i, <2>1, EmptyQueue DEF Order
    <3>2. Message("error", 0) \in FromServer /\ Message("error", 0).type = "error"
      BY MessageTypes DEF Message
    <3> QED
      BY <1>q, <2>1, <3>1, <3>2, AppendAnswers
  <2> QED
    BY <1>i, <1>s, <2>1, <2>2
       DEF Order, Unborn, Fresh, Answered, SessionInv, BrowserKeeps, ServerKeeps, Alive
<1>4. CASE PeerCreated(s)
  <2>1. /\ main[s] = "creating" /\ main'[s] = "forwarding"
        /\ IF socket[s] = "open"
           THEN to_browser'[s] = Append(to_browser[s], Message("connected", 0))
           ELSE to_browser'[s] = to_browser[s]
        /\ events'[s] = Append(events[s], Message("sdp_offer", s))
        /\ UNCHANGED <<to_server, commands, conn, remote, accepted, offered>>
    BY <1>4, <1>t DEF PeerCreated, connection, Send, Emit
  <2>2. to_browser[s] = <<>> /\ queue[s] = <<>> /\ rtc[s] = "none"
    BY <1>i, <2>1 DEF Order
  <2>3. /\ Message("connected", 0) \in FromServer /\ Message("connected", 0).type = "connected"
        /\ Message("sdp_offer", s) \in FromServer /\ Message("sdp_offer", s).type = "sdp_offer"
    BY MessageTypes DEF Message
  <2>4. CandidatesIn(events'[s]) = CandidatesIn(events[s])
    BY <1>q, <2>1, <2>3, CandidatesAppend
  <2>5. LET q == Append(<<>>, Message("connected", 0))
        IN  q # <<>> /\ Head(q).type = "connected" /\ CandidatesIn(q) = {} /\ ConnectedFirst(q)
    <3> DEFINE m == Message("connected", 0)
               q == Append(<<>>, m)
    <3>1. <<>> \in Seq(FromServer) /\ m \in FromServer /\ m.type = "connected"
      BY <2>3, Empty
    <3>2. q # <<>> /\ Head(q) = m
      OBVIOUS
    <3> HIDE DEF m
    <3>3. CandidatesIn(q) = CandidatesIn(<<>>)
      BY <3>1, CandidatesAppend
    <3>4. ConnectedFirst(q)
      BY <3>1, AppendAnswers, EmptyQueue
    <3> QED
      BY <3>1, <3>2, <3>3, <3>4, EmptyQueue DEF m
  <2>6. Order(s)'
    BY <1>i, <1>s, <2>1, <2>2, <2>5, EmptyQueue DEF Order
  <2>7. Fresh(s)'
    <3>1. CASE socket[s] = "open"
      BY <1>i, <1>s, <2>1, <2>2, <2>4, <2>5, <3>1, EmptyQueue DEF Fresh
    <3>2. CASE socket[s] # "open"
      BY <1>s, <3>2 DEF Fresh
    <3> QED
      BY <3>1, <3>2
  <2>8. ~Alive(s)'
    BY <1>s, <1>z, <2>2 DEF Owner, Alive, SameFields
  <2> QED
    BY <1>i, <1>s, <2>1, <2>6, <2>7, <2>8 DEF Unborn, Answered, SessionInv, BrowserKeeps, ServerKeeps

<1>5. CASE ForwardEvent(s)
  <2> DEFINE e == Head(events[s])
  <2>1. /\ main[s] = "forwarding" /\ events[s] # <<>> /\ events'[s] = Tail(events[s])
        /\ UNCHANGED <<to_server, peer, commands, conn, remote, accepted, offered>>
    BY <1>5, <1>t DEF ForwardEvent, connection
  <2>2. \/ /\ e.type \in {"sdp_offer", "ice_candidate"} /\ main'[s] = main[s]
           /\ to_browser'[s] = IF socket[s] = "open" THEN Append(to_browser[s], e)
                               ELSE to_browser[s]
        \/ /\ e.type = "established" /\ main'[s] = main[s] /\ to_browser'[s] = to_browser[s]
        \/ /\ main'[s] = "ended"
           /\ to_browser'[s] = IF socket[s] = "open" THEN Append(to_browser[s], Message("error", 0))
                               ELSE to_browser[s]
    BY <1>5, <1>t DEF ForwardEvent, Send
  <2>3. /\ e \in FromServer /\ Tail(events[s]) \in Seq(FromServer)
        /\ Message("error", 0) \in FromServer /\ Message("error", 0).type = "error"
    BY <1>q, <2>1, MessageTypes DEF Message
  <2>4. /\ e.type = "ice_candidate" =>
             CandidatesIn(events[s]) = CandidatesIn(Tail(events[s])) \cup {e.id}
        /\ e.type # "ice_candidate" => CandidatesIn(events[s]) = CandidatesIn(Tail(events[s]))
    BY <1>q, <2>1, CandidatesTail
  <2>5. /\ e.type = "ice_candidate" =>
             CandidatesIn(Append(to_browser[s], e)) = CandidatesIn(to_browser[s]) \cup {e.id}
        /\ e.type # "ice_candidate" =>
             CandidatesIn(Append(to_browser[s], e)) = CandidatesIn(to_browser[s])
    BY <1>q, <2>3, CandidatesAppend
  <2> HIDE DEF e
  <2>6. \A m \in FromServer : m.type # "connected" =>
           /\ ConnectedFirst(to_browser[s]) => ConnectedFirst(Append(to_browser[s], m))
           /\ HasConnected(Append(to_browser[s], m)) => HasConnected(to_browser[s])
    BY <1>q, AppendAnswers
  <2>7. /\ ConnectedFirst(to_browser'[s])
        /\ HasConnected(to_browser'[s]) => HasConnected(to_browser[s])
    <3>1. ConnectedFirst(to_browser[s])
      BY <1>i DEF Order
    <3> QED
      BY <2>2, <2>3, <2>6, <3>1
  <2>8. Order(s)' /\ Unborn(s)' /\ Answered(s)'
    <3>1. main'[s] \in {"forwarding", "ended"}
      BY <2>1, <2>2
    <3> QED
      BY <1>i, <1>s, <2>1, <2>7, <3>1 DEF Order, Unborn, Answered
  <2>9. CASE main'[s] = "ended"
    BY <2>8, <2>9 DEF Fresh, SessionInv, BrowserKeeps, ServerKeeps, Alive
  <2>10. CASE main'[s] = main[s]
    <3>1. socket[s] = "open" =>
             CandidatesIn(events'[s]) \cup CandidatesIn(to_browser'[s]) =
               CandidatesIn(events[s]) \cup CandidatesIn(to_browser[s])
      BY <2>1, <2>2, <2>4, <2>5, <2>10
    <3>2. to_browser[s] # <<>> => to_browser'[s] # <<>> /\ Head(to_browser'[s]) = Head(to_browser[s])
      <4>1. \A m \in FromServer : to_browser[s] # <<>> =>
               /\ Append(to_browser[s], m) # <<>>
               /\ Head(Append(to_browser[s], m)) = Head(to_browser[s])
        BY <1>q, AppendHead
      <4>2. \/ to_browser'[s] = to_browser[s]
            \/ to_browser'[s] = Append(to_browser[s], e)
            \/ to_browser'[s] = Append(to_browser[s], Message("error", 0))
        BY <2>2
      <4> QED
        BY <2>3, <4>1, <4>2
    <3>3. Fresh(s)'
      BY <1>i, <1>s, <2>1, <2>10, <3>1, <3>2 DEF Fresh
    <3>4. BrowserKeeps(s)'
      BY <1>i, <1>s, <2>1, <2>10 DEF BrowserKeeps, Alive, SameFields
    <3>5. ServerKeeps(s)'
      BY <1>i, <1>s, <2>1, <2>10, <3>1 DEF ServerKeeps, Alive, SameFields
    <3> QED
      BY <2>8, <3>3, <3>4, <3>5 DEF SessionInv
  <2> QED
    BY <2>2, <2>9, <2>10
<1>6. CASE ReadMessage(s)
  <2> DEFINE m == Head(to_server[s])
             t == Tail(to_server[s])
             c == Append(commands[s], m)
  <2>1. /\ to_server[s] # <<>> /\ to_server'[s] = t
        /\ IF m.type \in {"sdp_answer", "ice_candidate"} THEN commands'[s] = c
           ELSE commands'[s] = commands[s]
        /\ UNCHANGED <<to_browser, main, peer, events, conn, remote, accepted, offered>>
    BY <1>6, <1>t DEF ReadMessage, connection, tasks, Command
  <2>2. m \in FromBrowser
    BY <1>q, <2>1
  <2>3. /\ m.type = "ice_candidate" =>
             /\ CandidatesIn(to_server[s]) = CandidatesIn(t) \cup {m.id}
             /\ CandidatesIn(c) = CandidatesIn(commands[s]) \cup {m.id}
        /\ m.type # "ice_candidate" =>
             /\ CandidatesIn(to_server[s]) = CandidatesIn(t)
             /\ CandidatesIn(c) = CandidatesIn(commands[s])
    BY <1>q, <2>1, <2>2, CandidatesTail, CandidatesAppend
  <2>4. /\ HasAnswer(to_server[s]) <=> HasAnswer(t) \/ m.type = "sdp_answer"
        /\ AnswerFirst(to_server[s]) => m.type # "ice_candidate"
        /\ AnswerFirst(to_server[s]) /\ m.type # "sdp_answer" => AnswerFirst(t)
        /\ AnswersOf(to_server[s], s) => AnswersOf(t, s) /\ (m.type = "sdp_answer" => m.id = s)
    BY <1>q, <2>1, TailAnswers
  <2>5. /\ HasAnswer(c) <=> HasAnswer(commands[s]) \/ m.type = "sdp_answer"
        /\ AnswerFirst(commands[s]) /\ (m.type = "ice_candidate" => HasAnswer(commands[s])) =>
             AnswerFirst(c)
        /\ AnswersOf(commands[s], s) /\ (m.type = "sdp_answer" => m.id = s) => AnswersOf(c, s)
    BY <1>q, <2>2, AppendAnswers
  <2> HIDE DEF m, t, c
  <2>6. Order(s)' /\ Fresh(s)'
    BY <1>i, <1>s, <2>1 DEF Order, Fresh
  <2>7. Unborn(s)'
    BY <1>i, <1>s, <2>1, <2>3, <2>4, <2>5 DEF Unborn
  <2>8. Answered(s)'
    BY <1>i, <1>s, <2>1, <2>4, <2>5 DEF Answered
  <2>9. BrowserKeeps(s)'
    <3>1. CandidatesIn(to_server'[s]) \cup CandidatesIn(commands'[s]) =
            CandidatesIn(to_server[s]) \cup CandidatesIn(commands[s])
      BY <2>1, <2>3
    <3>2. ASSUME AnswerFirst(commands[s]), HasAnswer(commands[s]) \/ AnswerFirst(to_server[s])
          PROVE  /\ AnswerFirst(commands'[s])
                 /\ HasAnswer(commands'[s]) \/ AnswerFirst(to_server'[s])
      BY <2>1, <2>4, <2>5, <3>2
    <3>3. HasAnswer(commands[s]) \/ HasAnswer(to_server[s]) =>
            HasAnswer(commands'[s]) \/ HasAnswer(to_server'[s])
      BY <2>1, <2>4, <2>5
    <3> QED
      BY <1>i, <1>s, <2>1, <3>1, <3>2, <3>3 DEF BrowserKeeps, Alive, SameFields
  <2>10. ServerKeeps(s)'
    BY <1>i, <1>s, <2>1 DEF ServerKeeps, Alive, SameFields
  <2> QED
    BY <2>6, <2>7, <2>8, <2>9, <2>10 DEF SessionInv
<1>7. CASE ReaderEnds(s)
  <2>1. UNCHANGED <<to_server, to_browser, main, peer, events, commands, conn, remote, accepted, offered>>
    BY <1>7 DEF ReaderEnds, wires, channels, connection
  <2> QED
    BY <1>s, <2>1, Elsewhere DEF SameSession
<1>8. CASE DropPeer(s)
  <2> DEFINE m == Message("close", 0)
  <2>1. /\ main[s] = "ended" /\ commands'[s] = Append(commands[s], m)
        /\ UNCHANGED <<to_server, to_browser, main, peer, events, conn, remote, accepted, offered>>
    BY <1>8, <1>t DEF DropPeer, wires, connection, tasks, Command
  <2>2. m \in FromBrowser /\ m.type = "close"
    BY MessageTypes DEF Message
  <2> HIDE DEF m
  <2>3. /\ CandidatesIn(commands'[s]) = CandidatesIn(commands[s])
        /\ HasAnswer(commands'[s]) <=> HasAnswer(commands[s])
        /\ AnswersOf(commands[s], s) => AnswersOf(commands'[s], s)
    BY <1>q, <2>1, <2>2, CandidatesAppend, AppendAnswers
  <2> QED
    BY <1>i, <1>s, <2>1, <2>3
       DEF Order, Unborn, Fresh, Answered, SessionInv, BrowserKeeps, ServerKeeps, Alive
<1>9. CASE RunAnswer(s)
  <2> DEFINE m == Head(commands[s])
             t == Tail(commands[s])
  <2>1. /\ peer[s] = "running" /\ commands[s] # <<>> /\ m.type = "sdp_answer"
        /\ commands'[s] = t
        /\ UNCHANGED <<to_server, to_browser, main, conn, accepted, offered>>
    BY <1>9, <1>t DEF RunAnswer, wires
  <2>2. \/ /\ remote[s] = 0 /\ remote'[s] = m.id
           /\ events'[s] = events[s] /\ peer'[s] = peer[s]
        \/ /\ remote'[s] = remote[s] /\ peer'[s] = "closing"
           /\ events'[s] = Append(events[s], Message("failed", 0))
    BY <1>9, <1>t DEF RunAnswer, Emit
  <2>3. /\ HasAnswer(commands[s]) /\ m.id = s /\ AnswersOf(t, s)
        /\ CandidatesIn(t) = CandidatesIn(commands[s])
    BY <1>i, <1>q, <2>1, TailAnswers, CandidatesTail DEF Answered
  <2>4. CandidatesIn(events'[s]) = CandidatesIn(events[s])
    <3> DEFINE f == Message("failed", 0)
    <3>1. f \in FromServer /\ f.type = "failed"
      BY MessageTypes DEF Message
    <3>2. events'[s] = events[s] \/ events'[s] = Append(events[s], f)
      BY <2>2
    <3> HIDE DEF f
    <3> QED
      <4>1. CandidatesIn(Append(events[s], f)) = CandidatesIn(events[s])
        BY <1>q, <3>1, CandidatesAppend
      <4> QED
        BY <3>2, <4>1
  <2> HIDE DEF m, t
  <2>5. rtc[s] # "none" /\ main[s] \notin {"waiting", "creating"}
    BY <1>i, <2>1, <2>3 DEF Unborn, Order
  <2>6. Order(s)' /\ Unborn(s)' /\ Fresh(s)' /\ Answered(s)'
    BY <1>i, <1>s, <2>1, <2>2, <2>3, <2>5 DEF Order, Unborn, Fresh, Answered
  <2>7. BrowserKeeps(s)'
    BY <1>i, <1>s, <1>z, <2>1, <2>2, <2>3 DEF BrowserKeeps, Alive, SameFields
  <2>8. ServerKeeps(s)'
    BY <1>i, <1>s, <2>1, <2>2, <2>4 DEF ServerKeeps, Alive, SameFields
  <2> QED
    BY <2>6, <2>7, <2>8 DEF SessionInv
<1>10. CASE RunCandidate(s)
  <2> DEFINE m == Head(commands[s])
             t == Tail(commands[s])
  <2>1. /\ peer[s] = "running" /\ commands[s] # <<>> /\ m.type = "ice_candidate"
        /\ commands'[s] = t
        /\ UNCHANGED <<to_server, to_browser, main, peer, events, conn, remote, offered>>
    BY <1>10, <1>t DEF RunCandidate, wires, tasks
  <2>2. IF remote[s] = 0 THEN accepted'[s] = accepted[s]
        ELSE accepted'[s] = accepted[s] \cup {m.id}
    BY <1>10, <1>t DEF RunCandidate
  <2>3. /\ CandidatesIn(commands[s]) = CandidatesIn(t) \cup {m.id}
        /\ HasAnswer(commands[s]) <=> HasAnswer(t)
        /\ ~AnswerFirst(commands[s])
        /\ AnswersOf(commands[s], s) => AnswersOf(t, s)
    BY <1>q, <2>1, TailAnswers, CandidatesTail
  <2> HIDE DEF m, t
  <2>4. rtc[s] # "none"
    BY <1>i, <2>3 DEF Unborn
  <2>5. Order(s)' /\ Unborn(s)' /\ Fresh(s)' /\ Answered(s)' /\ ServerKeeps(s)'
    BY <1>i, <1>s, <2>1, <2>3, <2>4
       DEF Order, Unborn, Fresh, Answered, ServerKeeps, Alive, SameFields
  <2>6. BrowserKeeps(s)'
    <3>1. Alive(s)' <=> Alive(s)
      BY <1>s, <2>1 DEF Alive, SameFields
    <3>2. Alive(s) => remote[s] # 0
      BY <1>i, <2>3 DEF BrowserKeeps
    <3>3. remote[s] # 0 =>
            accepted'[s] \cup CandidatesIn(commands'[s]) = accepted[s] \cup CandidatesIn(commands[s])
      BY <2>1, <2>2, <2>3
    <3> QED
      BY <1>i, <1>s, <2>1, <3>1, <3>2, <3>3 DEF BrowserKeeps, SameFields
  <2> QED
    BY <2>5, <2>6 DEF SessionInv
<1>11. CASE LeaveLoop(s)
  <2>1. /\ peer[s] = "running" /\ peer'[s] = "closing"
        /\ UNCHANGED <<to_server, to_browser, main, events, commands, conn, remote, accepted, offered>>
    BY <1>11, <1>t DEF LeaveLoop, wires, channels, connection
  <2> QED
    BY <1>i, <1>s, <2>1
       DEF Order, Unborn, Fresh, Answered, SessionInv, BrowserKeeps, ServerKeeps, Alive
<1>12. CASE ClosePeerConnection(s)
  <2>1. /\ peer[s] = "closing" /\ peer'[s] = "ended" /\ conn'[s] = "closed"
        /\ UNCHANGED <<to_server, to_browser, main, events, commands, remote, accepted, offered>>
    BY <1>12, <1>t DEF ClosePeerConnection, wires, channels
  <2> QED
    BY <1>i, <1>s, <2>1
       DEF Order, Unborn, Fresh, Answered, SessionInv, BrowserKeeps, ServerKeeps, Alive
<1>13. CASE PeerAborted(s)
  <2>1. /\ peer[s] \in {"running", "closing"} /\ peer'[s] = "aborted"
        /\ UNCHANGED <<to_server, to_browser, main, events, commands, conn, remote, accepted, offered>>
    BY <1>13, <1>t DEF PeerAborted, wires, channels, connection
  <2> QED
    BY <1>i, <1>s, <2>1
       DEF Order, Unborn, Fresh, Answered, SessionInv, BrowserKeeps, ServerKeeps, Alive
<1>14. CASE Gather(s)
  <2> DEFINE m == Message("ice_candidate", offered[s] + 1)
  <2>1. /\ conn[s] # "none" /\ offered'[s] = offered[s] + 1
        /\ events'[s] = Append(events[s], m)
        /\ UNCHANGED <<to_server, to_browser, main, peer, commands, conn, remote, accepted>>
    BY <1>14, <1>t DEF Gather, wires, tasks, Emit
  <2>2. offered[s] \in 0 .. ServerCandidates /\ offered[s] < ServerCandidates
    BY <1>14 DEF Gather, Types, ServerTypes, ServerTypeOK
  <2>3. offered[s] + 1 \in 1 .. ServerCandidates
        /\ 1 .. offered[s] + 1 = (1 .. offered[s]) \cup {offered[s] + 1}
    BY <2>2, WireBounds
  <2>4. m \in FromServer /\ m.type = "ice_candidate" /\ m.id = offered[s] + 1
    BY <2>3, MessageTypes DEF Message
  <2> HIDE DEF m
  <2>5. CandidatesIn(events'[s]) = CandidatesIn(events[s]) \cup {offered[s] + 1}
    BY <1>q, <2>1, <2>4, CandidatesAppend
  <2>6. Order(s)' /\ Unborn(s)' /\ Answered(s)' /\ BrowserKeeps(s)'
    BY <1>i, <1>s, <2>1 DEF Order, Unborn, Answered, BrowserKeeps, Alive, SameFields
  <2>7. Fresh(s)'
    BY <1>i, <1>s, <2>1, <2>3, <2>5 DEF Fresh
  <2>8. ServerKeeps(s)'
    BY <1>i, <1>s, <2>1, <2>3, <2>5 DEF ServerKeeps, Alive, SameFields
  <2> QED
    BY <2>6, <2>7, <2>8 DEF SessionInv
<1>15. CASE StreamRemoved(s)
  <2>1. UNCHANGED <<to_server, to_browser, main, peer, events, commands, conn, remote, accepted, offered>>
    BY <1>15 DEF StreamRemoved, wires, tasks, channels, connection
  <2> QED
    BY <1>s, <2>1, Elsewhere DEF SameSession
<1>16. CASE ConnectionFailed(s) \/ ConnectionEstablished(s)
  <2>1. PICK m \in {Message("failed", 0), Message("established", 0)} :
           /\ conn[s] # "none" /\ conn'[s] # "none" /\ events'[s] = Append(events[s], m)
           /\ UNCHANGED <<to_server, to_browser, main, peer, commands, remote, accepted, offered>>
    BY <1>16, <1>t DEF ConnectionFailed, ConnectionEstablished, wires, tasks, Emit
  <2>2. m \in FromServer /\ m.type # "ice_candidate"
    BY MessageTypes DEF Message
  <2>3. CandidatesIn(events'[s]) = CandidatesIn(events[s])
    BY <1>q, <2>1, <2>2, CandidatesAppend
  <2>4. Order(s)' /\ Unborn(s)' /\ Answered(s)' /\ Fresh(s)'
    BY <1>i, <1>s, <2>1, <2>3 DEF Order, Unborn, Answered, Fresh
  <2>5. BrowserKeeps(s)' /\ ServerKeeps(s)'
    BY <1>i, <1>s, <2>1, <2>3 DEF BrowserKeeps, ServerKeeps, Alive, SameFields
  <2> QED
    BY <2>4, <2>5 DEF SessionInv
<1> QED
  BY <1>1, <1>2, <1>3, <1>4, <1>5, <1>6, <1>7, <1>8, <1>9, <1>10, <1>11, <1>12, <1>13, <1>14, <1>15,
     <1>16 DEF ServerStep

-----------------------------------------------------------------------------
(* The player's steps *)

\* Under HandlersAreOwn, whatever is busy belongs to the session at hand.
LEMMA Mine ==
  ASSUME Owner, HandlersAreOwn, NEW s \in Session,
         \/ queue[s] # <<>> \/ handler[s] # "ready"
         \/ rtc[s] \in {"answering", "connected"}
         \/ socket[s] \in {"connecting", "open"}
  PROVE  ws \in {0, s} /\ pc \in {0, s}
<1>1. s # 0
  BY WireBounds DEF Session
<1>2. ws \in {0, s}
  BY <1>1 DEF Owner, HandlersAreOwn
<1> QED
  BY <1>2 DEF Owner

\* play and stop close what the player owns,
LEMMA UserOwner ==
  ASSUME Types, Owner, UserStep
  PROVE  Owner'
<1>t. Total /\ pc \in {0} \cup Session /\ ws \in {0} \cup Session
  BY TypesTotal DEF Types, PlayerTypes, PlayerTypeOK
<1>1. /\ pc' = 0
      /\ rtc' = IF pc = 0 THEN rtc ELSE [rtc EXCEPT ![pc] = "closed"]
      /\ UNCHANGED <<handler, target, flushing, offer>>
  BY DEF UserStep, Play, Stop, CloseConnection, handlers
<1>2. ASSUME NEW r \in Session PROVE socket'[r] \in {"connecting", "open"} => ws' = r
  <2>1. CASE Stop
    BY <1>t, <1>2, <2>1 DEF Stop, Owner, Total
  <2>2. ASSUME NEW s \in Session, Play(s) PROVE socket'[r] \in {"connecting", "open"} => ws' = r
    BY <1>t, <1>2, <2>2 DEF Play, Owner, Total
  <2> QED
    BY <2>1, <2>2 DEF UserStep
<1>3. ASSUME NEW r \in Session
      PROVE  /\ rtc'[r] \in {"none", "closed"}
             /\ rtc[r] # "none" => rtc'[r] # "none"
  BY <1>t, <1>1, <1>3 DEF Owner, Total
<1> QED
  BY <1>1, <1>2, <1>3 DEF Owner

\* a handler does not reach beyond its session,
LEMMA HandlerOwner ==
  ASSUME Types, Owner, HandlersAreOwn, NEW s \in Session, Order(s), Unborn(s), HandlerStep(s)
  PROVE  Owner'
<1>t. Total /\ pc \in {0} \cup Session /\ ws \in {0} \cup Session /\ s # 0
  BY TypesTotal, WireBounds DEF Types, PlayerTypes, PlayerTypeOK, Session
<1> USE DEF Total
<1>1. CASE OnOpen(s)
  BY <1>t, <1>1 DEF OnOpen, Owner, player, fields, handlers, rtcs
<1>2. CASE OnClose(s)
  BY <1>2 DEF OnClose, Owner, wires, handlers, rtcs
<1>3. CASE OnMessage(s)
  BY <1>3 DEF OnMessage, Owner, fields, rtcs
<1>4. CASE HandleConnected(s)
  <2>1. HasConnected(queue[s])
    BY <1>4, QueuesAt, TailAnswers DEF HandleConnected, Takes
  <2>2. ws = s /\ rtc[s] = "none" /\ pc = 0
    BY <1>t, <2>1 DEF Order, Owner
  <2>3. /\ pc' = s /\ rtc' = [rtc EXCEPT ![s] = "new"]
        /\ UNCHANGED <<ws, socket, handler, target, flushing, offer>>
    BY <1>4 DEF HandleConnected, wires
  <2> QED
    BY <1>t, <2>2, <2>3 DEF Owner
<1>5. CASE HandleError(s)
  BY <1>5 DEF HandleError, Owner, wires, fields, rtcs
<1>6. CASE HandleCandidate(s)
  BY <1>6 DEF HandleCandidate, Owner, wires
<1>7. CASE HandleOffer(s)
  <2>1. pc \in {0, s}
    BY <1>7, Mine DEF HandleOffer, Takes
  <2> QED
    BY <1>t, <1>7, <2>1 DEF HandleOffer, Takes, Owner, wires, fields, rtcs
<1>8. CASE RemoteDescriptionSet(s)
  BY <1>t, <1>8 DEF RemoteDescriptionSet, Owner, wires, fields
<1>9. CASE LocalDescriptionSet(s)
  BY <1>t, <1>9 DEF LocalDescriptionSet, Owner, wires, fields
<1>10. CASE WaitThrows(s)
  BY <1>t, <1>10 DEF WaitThrows, Owner, wires, fields, rtcs
<1>11. CASE SendAnswer(s)
  BY <1>t, <1>11 DEF SendAnswer, Owner, rtcs
<1>12. CASE FlushCandidate(s)
  BY <1>t, <1>12 DEF FlushCandidate, Owner, wires, fields
<1>13. CASE FlushEnds(s)
  BY <1>t, <1>13 DEF FlushEnds, Owner, wires, rtcs
<1>14. CASE OnIceCandidate(s)
  BY <1>14 DEF OnIceCandidate, Owner, handlers
<1> QED
  BY <1>1, <1>2, <1>3, <1>4, <1>5, <1>6, <1>7, <1>8, <1>9, <1>10, <1>11, <1>12, <1>13, <1>14
     DEF HandlerStep

\* so every step keeps Owner.
LEMMA NextOwner ==
  ASSUME Types, Owner, \A r \in Session : Order(r) /\ Unborn(r), HandlersAreOwn, [Next]_vars
  PROVE  Owner'
<1>t. Total
  BY TypesTotal
<1>1. CASE UNCHANGED <<socket, player>>
  BY <1>1 DEF player, fields, handlers, rtcs, Owner
<1>2. CASE UNCHANGED vars
  BY <1>1, <1>2 DEF vars, wires
<1>3. CASE UserStep
  BY <1>3, UserOwner
<1>4. ASSUME NEW s \in Session, HandlerStep(s) PROVE Owner'
  BY <1>4, HandlerOwner
<1>5. ASSUME NEW s \in Session, ServerStep(s) \/ ConnectionFailed(s) \/ ConnectionEstablished(s),
             UNCHANGED player
      PROVE  Owner'
  <2>1. socket' = socket
    BY <1>5
       DEF ServerStep, AcceptRequest, AbandonRequest, AbandonPeer, PeerCreated, ForwardEvent,
           ReadMessage, ReaderEnds, DropPeer, RunAnswer, RunCandidate, LeaveLoop,
           ClosePeerConnection, PeerAborted, Gather, StreamRemoved, ConnectionFailed,
           ConnectionEstablished, wires
  <2> QED
    BY <1>1, <1>5, <2>1
<1>6. ASSUME NEW s \in Session, Connects(s) PROVE Owner'
  BY <1>5, <1>6 DEF Connects
<1>7. ASSUME NEW s \in Session, BrowserSeesState(s) PROVE Owner'
  <2>1. /\ rtc[s] \in {"answering", "connected"} /\ rtc'[s] \in {"connected", "failed"}
        /\ \A r \in Session \ {s} : rtc'[r] = rtc[r]
        /\ UNCHANGED <<socket, ws, pc, handler, target, flushing, offer>>
    BY <1>t, <1>7 DEF BrowserSeesState, OnConnectionState, wires, handlers, Total
  <2> QED
    BY <2>1 DEF Owner
<1>8. ASSUME NEW s \in Session, SocketDrops(s) PROVE Owner'
  BY <1>t, <1>8 DEF SocketDrops, fields, handlers, rtcs, Owner, Total
<1> QED
  BY <1>2, <1>3, <1>4, <1>5, <1>6, <1>7, <1>8 DEF Next

\* A handler's step is a step of one session.
LEMMA HandlerElsewhere ==
  ASSUME Total, Owner, HandlersAreOwn, ws \in {0} \cup Session,
         NEW s \in Session, NEW r \in Session \ {s}, HandlerStep(s), UNCHANGED server
  PROVE  SameSession(r) /\ ws' = ws /\ (SameFields \/ ~Alive(r)')
<1>z. r # 0 /\ s # 0
  BY WireBounds DEF Session
<1> USE DEF Total, SameSession, SameFields, wires, fields, handlers, rtcs, player, server, tasks, channels,
            connection, Alive
<1>a. ASSUME ws \in {0, s}, ws' = ws PROVE ~Alive(r)'
  BY <1>z, <1>a
<1> HIDE DEF Alive
<1>1. CASE OnOpen(s)
  BY <1>1 DEF OnOpen
<1>2. CASE OnClose(s)
  BY <1>2 DEF OnClose
<1>3. CASE OnMessage(s)
  BY <1>3 DEF OnMessage
<1>4. ASSUME NEW t, Takes(s, t) PROVE ws \in {0, s} /\ pc \in {0, s}
  BY <1>4, Mine DEF Takes
<1>5. CASE HandleConnected(s)
  BY <1>a, <1>4, <1>5 DEF HandleConnected, Takes
<1>6. CASE HandleError(s)
  BY <1>6 DEF HandleError, Takes
<1>7. CASE HandleCandidate(s)
  BY <1>a, <1>4, <1>7 DEF HandleCandidate, Takes
<1>8. CASE HandleOffer(s)
  BY <1>8 DEF HandleOffer, Takes
<1>9. CASE RemoteDescriptionSet(s)
  <2>1. target[s] = s
    BY <1>9 DEF RemoteDescriptionSet, Owner
  <2> QED
    BY <1>9, <2>1 DEF RemoteDescriptionSet
<1>10. CASE LocalDescriptionSet(s)
  <2>1. target[s] = s
    BY <1>10 DEF LocalDescriptionSet, Owner
  <2> QED
    BY <1>10, <2>1 DEF LocalDescriptionSet
<1>11. CASE WaitThrows(s)
  BY <1>11 DEF WaitThrows
<1>12. CASE SendAnswer(s)
  <2>1. ws = s
    BY <1>12, Mine DEF SendAnswer, Owner
  <2> QED
    BY <1>a, <1>12, <2>1 DEF SendAnswer
<1>13. CASE FlushCandidate(s)
  <2>1. pc \in {0, s}
    BY <1>13, Mine DEF FlushCandidate
  <2> QED
    BY <1>13, <2>1 DEF FlushCandidate
<1>14. CASE FlushEnds(s)
  <2>1. ws \in {0, s}
    BY <1>14, Mine DEF FlushEnds
  <2> QED
    BY <1>a, <1>14, <2>1 DEF FlushEnds
<1>15. CASE OnIceCandidate(s)
  <2>1. ws = s
    BY <1>z, <1>15 DEF OnIceCandidate, Owner
  <2> QED
    BY <1>a, <1>15, <2>1 DEF OnIceCandidate
<1> QED
  BY <1>1, <1>2, <1>3, <1>5, <1>6, <1>7, <1>8, <1>9, <1>10, <1>11, <1>12, <1>13, <1>14, <1>15
     DEF HandlerStep

\* play and stop end every live session, and disturb nothing else.
LEMMA UserSession ==
  ASSUME Types, Owner, UserStep, UNCHANGED server, NEW r \in Session, SessionInv(r)
  PROVE  SessionInv(r)'
<1>t. Total /\ pc \in {0} \cup Session /\ ws \in {0} \cup Session /\ r # 0
  BY TypesTotal, WireBounds DEF Types, PlayerTypes, PlayerTypeOK, Session
<1>i. Order(r) /\ Unborn(r) /\ Fresh(r) /\ Answered(r)
  BY DEF SessionInv
<1>1. /\ pc' = 0 /\ Settled
      /\ rtc' = IF pc = 0 THEN rtc ELSE [rtc EXCEPT ![pc] = "closed"]
      /\ UNCHANGED <<queue, handler, flushing, offer, added, gathered, to_server, to_browser>>
  BY DEF UserStep, Play, Stop, CloseConnection, handlers
<1>2. UNCHANGED <<main, peer, events, commands, conn, remote, accepted, offered>>
  BY DEF server, tasks, channels, connection
<1>3. rtc'[r] = "none" <=> rtc[r] = "none"
  BY <1>t, <1>1 DEF Owner, Total
<1>4. /\ socket'[r] # "open"
      /\ socket'[r] \in {"unopened", "connecting"} => socket[r] \in {"unopened", "connecting"}
  <2>1. CASE Stop
    BY <1>t, <2>1 DEF Stop, Owner, Total
  <2>2. ASSUME NEW s \in Session, Play(s)
        PROVE  /\ socket'[r] # "open"
               /\ socket'[r] \in {"unopened", "connecting"} => socket[r] \in {"unopened", "connecting"}
    BY <1>t, <2>2 DEF Play, Owner, Total
  <2> QED
    BY <2>1, <2>2 DEF UserStep
<1>5. ~HasConnected(queue[r])
  <2>1. handler[r] = "ready" => queue[r] = <<>>
    BY <1>1 DEF Settled
  <2> QED
    BY <1>i, <2>1, EmptyQueue DEF Order
<1>6. Order(r)'
  BY <1>i, <1>1, <1>2, <1>3, <1>4, <1>5 DEF Order
<1>7. Unborn(r)' /\ Fresh(r)' /\ Answered(r)'
  BY <1>i, <1>1, <1>2, <1>3, <1>4 DEF Unborn, Fresh, Answered
<1>8. ~Alive(r)'
  BY <1>t, <1>1 DEF Alive
<1> QED
  BY <1>6, <1>7, <1>8 DEF SessionInv, BrowserKeeps, ServerKeeps

\* Nor does what the player sees of its connection, or the loss of a socket.
LEMMA SeenSession ==
  ASSUME Types, NEW s \in Session, BrowserSeesState(s) \/ SocketDrops(s),
         NEW r \in Session, SessionInv(r)
  PROVE  SessionInv(r)'
<1>t. Total
  BY TypesTotal
<1>i. Order(r) /\ Unborn(r) /\ Fresh(r) /\ Answered(r) /\ BrowserKeeps(r) /\ ServerKeeps(r)
  BY DEF SessionInv
<1> USE DEF Total, SameFields, wires, fields, handlers, rtcs, server, tasks, channels, connection
<1>1. CASE BrowserSeesState(s)
  <2>1. /\ rtc'[r] = "none" <=> rtc[r] = "none"
        /\ UNCHANGED <<socket, to_server, to_browser, ws, queue, handler, flushing, offer, added,
                       gathered, main, peer, events, commands, conn, remote, accepted, offered>>
        /\ SameFields
    BY <1>t, <1>1 DEF BrowserSeesState, OnConnectionState
  <2>2. Order(r)' /\ Unborn(r)' /\ Fresh(r)' /\ Answered(r)'
    BY <1>i, <2>1 DEF Order, Unborn, Fresh, Answered
  <2>3. BrowserKeeps(r)' /\ ServerKeeps(r)'
    BY <1>i, <2>1 DEF BrowserKeeps, ServerKeeps, Alive
  <2> QED
    BY <2>2, <2>3 DEF SessionInv
<1>2. CASE SocketDrops(s)
  <2>1. /\ socket'[r] \in {socket[r], "closed"}
        /\ UNCHANGED <<to_server, to_browser, ws, queue, handler, flushing, rtc, offer, added,
                       gathered, main, peer, events, commands, conn, remote, accepted, offered>>
        /\ SameFields
    BY <1>t, <1>2 DEF SocketDrops
  <2>2. Order(r)' /\ Unborn(r)' /\ Fresh(r)' /\ Answered(r)'
    BY <1>i, <2>1 DEF Order, Unborn, Fresh, Answered
  <2>3. BrowserKeeps(r)' /\ ServerKeeps(r)'
    BY <1>i, <2>1 DEF BrowserKeeps, ServerKeeps, Alive
  <2> QED
    BY <2>2, <2>3 DEF SessionInv
<1> QED
  BY <1>1, <1>2

\* The numbers of remote candidates.
LEMMA NumbersOf ==
  /\ Numbers({}) = {}
  /\ \A C, D : Numbers(C \cup D) = Numbers(C) \cup Numbers(D)
  /\ \A C, c : Numbers(C \cup {c}) = Numbers(C) \cup {c[2]}
  /\ \A C, D : C \subseteq D => Numbers(C) \subseteq Numbers(D)
BY DEF Numbers

\* A handler's step keeps the invariant of its own session.
LEMMA OwnHandlerStep ==
  ASSUME Types, Owner, HandlersAreOwn, NEW s \in Session, SessionInv(s), HandlerStep(s),
         UNCHANGED server
  PROVE  SessionInv(s)'
<1>t. Total /\ pc \in {0} \cup Session /\ ws \in {0} \cup Session /\ s # 0
  BY TypesTotal, WireBounds DEF Types, PlayerTypes, PlayerTypeOK, Session
<1>q. /\ to_server[s] \in Seq(FromBrowser) /\ commands[s] \in Seq(FromBrowser)
      /\ to_browser[s] \in Seq(FromServer) /\ events[s] \in Seq(FromServer)
      /\ queue[s] \in Seq(FromServer) /\ flushing[s] \in Seq(RemoteCandidate)
      /\ pendingCandidates \in Seq(RemoteCandidate)
      /\ pendingLocalCandidates \in Seq(LocalCandidate)
  BY QueuesAt DEF Types, PlayerTypes
<1>i. Order(s) /\ Unborn(s) /\ Fresh(s) /\ Answered(s) /\ BrowserKeeps(s) /\ ServerKeeps(s)
  BY DEF SessionInv
<1>s. UNCHANGED <<main, peer, events, commands, conn, remote, accepted, offered>>
  BY DEF server, tasks, channels, connection
<1>o. ASSUME handler[s] # "ready" \/ queue[s] # <<>> \/ socket[s] \in {"connecting", "open"}
      PROVE  ws \in {0, s} /\ pc \in {0, s}
  BY <1>o, Mine
<1>k. ASSUME NEW t, Takes(s, t)
      PROVE  /\ handler[s] = "ready" /\ queue[s] # <<>> /\ queue'[s] = Tail(queue[s])
             /\ Head(queue[s]) \in FromServer /\ Head(queue[s]).type = t
             /\ ~HasConnected(queue'[s]) /\ ConnectedFirst(queue'[s])
             /\ t = "connected" => rtc[s] = "none" /\ ws = s
             /\ CandidatesIn(queue[s]) =
                  IF t = "ice_candidate" THEN CandidatesIn(queue'[s]) \cup {Head(queue[s]).id}
                  ELSE CandidatesIn(queue'[s])
  <2>1. /\ handler[s] = "ready" /\ queue[s] # <<>> /\ queue'[s] = Tail(queue[s])
        /\ Head(queue[s]).type = t
    BY <1>t, <1>k DEF Takes, Total
  <2>2. Head(queue[s]) \in FromServer /\ Tail(queue[s]) \in Seq(FromServer)
    BY <1>q, <2>1
  <2>3. ConnectedFirst(queue[s])
    BY <1>i DEF Order
  <2>4. ~HasConnected(Tail(queue[s])) /\ (t = "connected" => HasConnected(queue[s]))
    BY <1>q, <2>1, <2>3, TailAnswers
  <2>5. ConnectedFirst(Tail(queue[s]))
    BY <2>4 DEF HasConnected, ConnectedFirst
  <2>6. CandidatesIn(queue[s]) =
          IF t = "ice_candidate" THEN CandidatesIn(Tail(queue[s])) \cup {Head(queue[s]).id}
          ELSE CandidatesIn(Tail(queue[s]))
    BY <1>q, <2>1, CandidatesTail
  <2>7. t = "connected" => rtc[s] = "none" /\ ws = s
    BY <1>i, <2>4 DEF Order
  <2> QED
    BY <2>1, <2>2, <2>4, <2>5, <2>6, <2>7
<1> USE DEF Total, SameFields, wires, fields, handlers, rtcs
<1>1. CASE OnOpen(s)
  <2> DEFINE m == Message("request_stream", 0)
  <2>1. /\ socket[s] = "connecting" /\ socket'[s] = "open"
        /\ to_server'[s] = Append(to_server[s], m)
        /\ UNCHANGED <<to_browser, player>>
    BY <1>t, <1>1 DEF OnOpen
  <2>2. main[s] = "waiting" /\ to_server[s] = <<>> /\ rtc[s] = "none"
    BY <1>i, <2>1 DEF Order
  <2>3. m \in FromBrowser /\ m.type = "request_stream"
    BY MessageTypes DEF Message
  <2> HIDE DEF m
  <2>4. /\ CandidatesIn(to_server'[s]) = {} /\ ~HasAnswer(to_server'[s])
        /\ AnswersOf(to_server'[s], s)
    <3>1. <<>> \in Seq(FromBrowser)
      BY Empty
    <3>2. CandidatesIn(Append(<<>>, m)) = CandidatesIn(<<>>)
      BY <2>3, <3>1, CandidatesAppend
    <3>3. ~HasAnswer(Append(<<>>, m)) /\ AnswersOf(Append(<<>>, m), s)
      BY <2>3, <3>1, AppendAnswers, EmptyQueue
    <3> QED
      BY <2>1, <2>2, <3>2, <3>3, EmptyQueue
  <2> QED
    BY <1>i, <1>s, <2>1, <2>2, <2>4
       DEF player, Order, Unborn, Fresh, Answered, SessionInv, BrowserKeeps, ServerKeeps, Alive
<1>2. CASE OnClose(s)
  BY <1>s, <1>2, Elsewhere DEF OnClose, SameSession
<1>3. CASE OnMessage(s)
  <2> DEFINE m == Head(to_browser[s])
             t == Tail(to_browser[s])
             q == Append(queue[s], m)
  <2>1. /\ socket[s] = "open" /\ to_browser[s] # <<>> /\ to_browser'[s] = t /\ queue'[s] = q
        /\ handler[s] = "ready" => queue[s] = <<>>
        /\ UNCHANGED <<socket, to_server, fields, handler, flushing, rtcs>>
    BY <1>t, <1>3 DEF OnMessage, Settled
  <2>2. m \in FromServer /\ t \in Seq(FromServer)
    BY <1>q, <2>1
  <2>3. /\ m.type = "ice_candidate" =>
             /\ CandidatesIn(to_browser[s]) = CandidatesIn(t) \cup {m.id}
             /\ CandidatesIn(q) = CandidatesIn(queue[s]) \cup {m.id}
        /\ m.type # "ice_candidate" =>
             /\ CandidatesIn(to_browser[s]) = CandidatesIn(t)
             /\ CandidatesIn(q) = CandidatesIn(queue[s])
    BY <1>q, <2>1, <2>2, CandidatesTail, CandidatesAppend
  <2>4. /\ ConnectedFirst(to_browser[s]) => ~HasConnected(t)
        /\ m.type = "connected" => HasConnected(to_browser[s])
    BY <1>q, <2>1, TailAnswers
  <2>5. /\ ConnectedFirst(queue[s]) /\ (m.type = "connected" => queue[s] = <<>>) => ConnectedFirst(q)
        /\ HasConnected(q) <=> HasConnected(queue[s]) \/ m.type = "connected"
    BY <1>q, <2>2, AppendAnswers
  <2>6. q # <<>> /\ (queue[s] # <<>> => Head(q) = Head(queue[s])) /\ (queue[s] = <<>> => Head(q) = m)
    BY <1>q, <2>2, AppendHead
  <2> HIDE DEF m, t, q
  <2>7. ConnectedFirst(t)
    BY <1>i, <2>4 DEF Order, HasConnected, ConnectedFirst
  <2>8. main[s] \notin {"waiting", "creating"}
    BY <1>i, <2>1 DEF Order
  <2>9. rtc[s] = "none" => handler[s] = "ready"
    BY DEF Owner
  <2>10. ws = s
    BY <2>1 DEF Owner
  <2>11. Order(s)' /\ Unborn(s)' /\ Answered(s)'
    BY <1>i, <1>s, <2>1, <2>4, <2>5, <2>7, <2>8, <2>9, <2>10 DEF Order, Unborn, Answered
  <2>12. CandidatesIn(to_browser'[s]) \cup CandidatesIn(queue'[s]) =
           CandidatesIn(to_browser[s]) \cup CandidatesIn(queue[s])
    BY <2>1, <2>3
  <2>13. Fresh(s)'
    BY <1>i, <1>s, <2>1, <2>6, <2>9, <2>12 DEF Fresh, m
  <2>14. BrowserKeeps(s)'
    BY <1>i, <1>s, <2>1 DEF BrowserKeeps, Alive
  <2>15. ServerKeeps(s)'
    BY <1>i, <1>s, <2>1, <2>12 DEF ServerKeeps, Alive
  <2> QED
    BY <2>11, <2>13, <2>14, <2>15 DEF SessionInv
<1>4. CASE HandleConnected(s)
  <2>1. /\ rtc[s] = "none" /\ ws = s /\ rtc'[s] = "new" /\ pc' = s
        /\ ResetFlags
        /\ UNCHANGED <<socket, to_server, to_browser, ws, handler, flushing, offer, added, gathered>>
    BY <1>t, <1>k, <1>4 DEF HandleConnected
  <2>2. /\ handler[s] = "ready" /\ queue[s] # <<>>
        /\ ~HasConnected(queue'[s]) /\ ConnectedFirst(queue'[s])
        /\ CandidatesIn(queue[s]) = CandidatesIn(queue'[s])
    BY <1>k, <1>4 DEF HandleConnected
  <2>3. /\ offer[s] = 0 /\ added[s] = {} /\ gathered[s] = 0 /\ accepted[s] = {} /\ remote[s] = 0
        /\ CandidatesIn(to_server[s]) = {} /\ CandidatesIn(commands[s]) = {}
    BY <1>i, <2>1 DEF Unborn
  <2>4. main[s] \notin {"waiting", "creating"} /\ ~HasConnected(to_browser[s])
    BY <1>i, <2>2 DEF Order
  <2>5. Order(s)' /\ Unborn(s)' /\ Fresh(s)' /\ Answered(s)'
    BY <1>i, <1>s, <2>1, <2>2, <2>4 DEF Order, Unborn, Fresh, Answered
  <2>6. AnswerFirst(to_server[s]) /\ AnswerFirst(commands[s])
    BY <1>q, <2>3, NoCandidates
  <2>7. BrowserKeeps(s)'
    BY <1>s, <2>1, <2>3, <2>6, EmptyQueue DEF BrowserKeeps, ResetFlags
  <2>8. flushing[s] = <<>>
    BY <2>2 DEF Owner
  <2>9. ServerKeeps(s)'
    <3>1. Alive(s)' => main[s] = "forwarding" /\ socket[s] = "open"
      BY <1>s, <2>1 DEF Alive
    <3> QED
      BY <1>i, <1>s, <2>1, <2>2, <2>3, <2>8, <3>1, EmptyQueue, NumbersOf DEF ServerKeeps, ResetFlags, Fresh
  <2> QED
    BY <2>5, <2>7, <2>9 DEF SessionInv
<1>5. CASE HandleError(s)
  <2>1. /\ handler[s] = "ready" /\ queue[s] # <<>>
        /\ ~HasConnected(queue'[s]) /\ ConnectedFirst(queue'[s])
        /\ CandidatesIn(queue[s]) = CandidatesIn(queue'[s])
        /\ Head(queue[s]).type # "connected"
        /\ UNCHANGED <<wires, fields, handler, flushing, rtcs>>
    BY <1>k, <1>5 DEF HandleError
  <2>2. main[s] \notin {"waiting", "creating"} /\ ~HasConnected(to_browser[s])
    BY <1>i, <2>1 DEF Order
  <2>3. Order(s)' /\ Unborn(s)' /\ Answered(s)' /\ BrowserKeeps(s)' /\ ServerKeeps(s)'
    BY <1>i, <1>s, <2>1, <2>2 DEF Order, Unborn, Answered, BrowserKeeps, ServerKeeps, Alive
  <2>4. Fresh(s)'
    BY <1>i, <1>s, <2>1, <2>2 DEF Fresh
  <2> QED
    BY <2>3, <2>4 DEF SessionInv
<1>f. ASSUME handler[s] = "ready", queue[s] # <<>>, Head(queue[s]).type # "connected",
             UNCHANGED <<socket, ws, rtc>>
      PROVE  Fresh(s)'
  BY <1>i, <1>f, <1>s DEF Fresh, Order
<1>6. CASE HandleCandidate(s)
  <2> DEFINE n == Head(queue[s]).id
             c == <<s, n>>
  <2>1. /\ handler[s] = "ready" /\ queue[s] # <<>>
        /\ ~HasConnected(queue'[s]) /\ ConnectedFirst(queue'[s])
        /\ CandidatesIn(queue[s]) = CandidatesIn(queue'[s]) \cup {n}
        /\ Head(queue[s]).type # "connected"
        /\ Head(queue[s]) \in FromServer /\ Head(queue[s]).type = "ice_candidate"
    BY <1>k, <1>6 DEF HandleCandidate
  <2>2. UNCHANGED <<wires, ws, pc, remoteDescReady, localAnswerSent, pendingLocalCandidates,
                    handler, flushing, rtc, offer, gathered>>
    BY <1>6 DEF HandleCandidate
  <2>3. c \in RemoteCandidate /\ c[2] = n
    BY <2>1, CandidateNumber DEF RemoteCandidate
  <2>4. pc \in {0, s}
    BY <1>o, <2>1
  <2>5. /\ remoteDescReady => pendingCandidates' = pendingCandidates
        /\ remoteDescReady /\ pc = s /\ offer[s] # 0 => added'[s] = added[s] \cup {c}
        /\ ~remoteDescReady => pendingCandidates' = Append(pendingCandidates, c)
        /\ ~remoteDescReady \/ offer[s] = 0 => added'[s] = added[s]
    <3>1. CASE pc = 0
      BY <1>t, <1>6, <3>1 DEF HandleCandidate
    <3>2. CASE pc = s
      BY <1>t, <1>6, <3>2 DEF HandleCandidate
    <3> QED
      BY <2>4, <3>1, <3>2
  <2> HIDE DEF n, c
  <2>6. ToSet(Append(pendingCandidates, c)) = ToSet(pendingCandidates) \cup {c}
    BY <1>q, <2>3, ToSetAppend
  <2>7. main[s] \notin {"waiting", "creating"} /\ ~HasConnected(to_browser[s])
    BY <1>i, <2>1 DEF Order
  <2>8. Order(s)' /\ Answered(s)' /\ BrowserKeeps(s)'
    BY <1>i, <1>s, <2>1, <2>2, <2>7 DEF Order, Answered, BrowserKeeps, Alive
  <2>9. Unborn(s)'
    BY <1>i, <1>s, <2>2, <2>5 DEF Unborn
  <2>10. Fresh(s)'
    BY <1>f, <2>1, <2>2
  <2>11. ServerKeeps(s)'
    <3>1. Alive(s)' <=> Alive(s)
      BY <1>s, <2>2 DEF Alive
    <3> SUFFICES ASSUME Alive(s) PROVE ServerKeeps(s)'
      BY <3>1 DEF ServerKeeps
    <3>2. pc = s /\ (remoteDescReady => offer[s] # 0)
      BY <1>i DEF ServerKeeps, Alive
    <3>3. Numbers(added'[s]) \cup Numbers(ToSet(pendingCandidates')) =
            Numbers(added[s]) \cup Numbers(ToSet(pendingCandidates)) \cup {n}
      <4>1. CASE remoteDescReady
        <5>1. added'[s] = added[s] \cup {c} /\ pendingCandidates' = pendingCandidates
          BY <2>5, <3>2, <4>1
        <5>2. Numbers(added[s] \cup {c}) = Numbers(added[s]) \cup {n}
          BY <2>3, NumbersOf
        <5> QED
          BY <5>1, <5>2
      <4>2. CASE ~remoteDescReady
        <5>1. /\ added'[s] = added[s]
              /\ ToSet(pendingCandidates') = ToSet(pendingCandidates) \cup {c}
          BY <2>5, <2>6, <4>2
        <5>2. Numbers(ToSet(pendingCandidates) \cup {c}) =
                Numbers(ToSet(pendingCandidates)) \cup {n}
          BY <2>3, NumbersOf
        <5> QED
          BY <5>1, <5>2
      <4> QED
        BY <4>1, <4>2
    <3>4. handler'[s] # "flushing" /\ (remoteDescReady' => offer'[s] # 0)
      BY <2>1, <2>2, <3>2
    <3> QED
      BY <1>i, <1>s, <2>1, <2>2, <3>3, <3>4 DEF ServerKeeps
  <2> QED
    BY <2>8, <2>9, <2>10, <2>11 DEF SessionInv
<1>7. CASE HandleOffer(s)
  <2>1. /\ handler[s] = "ready" /\ queue[s] # <<>>
        /\ ~HasConnected(queue'[s]) /\ ConnectedFirst(queue'[s])
        /\ CandidatesIn(queue[s]) = CandidatesIn(queue'[s])
        /\ Head(queue[s]).type # "connected"
    BY <1>k, <1>7 DEF HandleOffer
  <2>2. /\ handler'[s] \in {"ready", "setting_remote"}
        /\ UNCHANGED <<wires, fields, flushing, rtcs>>
    BY <1>t, <1>7 DEF HandleOffer
  <2>3. main[s] \notin {"waiting", "creating"} /\ ~HasConnected(to_browser[s])
    BY <1>i, <2>1 DEF Order
  <2>4. Order(s)' /\ Unborn(s)' /\ Answered(s)' /\ BrowserKeeps(s)' /\ ServerKeeps(s)'
    BY <1>i, <1>s, <2>1, <2>2, <2>3 DEF Order, Unborn, Answered, BrowserKeeps, ServerKeeps, Alive
  <2>5. Fresh(s)'
    BY <1>f, <2>1, <2>2
  <2> QED
    BY <2>4, <2>5 DEF SessionInv
<1>w. ASSUME handler[s] # "ready", UNCHANGED <<socket, to_browser, ws, queue, rtc>>
      PROVE  Fresh(s)'
  BY <1>w, <1>s DEF Fresh, Owner
<1>8. CASE RemoteDescriptionSet(s)
  <2>1. /\ handler[s] = "setting_remote" /\ target[s] = s /\ rtc[s] # "none"
    BY <1>8 DEF RemoteDescriptionSet, Owner
  <2>2. /\ offer'[s] = s /\ handler'[s] = "setting_local"
        /\ UNCHANGED <<wires, fields, queue, flushing, rtc, added, gathered>>
    BY <1>t, <1>8, <2>1 DEF RemoteDescriptionSet
  <2>3. Order(s)' /\ Unborn(s)' /\ Answered(s)' /\ BrowserKeeps(s)'
    BY <1>i, <1>s, <2>1, <2>2 DEF Order, Unborn, Answered, BrowserKeeps, Alive
  <2>4. Fresh(s)'
    BY <1>w, <2>1, <2>2
  <2>5. ServerKeeps(s)'
    BY <1>i, <1>s, <1>t, <2>2 DEF ServerKeeps, Alive
  <2> QED
    BY <2>3, <2>4, <2>5 DEF SessionInv
<1>9. CASE LocalDescriptionSet(s)
  <2>1. /\ handler[s] = "setting_local" /\ target[s] = s /\ rtc[s] = "new"
    BY <1>9 DEF LocalDescriptionSet, Owner
  <2>2. /\ rtc'[s] = "answering" /\ handler'[s] = "waiting_ice"
        /\ UNCHANGED <<wires, fields, queue, flushing, offer, added, gathered>>
    BY <1>t, <1>9, <2>1 DEF LocalDescriptionSet
  <2>3. Order(s)' /\ Unborn(s)' /\ Answered(s)' /\ BrowserKeeps(s)' /\ ServerKeeps(s)'
    BY <1>i, <1>s, <2>1, <2>2 DEF Order, Unborn, Answered, BrowserKeeps, ServerKeeps, Alive
  <2>4. Fresh(s)'
    BY <2>2 DEF Fresh
  <2> QED
    BY <2>3, <2>4 DEF SessionInv
<1>10. CASE WaitThrows(s)
  <2>1. /\ handler[s] = "waiting_ice" /\ handler'[s] = "ready"
        /\ UNCHANGED <<wires, fields, queue, flushing, rtcs>>
    BY <1>t, <1>10 DEF WaitThrows
  <2>2. Order(s)' /\ Unborn(s)' /\ Answered(s)' /\ BrowserKeeps(s)' /\ ServerKeeps(s)'
    BY <1>i, <1>s, <2>1 DEF Order, Unborn, Answered, BrowserKeeps, ServerKeeps, Alive
  <2>3. Fresh(s)'
    BY <1>w, <2>1
  <2> QED
    BY <2>2, <2>3 DEF SessionInv
<1>11. CASE SendAnswer(s)
  <2> DEFINE a == Message("sdp_answer", AnswerOf(s))
             q == Append(to_server[s], a)
             p == pendingLocalCandidates
  <2>1. handler[s] = "waiting_ice" /\ pc = s /\ ws = s /\ target[s] = s /\ rtc[s] # "none"
        /\ offer[s] = s /\ flushing[s] = <<>>
    BY <1>o, <1>11 DEF SendAnswer, Owner
  <2>2. /\ localAnswerSent' = TRUE /\ remoteDescReady' = TRUE
        /\ handler'[s] = "flushing" /\ flushing'[s] = pendingCandidates
        /\ UNCHANGED <<socket, to_browser, ws, pc, pendingCandidates, queue, rtcs>>
    BY <1>t, <1>11 DEF SendAnswer
  <2>3. IF socket[s] = "open" THEN to_server'[s] = q \o p /\ pendingLocalCandidates' = <<>>
        ELSE to_server'[s] = to_server[s] /\ pendingLocalCandidates' = p
    BY <1>t, <1>11, <2>1 DEF SendAnswer
  <2>4. AnswerOf(s) = s
    BY <2>1 DEF AnswerOf
  <2>5. a \in FromBrowser /\ a.type = "sdp_answer" /\ a.id = s
    BY <2>4, MessageTypes DEF Message
  <2>6. p \in Seq(FromBrowser) /\ \A i \in DOMAIN p : p[i].type = "ice_candidate"
    <3>1. p \in Seq(LocalCandidate)
      BY <1>q
    <3>2. p \in Seq(FromBrowser)
      BY <3>1, Wider DEF FromBrowser
    <3>3. \A i \in DOMAIN p : p[i] \in LocalCandidate
      BY <3>1
    <3> QED
      BY <3>2, <3>3 DEF LocalCandidate
  <2> HIDE DEF a
  <2>7. /\ q \in Seq(FromBrowser) /\ HasAnswer(q)
        /\ AnswerFirst(to_server[s]) => AnswerFirst(q)
        /\ AnswersOf(to_server[s], s) => AnswersOf(q, s)
        /\ CandidatesIn(q) = CandidatesIn(to_server[s])
    <3>1. q \in Seq(FromBrowser)
      BY <1>q, <2>5, Appended
    <3>2. CandidatesIn(q) = CandidatesIn(to_server[s])
      BY <1>q, <2>5, CandidatesAppend
    <3> QED
      BY <1>q, <2>5, <3>1, <3>2, AppendAnswers
  <2> HIDE DEF q, p
  <2>8. /\ HasAnswer(q \o p) /\ (AnswerFirst(q) => AnswerFirst(q \o p))
        /\ AnswersOf(q, s) => AnswersOf(q \o p, s)
        /\ CandidatesIn(q \o p) = CandidatesIn(q) \cup CandidatesIn(p)
    <3>1. CandidatesIn(q \o p) = CandidatesIn(q) \cup CandidatesIn(p)
      BY <2>6, <2>7, CandidatesConcat
    <3> QED
      BY <2>6, <2>7, <3>1, ConcatAnswers
  <2>9. Order(s)' /\ Unborn(s)' /\ Answered(s)'
    <3>1. socket[s] \in {"unopened", "connecting"} => to_server'[s] = to_server[s]
      BY <2>3
    <3>2. AnswersOf(to_server'[s], s)
      BY <1>i, <2>3, <2>7, <2>8 DEF Answered
    <3> QED
      BY <1>i, <1>s, <2>1, <2>2, <3>1, <3>2 DEF Order, Unborn, Answered
  <2>10. Fresh(s)'
    BY <1>w, <2>1, <2>2
  <2>11. BrowserKeeps(s)'
    <3>1. Alive(s)' <=> Alive(s)
      BY <1>s, <2>2 DEF Alive
    <3> SUFFICES ASSUME Alive(s) PROVE BrowserKeeps(s)'
      BY <3>1 DEF BrowserKeeps
    <3>2. to_server'[s] = q \o p /\ pendingLocalCandidates' = <<>>
      BY <2>3 DEF Alive
    <3>3. CandidatesIn(pendingLocalCandidates') \cup CandidatesIn(to_server'[s]) =
            CandidatesIn(pendingLocalCandidates) \cup CandidatesIn(to_server[s])
      BY <2>7, <2>8, <3>2, EmptyQueue DEF p
    <3>4. HasAnswer(to_server'[s]) /\ (AnswerFirst(to_server[s]) => AnswerFirst(to_server'[s]))
      BY <2>7, <2>8, <3>2
    <3> QED
      BY <1>i, <1>s, <2>2, <3>3, <3>4 DEF BrowserKeeps
  <2>12. ServerKeeps(s)'
    BY <1>i, <1>s, <1>t, <2>1, <2>2, EmptyQueue, NumbersOf DEF ServerKeeps, Alive
  <2> QED
    BY <2>9, <2>10, <2>11, <2>12 DEF SessionInv
<1>12. CASE FlushCandidate(s)
  <2> DEFINE h == Head(flushing[s])
             t == Tail(flushing[s])
  <2>1. /\ handler[s] = "flushing" /\ offer[s] = s /\ flushing[s] # <<>>
        /\ flushing'[s] = t /\ rtc[s] # "none"
        /\ UNCHANGED <<wires, fields, queue, handler, rtc, offer, gathered>>
    BY <1>t, <1>12 DEF FlushCandidate, Owner
  <2>2. pc = s => added'[s] = added[s] \cup {h}
    BY <1>t, <1>12, <2>1 DEF FlushCandidate
  <2>3. ToSet(flushing[s]) = ToSet(t) \cup {h}
    BY <1>q, <2>1, ToSetTail
  <2> HIDE DEF h, t
  <2>4. Order(s)' /\ Unborn(s)' /\ Answered(s)' /\ BrowserKeeps(s)'
    BY <1>i, <1>s, <2>1 DEF Order, Unborn, Answered, BrowserKeeps, Alive
  <2>5. Fresh(s)'
    BY <1>w, <2>1
  <2>6. ServerKeeps(s)'
    <3>1. Alive(s)' <=> Alive(s)
      BY <1>s, <2>1 DEF Alive
    <3> SUFFICES ASSUME Alive(s) PROVE ServerKeeps(s)'
      BY <3>1 DEF ServerKeeps
    <3>2. added'[s] \cup ToSet(flushing'[s]) = added[s] \cup ToSet(flushing[s])
      <4>1. added'[s] = added[s] \cup {h} /\ ToSet(flushing'[s]) = ToSet(t)
        BY <2>1, <2>2 DEF Alive
      <4> QED
        BY <2>3, <4>1
    <3>3. Numbers(added'[s]) \cup Numbers(ToSet(flushing'[s])) =
            Numbers(added[s]) \cup Numbers(ToSet(flushing[s]))
      <4>1. Numbers(added'[s] \cup ToSet(flushing'[s])) =
              Numbers(added'[s]) \cup Numbers(ToSet(flushing'[s]))
        BY NumbersOf
      <4>2. Numbers(added[s] \cup ToSet(flushing[s])) =
              Numbers(added[s]) \cup Numbers(ToSet(flushing[s]))
        BY NumbersOf
      <4> QED
        BY <3>2, <4>1, <4>2
    <3> QED
      BY <1>i, <1>s, <2>1, <3>2, <3>3 DEF ServerKeeps
  <2> QED
    BY <2>4, <2>5, <2>6 DEF SessionInv
<1>13. CASE FlushEnds(s)
  <2>1. /\ handler[s] = "flushing" /\ flushing[s] = <<>> /\ rtc[s] # "none"
        /\ pendingCandidates' = <<>> /\ handler'[s] = "ready"
        /\ UNCHANGED <<wires, ws, pc, remoteDescReady, localAnswerSent, pendingLocalCandidates,
                       queue, flushing, rtcs>>
    BY <1>t, <1>13 DEF FlushEnds, Owner
  <2>2. Order(s)' /\ Unborn(s)' /\ Answered(s)' /\ BrowserKeeps(s)'
    BY <1>i, <1>s, <2>1 DEF Order, Unborn, Answered, BrowserKeeps, Alive
  <2>3. Fresh(s)'
    BY <1>w, <2>1
  <2>4. ServerKeeps(s)'
    <3>1. Alive(s)' <=> Alive(s)
      BY <1>s, <2>1 DEF Alive
    <3> SUFFICES ASSUME Alive(s) PROVE ServerKeeps(s)'
      BY <3>1 DEF ServerKeeps
    <3>2. ToSet(pendingCandidates) \subseteq added[s]
      BY <1>i, <2>1, EmptyQueue DEF ServerKeeps
    <3>3. Numbers(ToSet(pendingCandidates)) \subseteq Numbers(added[s])
      BY <3>2, NumbersOf
    <3>4. Numbers(ToSet(pendingCandidates')) = {}
      BY <2>1, EmptyQueue, NumbersOf
    <3> QED
      BY <1>i, <1>s, <2>1, <3>3, <3>4 DEF ServerKeeps
  <2> QED
    BY <2>2, <2>3, <2>4 DEF SessionInv
<1>14. CASE OnIceCandidate(s)
  <2> DEFINE m == Message("ice_candidate", gathered[s] + 1)
  <2>1. /\ pc = s /\ ws = s /\ rtc[s] # "none" /\ gathered'[s] = gathered[s] + 1
        /\ UNCHANGED <<socket, to_browser, ws, pc, remoteDescReady, localAnswerSent,
                       pendingCandidates, handlers, rtc, offer, added>>
    BY <1>t, <1>14 DEF OnIceCandidate, Owner
  <2>2. IF localAnswerSent /\ socket[s] = "open"
        THEN /\ to_server'[s] = Append(to_server[s], m)
             /\ pendingLocalCandidates' = pendingLocalCandidates
        ELSE /\ to_server'[s] = to_server[s]
             /\ pendingLocalCandidates' = Append(pendingLocalCandidates, m)
    BY <1>t, <1>14, <2>1 DEF OnIceCandidate
  <2>3. gathered[s] \in 0 .. BrowserCandidates /\ gathered[s] < BrowserCandidates
    BY <1>14 DEF OnIceCandidate, Types, PlayerTypes, PlayerTypeOK
  <2>4. gathered[s] + 1 \in 1 .. BrowserCandidates
        /\ 1 .. gathered[s] + 1 = (1 .. gathered[s]) \cup {gathered[s] + 1}
    BY <2>3, WireBounds
  <2>5. m \in LocalCandidate /\ m \in FromBrowser
        /\ m.type = "ice_candidate" /\ m.id = gathered[s] + 1
    BY <2>4, MessageTypes DEF Message
  <2> HIDE DEF m
  <2>6. /\ CandidatesIn(Append(to_server[s], m)) = CandidatesIn(to_server[s]) \cup {gathered[s] + 1}
        /\ CandidatesIn(Append(pendingLocalCandidates, m)) =
             CandidatesIn(pendingLocalCandidates) \cup {gathered[s] + 1}
    <3>1. CandidatesIn(Append(to_server[s], m)) = CandidatesIn(to_server[s]) \cup {gathered[s] + 1}
      BY <1>q, <2>5, CandidatesAppend
    <3>2. CandidatesIn(Append(pendingLocalCandidates, m)) =
            CandidatesIn(pendingLocalCandidates) \cup {gathered[s] + 1}
      BY <1>q, <2>5, CandidatesAppend
    <3> QED
      BY <3>1, <3>2
  <2>7. /\ HasAnswer(to_server[s]) => HasAnswer(Append(to_server[s], m))
        /\ AnswerFirst(to_server[s]) /\ HasAnswer(to_server[s]) =>
             AnswerFirst(Append(to_server[s], m))
        /\ AnswersOf(to_server[s], s) => AnswersOf(Append(to_server[s], m), s)
    BY <1>q, <2>5, AppendAnswers
  <2>8. Order(s)' /\ Unborn(s)' /\ Answered(s)'
    <3>1. socket[s] \in {"unopened", "connecting"} => to_server'[s] = to_server[s]
      BY <2>2
    <3>2. AnswersOf(to_server'[s], s)
      BY <1>i, <2>2, <2>7 DEF Answered
    <3> QED
      BY <1>i, <1>s, <2>1, <3>1, <3>2 DEF Order, Unborn, Answered
  <2>9. Fresh(s)'
    BY <2>1 DEF Fresh
  <2>10. BrowserKeeps(s)'
    <3>1. Alive(s)' <=> Alive(s)
      BY <1>s, <2>1 DEF Alive
    <3> SUFFICES ASSUME Alive(s) PROVE BrowserKeeps(s)'
      BY <3>1 DEF BrowserKeeps
    <3>2. CandidatesIn(pendingLocalCandidates') \cup CandidatesIn(to_server'[s]) =
            CandidatesIn(pendingLocalCandidates) \cup CandidatesIn(to_server[s])
              \cup {gathered[s] + 1}
      BY <2>2, <2>6
    <3>3. remote[s] = 0 =>
             /\ HasAnswer(commands[s]) \/ AnswerFirst(to_server'[s])
             /\ localAnswerSent => HasAnswer(commands[s]) \/ HasAnswer(to_server'[s])
      BY <1>i, <2>2, <2>7 DEF BrowserKeeps
    <3> QED
      BY <1>i, <1>s, <2>1, <2>4, <3>2, <3>3 DEF BrowserKeeps
  <2>11. ServerKeeps(s)'
    BY <1>i, <1>s, <2>1 DEF ServerKeeps, Alive
  <2> QED
    BY <2>8, <2>9, <2>10, <2>11 DEF SessionInv
<1> QED
  BY <1>1, <1>2, <1>3, <1>4, <1>5, <1>6, <1>7, <1>8, <1>9, <1>10, <1>11, <1>12, <1>13, <1>14
     DEF HandlerStep

-----------------------------------------------------------------------------
(* The theorems *)

\* The type invariant of both sides holds in every run, whatever the handlers do.
THEOREM TypeCorrect == Spec => []TypeOK
<1>1. Types => TypeOK
  BY DEF Types, WireTypes, PlayerTypes, ServerTypes, TypeOK
<1> QED
  BY <1>1, InitTypes, TypesStep, PTL DEF Spec

\* No session has begun.
LEMMA InitInvariant == Init => IInv
<1> SUFFICES ASSUME Init PROVE IInv
  OBVIOUS
<1>1. Owner
  BY DEF Init, WiresInit, PlayerInit, Owner
<1>2. ASSUME NEW r \in Session PROVE SessionInv(r)
  <2>1. Order(r) /\ Unborn(r) /\ Fresh(r) /\ Answered(r)
    BY <1>2, EmptyQueue DEF Init, WiresInit, PlayerInit, ServerInit, Order, Unborn, Fresh, Answered
  <2>2. ~Alive(r)
    BY <1>2 DEF Init, WiresInit, Alive
  <2> QED
    BY <2>1, <2>2 DEF SessionInv, BrowserKeeps, ServerKeeps
<1> QED
  BY <1>1, <1>2, InitTypes DEF IInv

\* Every step keeps the invariant, from a state where handlers keep to their session.
LEMMA NextInvariant == ASSUME IInv, HandlersAreOwn, [Next]_vars PROVE IInv'
<1>1. Types' /\ Owner'
  <2>1. \A r \in Session : Order(r) /\ Unborn(r)
    BY DEF IInv, SessionInv
  <2> QED
    BY <2>1, TypesStep, NextOwner DEF IInv
<1>t. Types /\ Owner /\ Total /\ ws \in {0} \cup Session
  BY TypesTotal DEF IInv, Types, PlayerTypes, PlayerTypeOK
<1>2. ASSUME NEW r \in Session PROVE SessionInv(r)'
  <2>i. SessionInv(r)
    BY <1>2 DEF IInv
  <2>1. CASE UNCHANGED vars
    BY <2>1, <2>i, Elsewhere
       DEF vars, wires, player, fields, handlers, rtcs, server, tasks, channels, connection,
           SameSession, SameFields
  <2>2. CASE UserStep /\ UNCHANGED server
    BY <1>t, <2>2, <2>i, UserSession
  <2>3. ASSUME NEW s \in Session, HandlerStep(s), UNCHANGED server PROVE SessionInv(r)'
    <3>1. CASE s = r
      BY <1>t, <2>3, <2>i, <3>1, OwnHandlerStep
    <3>2. CASE s # r
      BY <1>t, <2>3, <2>i, <3>2, HandlerElsewhere, Elsewhere
    <3> QED
      BY <3>1, <3>2
  <2>4. ASSUME NEW s \in Session, ServerStep(s) \/ ConnectionFailed(s) \/ ConnectionEstablished(s),
               UNCHANGED player
        PROVE  SessionInv(r)'
    <3>1. CASE s = r
      BY <1>t, <2>4, <2>i, <3>1, OwnServerStep
    <3>2. CASE s # r
      BY <1>t, <2>4, <2>i, <3>2, ServerElsewhere, Elsewhere
    <3> QED
      BY <3>1, <3>2
  <2>5. ASSUME NEW s \in Session, Connects(s) PROVE SessionInv(r)'
    BY <2>4, <2>5 DEF Connects
  <2>6. ASSUME NEW s \in Session, BrowserSeesState(s) \/ SocketDrops(s) PROVE SessionInv(r)'
    BY <1>t, <2>6, <2>i, SeenSession
  <2> QED
    BY <2>1, <2>2, <2>3, <2>4, <2>5, <2>6 DEF Next
<1> QED
  BY <1>1, <1>2 DEF IInv

\* The inductive invariant, as long as handlers keep to their session.
THEOREM Invariant == Spec /\ []HandlersAreOwn => []IInv
BY InitInvariant, NextInvariant, PTL DEF Spec

\* No candidate of the browser overtakes its answer and is refused for it.
THEOREM BrowserCandidatesKept == Spec /\ []HandlersAreOwn => []BrowserCandidatesArrive
<1>1. IInv => BrowserCandidatesArrive
  BY DEF IInv, SessionInv, BrowserKeeps, BrowserCandidatesArrive
<1> QED
  BY <1>1, Invariant, PTL

\* No candidate of the gateway is lost between its gathering and the browser's
\* connection.
THEOREM ServerCandidatesKept == Spec /\ []HandlersAreOwn => []ServerCandidatesArrive
<1>1. ASSUME IInv PROVE ServerCandidatesArrive
  <2> SUFFICES ASSUME NEW s \in Session, Alive(s)
               PROVE  1 .. offered[s] =
                        {c[2] : c \in added[s] \cup ToSet(pendingCandidates) \cup ToSet(flushing[s])}
                          \cup CandidatesIn(events[s]) \cup CandidatesIn(to_browser[s])
                          \cup CandidatesIn(queue[s])
    BY DEF ServerCandidatesArrive
  <2>1. {c[2] : c \in added[s] \cup ToSet(pendingCandidates) \cup ToSet(flushing[s])} =
          Numbers(added[s]) \cup Numbers(ToSet(pendingCandidates)) \cup Numbers(ToSet(flushing[s]))
    BY DEF Numbers
  <2> QED
    BY <1>1, <2>1 DEF IInv, SessionInv, ServerKeeps
<1> QED
  BY <1>1, Invariant, PTL

\* No answer of one session is taken for the answer of another.
THEOREM AnswersKept == Spec /\ []HandlersAreOwn => []AnswersAreOwn
<1>1. IInv => AnswersAreOwn
  BY DEF IInv, SessionInv, Answered, AnswersAreOwn
<1> QED
  BY <1>1, Invariant, PTL

\* With a single session there is nobody to go on in its place, so nothing need be assumed:
\* however many candidates there are, none is lost or refused.
THEOREM OneSession ==
    ASSUME Sessions = 1
    PROVE  Spec => [](BrowserCandidatesArrive /\ ServerCandidatesArrive)
<1>1. TypeOK => HandlersAreOwn
  BY DEF HandlersAreOwn, TypeOK, PlayerTypeOK, Session
<1> QED
  BY <1>1, TypeCorrect, BrowserCandidatesKept, ServerCandidatesKept, PTL

=============================================================================
