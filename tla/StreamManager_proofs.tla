------------------------ MODULE StreamManager_proofs ------------------------
(***************************************************************************)
(* Proofs about StreamManager for every set of URLs, requests and sessions *)
(* and all limits.                                                         *)
(***************************************************************************)
EXTENDS StreamManager, FiniteSetTheorems, TLAPS

-----------------------------------------------------------------------------
(* The inductive invariant. *)

\* A registered stream was answered with by the request that created it.
RegisteredIsAnswered ==
    \A s \in registered : response[s] = s /\ rtsp_url[s] \in Url

\* Only a finished request has an answer.
AnswerIsFinal ==
    \A r \in Request : response[r] # None => create_pc[r] = "done"

InFlight(r) == create_pc[r] \in {"transcoding", "probing", "inserting"}

\* A request knows its URL from the lookup on.
UrlIsKnown ==
    \A r \in Request : create_pc[r] # "idle" => rtsp_url[r] \in Url

\* A session asks for a stream that was registered at some time.
SessionStreamIsReal ==
    \A x \in Session : session_pc[x] # "idle" =>
        session_stream[x] \in Request /\ response[session_stream[x]] = session_stream[x]

\* Only a session that reached the end of unsubscribe has a timer.
TimerAfterArming ==
    \A x \in Session : timer[x] # "unset" => session_pc[x] \in {"storing", "closed"}

StoringHasTimer ==
    \A x \in Session : session_pc[x] = "storing" => timer[x] # "unset"

CountWithinLimit ==
    \A s \in registered : subscriber_count[s] <= MaxPerStream

IInv ==
    /\ TypeOK
    /\ OneStreamPerUrl
    /\ AnswersMatchRequest
    /\ PullsAreOwned
    /\ CountIsHolders
    /\ CountWithinLimit
    /\ GaugeIsCounted
    /\ IdleStreamHasTimer
    /\ StoredTimerIsOwn
    /\ RegisteredIsAnswered
    /\ AnswerIsFinal
    /\ UrlIsKnown
    /\ SessionStreamIsReal
    /\ TimerAfterArming
    /\ StoringHasTimer

-----------------------------------------------------------------------------
(* Counting sessions. *)

\* Every set of sessions has a cardinality, which one session more or less changes
\* by one.
LEMMA SessionSets ==
    ASSUME NEW S \in SUBSET Session
    PROVE  /\ Cardinality(S) \in Nat
           /\ \A x \in Session \ S : Cardinality(S \cup {x}) = Cardinality(S) + 1
           /\ \A x \in S : Cardinality(S \ {x}) = Cardinality(S) - 1
           /\ \A x \in S : Cardinality(S) > 0
<1>1. IsFiniteSet(S)
  BY SessionIsFinite, FS_Subset
<1>2. Cardinality(S) \in Nat
  BY <1>1, FS_CardinalityType
<1>3. \A x \in Session \ S : Cardinality(S \cup {x}) = Cardinality(S) + 1
  BY <1>1, FS_AddElement
<1>4. \A x \in S : Cardinality(S \ {x}) = Cardinality(S) - 1
  BY <1>1, FS_RemoveElement
<1>5. \A x \in S : Cardinality(S) > 0
  BY <1>1, <1>2, FS_EmptySet
<1> QED
  BY <1>2, <1>3, <1>4, <1>5

\* The initial state satisfies the inductive invariant.
LEMMA InitEstablishes == Init => IInv
<1> SUFFICES ASSUME Init PROVE IInv
  OBVIOUS
<1> USE NoneIsFresh DEF Init
<1>1. TypeOK
  BY DEF TypeOK, CreateStates, Pullers, SessionStates, TimerStates
<1>2. CountedSessions = {}
  BY DEF CountedSessions, Counted, Holding
<1>3. GaugeIsCounted
  BY <1>2, FS_EmptySet DEF GaugeIsCounted
<1>4. /\ OneStreamPerUrl /\ CountIsHolders /\ CountWithinLimit
      /\ IdleStreamHasTimer /\ RegisteredIsAnswered
  BY DEF OneStreamPerUrl, CountIsHolders, CountWithinLimit, IdleStreamHasTimer,
         RegisteredIsAnswered
<1>5. AnswersMatchRequest /\ PullsAreOwned /\ AnswerIsFinal /\ UrlIsKnown
  BY DEF AnswersMatchRequest, PullsAreOwned, AnswerIsFinal, UrlIsKnown
<1>6. StoredTimerIsOwn /\ SessionStreamIsReal /\ TimerAfterArming /\ StoringHasTimer
  BY DEF StoredTimerIsOwn, SessionStreamIsReal, TimerAfterArming, StoringHasTimer
<1> QED
  BY <1>1, <1>3, <1>4, <1>5, <1>6 DEF IInv

-----------------------------------------------------------------------------
(* Each part of the invariant is preserved by every step. *)

\* Type correctness needs the gauge: it is never decremented at zero.
LEMMA TypeStep == IInv /\ [Next]_vars => TypeOK'
<1> SUFFICES ASSUME IInv, [Next]_vars PROVE TypeOK'
  OBVIOUS
<1> USE DEF TypeOK, IInv, CreateStates, Pullers, SessionStates, TimerStates,
            registry, requests, sessions, history
<1>1. ASSUME NEW r \in Request, NEW u \in Url, CreateLookup(r, u) PROVE TypeOK'
  BY <1>1 DEF CreateLookup, AnswerAndDropPuller, StreamsFor
<1>2. ASSUME NEW r \in Request, PullerStarts(r) PROVE TypeOK'
  BY <1>2 DEF PullerStarts
<1>3. ASSUME NEW r \in Request, TranscoderSurvives(r) PROVE TypeOK'
  BY <1>3 DEF TranscoderSurvives
<1>4. ASSUME NEW r \in Request, ProbeSucceeds(r) PROVE TypeOK'
  BY <1>4 DEF ProbeSucceeds
<1>5. ASSUME NEW r \in Request, CreateFails(r) PROVE TypeOK'
  BY <1>5 DEF CreateFails, AnswerAndDropPuller
<1>6. ASSUME NEW r \in Request, CreateInsert(r) PROVE TypeOK'
  BY <1>6 DEF CreateInsert, AnswerAndDropPuller, StreamsFor
<1>7. ASSUME NEW x \in Session, NEW s \in Request, CheckPeerLimit(x, s) PROVE TypeOK'
  BY <1>7 DEF CheckPeerLimit, GoTo
<1>8. ASSUME NEW x \in Session, RejectSubscription(x) PROVE TypeOK'
  BY <1>8 DEF RejectSubscription, GoTo
<1>9. ASSUME NEW x \in Session, Subscribe(x) PROVE TypeOK'
  BY <1>9 DEF Subscribe, GoTo, Abort
<1>10. ASSUME NEW x \in Session, StartStreaming(x) PROVE TypeOK'
  BY <1>10 DEF StartStreaming, GoTo
<1>11. ASSUME NEW x \in Session, AbandonSignaling(x) PROVE TypeOK'
  BY <1>11 DEF AbandonSignaling, GoTo
<1>12. ASSUME NEW x \in Session, StopStreaming(x) PROVE TypeOK'
  BY <1>12 DEF StopStreaming, GoTo
<1>13. ASSUME NEW x \in Session, Unsubscribe(x) PROVE TypeOK'
  BY <1>13 DEF Unsubscribe, GoTo
<1>14. ASSUME NEW x \in Session, session_pc[x] \in Counted PROVE total_peers - 1 \in Nat
  <2>1. x \in CountedSessions /\ CountedSessions \in SUBSET Session
    BY <1>14 DEF CountedSessions
  <2> QED
    BY <2>1, SessionSets DEF GaugeIsCounted
<1>15. ASSUME NEW x \in Session, SettlePeers(x) PROVE TypeOK'
  <2>1. total_peers - 1 \in Nat
    BY <1>14, <1>15 DEF SettlePeers, Counted
  <2> QED
    BY <1>15, <2>1 DEF SettlePeers, GoTo
<1>16. ASSUME NEW x \in Session, ArmTimer(x) PROVE TypeOK'
  <2>1. total_peers - 1 \in Nat
    BY <1>14, <1>16 DEF ArmTimer, Counted
  <2> QED
    BY <1>16, <2>1 DEF ArmTimer, GoTo
<1>17. ASSUME NEW x \in Session, StoreTimer(x) PROVE TypeOK'
  BY <1>17 DEF StoreTimer, GoTo
<1>18. ASSUME NEW x \in Session, TimerFires(x) PROVE TypeOK'
  BY <1>18 DEF TimerFires
<1>19. ASSUME NEW s \in Request, RemoveStream(s) PROVE TypeOK'
  BY <1>19 DEF RemoveStream, Abort
<1>20. CASE UNCHANGED vars
  BY <1>20 DEF vars
<1> QED
  BY <1>1, <1>2, <1>3, <1>4, <1>5, <1>6, <1>7, <1>8, <1>9, <1>10, <1>11, <1>12, <1>13,
     <1>15, <1>16, <1>17, <1>18, <1>19, <1>20 DEF Next, RequestStep, SessionStep

\* No step of a session touches what the requests decide.
LEMMA SessionsLeaveRequestsAlone ==
    ASSUME NEW x \in Session, SessionStep(x)
    PROVE  UNCHANGED <<registered, puller, requests>>
BY DEF SessionStep, CheckPeerLimit, RejectSubscription, Subscribe, StartStreaming,
       AbandonSignaling, StopStreaming, Unsubscribe, SettlePeers, ArmTimer, StoreTimer, registry

\* What a request knows and answers: the answer is final and the URL is known.
LEMMA AnswerStep ==
    IInv /\ [Next]_vars => RegisteredIsAnswered' /\ AnswerIsFinal' /\ UrlIsKnown' /\ AnswersMatchRequest'
<1> DEFINE P == RegisteredIsAnswered /\ AnswerIsFinal /\ UrlIsKnown /\ AnswersMatchRequest
<1> SUFFICES ASSUME IInv, [Next]_vars PROVE P'
  OBVIOUS
<1> USE NoneIsFresh DEF IInv, TypeOK, CreateStates, RegisteredIsAnswered, AnswerIsFinal,
        UrlIsKnown, AnswersMatchRequest, registry, requests
<1>1. ASSUME NEW r \in Request, NEW u \in Url, CreateLookup(r, u) PROVE P'
  BY <1>1 DEF CreateLookup, AnswerAndDropPuller, StreamsFor
<1>2. ASSUME NEW r \in Request,
             PullerStarts(r) \/ TranscoderSurvives(r) \/ ProbeSucceeds(r)
      PROVE  P'
  BY <1>2 DEF PullerStarts, TranscoderSurvives, ProbeSucceeds
<1>3. ASSUME NEW r \in Request, CreateFails(r) PROVE P'
  BY <1>3 DEF CreateFails, AnswerAndDropPuller
<1>4. ASSUME NEW r \in Request, CreateInsert(r) PROVE P'
  BY <1>4 DEF CreateInsert, AnswerAndDropPuller, StreamsFor
<1>5. ASSUME NEW x \in Session, SessionStep(x) PROVE P'
  BY <1>5, SessionsLeaveRequestsAlone
<1>6. ASSUME NEW x \in Session, TimerFires(x) PROVE P'
  BY <1>6 DEF TimerFires
<1>7. ASSUME NEW s \in Request, RemoveStream(s) PROVE P'
  BY <1>7 DEF RemoveStream
<1>8. CASE UNCHANGED vars
  BY <1>8 DEF vars
<1> QED
  BY <1>1, <1>2, <1>3, <1>4, <1>5, <1>6, <1>7, <1>8 DEF Next, RequestStep

\* A pull runs exactly for a registered stream or a creation in flight, and a
\* stream is inserted only if no other one pulls its URL.
LEMMA PullStep == IInv /\ [Next]_vars => PullsAreOwned' /\ OneStreamPerUrl'
<1> SUFFICES ASSUME IInv, [Next]_vars PROVE PullsAreOwned' /\ OneStreamPerUrl'
  OBVIOUS
<1> USE NoneIsFresh DEF IInv, TypeOK, CreateStates, Pullers, RegisteredIsAnswered, AnswerIsFinal,
        UrlIsKnown, PullsAreOwned, OneStreamPerUrl, registry, requests
<1>1. ASSUME NEW r \in Request, NEW u \in Url, CreateLookup(r, u)
      PROVE  PullsAreOwned' /\ OneStreamPerUrl'
  BY <1>1 DEF CreateLookup, AnswerAndDropPuller, StreamsFor
<1>2. ASSUME NEW r \in Request,
             PullerStarts(r) \/ TranscoderSurvives(r) \/ ProbeSucceeds(r)
      PROVE  PullsAreOwned' /\ OneStreamPerUrl'
  BY <1>2 DEF PullerStarts, TranscoderSurvives, ProbeSucceeds
<1>3. ASSUME NEW r \in Request, CreateFails(r) PROVE PullsAreOwned' /\ OneStreamPerUrl'
  BY <1>3 DEF CreateFails, AnswerAndDropPuller
<1>4. ASSUME NEW r \in Request, CreateInsert(r) PROVE PullsAreOwned' /\ OneStreamPerUrl'
  BY <1>4 DEF CreateInsert, AnswerAndDropPuller, StreamsFor
<1>5. ASSUME NEW x \in Session, SessionStep(x) PROVE PullsAreOwned' /\ OneStreamPerUrl'
  BY <1>5, SessionsLeaveRequestsAlone
<1>6. ASSUME NEW x \in Session, TimerFires(x) PROVE PullsAreOwned' /\ OneStreamPerUrl'
  BY <1>6 DEF TimerFires
<1>7. ASSUME NEW s \in Request, RemoveStream(s) PROVE PullsAreOwned' /\ OneStreamPerUrl'
  BY <1>7 DEF RemoveStream
<1>8. CASE UNCHANGED vars
  BY <1>8 DEF vars
<1> QED
  BY <1>1, <1>2, <1>3, <1>4, <1>5, <1>6, <1>7, <1>8 DEF Next, RequestStep

\* What a session knows of its stream and of its timer.
LEMMA SessionFactsStep ==
    IInv /\ [Next]_vars =>
        SessionStreamIsReal' /\ TimerAfterArming' /\ StoringHasTimer' /\ StoredTimerIsOwn'
<1> DEFINE P == SessionStreamIsReal /\ TimerAfterArming /\ StoringHasTimer /\ StoredTimerIsOwn
<1> SUFFICES ASSUME IInv, [Next]_vars PROVE P'
  OBVIOUS
<1> USE NoneIsFresh DEF IInv, TypeOK, SessionStates, TimerStates, SessionStreamIsReal,
        TimerAfterArming, StoringHasTimer, StoredTimerIsOwn, registry, requests, sessions
<1>1. ASSUME NEW r \in Request, RequestStep(r) PROVE P'
  BY <1>1 DEF RequestStep, CreateLookup, PullerStarts, TranscoderSurvives, ProbeSucceeds,
              CreateFails, CreateInsert, AnswerAndDropPuller, AnswerIsFinal, CreateStates
<1>2. ASSUME NEW x \in Session, NEW s \in Request, CheckPeerLimit(x, s) PROVE P'
  BY <1>2 DEF CheckPeerLimit, GoTo, AnswersMatchRequest
<1>3. ASSUME NEW x \in Session, RejectSubscription(x) PROVE P'
  BY <1>3 DEF RejectSubscription, GoTo
<1>4. ASSUME NEW x \in Session, Subscribe(x) PROVE P'
  BY <1>4 DEF Subscribe, GoTo, Abort
<1>5. ASSUME NEW x \in Session,
             StartStreaming(x) \/ AbandonSignaling(x) \/ StopStreaming(x)
      PROVE  P'
  BY <1>5 DEF StartStreaming, AbandonSignaling, StopStreaming, GoTo
<1>6. ASSUME NEW x \in Session, Unsubscribe(x) PROVE P'
  BY <1>6 DEF Unsubscribe, GoTo
<1>7. ASSUME NEW x \in Session, SettlePeers(x) PROVE P'
  BY <1>7 DEF SettlePeers, GoTo
<1>8. ASSUME NEW x \in Session, ArmTimer(x) PROVE P'
  BY <1>8 DEF ArmTimer, GoTo
<1>9. ASSUME NEW x \in Session, StoreTimer(x) PROVE P'
  BY <1>9 DEF StoreTimer, GoTo
<1>10. ASSUME NEW x \in Session, TimerFires(x) PROVE P'
  BY <1>10 DEF TimerFires
<1>11. ASSUME NEW s \in Request, RemoveStream(s) PROVE P'
  BY <1>11 DEF RemoveStream, Abort
<1>12. CASE UNCHANGED vars
  BY <1>12 DEF vars
<1> QED
  BY <1>1, <1>2, <1>3, <1>4, <1>5, <1>6, <1>7, <1>8, <1>9, <1>10, <1>11, <1>12
  DEF Next, SessionStep

\* Steps that neither subscribe nor count out leave everybody's holders and the
\* counted sessions as they are; RemoveStream and TimerFires only close streams.
LEMMA HoldersFrame ==
    ASSUME IInv,
           \/ \E r \in Request : RequestStep(r)
           \/ \E x \in Session :
                 \/ \E s \in Request : CheckPeerLimit(x, s)
                 \/ RejectSubscription(x) \/ StartStreaming(x) \/ AbandonSignaling(x)
                 \/ StopStreaming(x) \/ StoreTimer(x) \/ TimerFires(x)
           \/ \E s \in Request : RemoveStream(s)
           \/ UNCHANGED vars
    PROVE  /\ \A t \in Request : Holders(t)' = Holders(t)
           /\ CountedSessions' = CountedSessions
           /\ total_peers' = total_peers
<1> USE DEF IInv, TypeOK, Holders, CountedSessions, Holding, Counted, sessions, registry,
            requests, GoTo
<1>1. CASE \E r \in Request : RequestStep(r)
  BY <1>1 DEF RequestStep, CreateLookup, PullerStarts, TranscoderSurvives, ProbeSucceeds,
              CreateFails, CreateInsert
<1>2. CASE \E x \in Session : \E s \in Request : CheckPeerLimit(x, s)
  BY <1>2 DEF CheckPeerLimit
<1>3. CASE \E x \in Session : RejectSubscription(x)
  BY <1>3 DEF RejectSubscription
<1>4. CASE \E x \in Session : StartStreaming(x) \/ AbandonSignaling(x) \/ StopStreaming(x)
  BY <1>4 DEF StartStreaming, AbandonSignaling, StopStreaming
<1>5. CASE \E x \in Session : StoreTimer(x)
  BY <1>5 DEF StoreTimer
<1>6. CASE \E x \in Session : TimerFires(x)
  BY <1>6 DEF TimerFires
<1>7. CASE \E s \in Request : RemoveStream(s)
  BY <1>7 DEF RemoveStream
<1>8. CASE UNCHANGED vars
  BY <1>8 DEF vars
<1> QED
  BY <1>1, <1>2, <1>3, <1>4, <1>5, <1>6, <1>7, <1>8

\* Subscribing adds one holder to one stream and one counted session.
LEMMA SubscribeCounts ==
    ASSUME IInv, NEW x \in Session, Subscribe(x)
    PROVE  /\ x \notin Holders(session_stream[x]) /\ x \notin CountedSessions
           /\ \A t \in Request : Holders(t)' =
                  IF t = session_stream[x] THEN Holders(t) \cup {x} ELSE Holders(t)
           /\ CountedSessions' = CountedSessions \cup {x}
BY DEF IInv, TypeOK, Subscribe, GoTo, Holders, CountedSessions, Holding, Counted, sessions

\* Counting out removes one holder from one stream; the session stays counted
\* until its fetch_sub.
LEMMA UnsubscribeCounts ==
    ASSUME IInv, NEW x \in Session, Unsubscribe(x)
    PROVE  /\ x \in Holders(session_stream[x])
           /\ \A t \in Request : Holders(t)' =
                  IF t = session_stream[x] THEN Holders(t) \ {x} ELSE Holders(t)
           /\ CountedSessions' = CountedSessions
BY DEF IInv, TypeOK, Unsubscribe, GoTo, Holders, CountedSessions, Holding, Counted, sessions

\* The fetch_sub of a session removes it from the counted ones and touches no holder.
LEMMA ReleaseCounts ==
    ASSUME IInv, NEW x \in Session, SettlePeers(x) \/ ArmTimer(x)
    PROVE  /\ x \in CountedSessions
           /\ \A t \in Request : Holders(t)' = Holders(t)
           /\ CountedSessions' = CountedSessions \ {x}
           /\ total_peers' = total_peers - 1
BY DEF IInv, TypeOK, SettlePeers, ArmTimer, GoTo, Holders, CountedSessions, Holding, Counted,
       sessions

\* subscriber_count and the limit it is compared with.
LEMMA CountStep == IInv /\ [Next]_vars => CountIsHolders' /\ CountWithinLimit'
<1> SUFFICES ASSUME IInv, [Next]_vars PROVE CountIsHolders' /\ CountWithinLimit'
  OBVIOUS
<1> USE DEF CountIsHolders, CountWithinLimit, registry
<1>0. TypeOK /\ CountIsHolders /\ CountWithinLimit
  BY DEF IInv
<1>1. ASSUME NEW r \in Request, RequestStep(r) PROVE CountIsHolders' /\ CountWithinLimit'
  <2>1. \A t \in Request : Holders(t)' = Holders(t)
    BY <1>1, HoldersFrame
  <2>2. CASE UNCHANGED registry
    BY <2>1, <2>2, <1>0 DEF TypeOK
  <2>3. CASE CreateInsert(r) /\ ~UNCHANGED registry
    <3>1. create_pc[r] = "inserting" /\ registered' = registered \cup {r}
          /\ subscriber_count' = [subscriber_count EXCEPT ![r] = 0]
      BY <2>3 DEF CreateInsert
    <3>2. Holders(r) = {}
      BY <3>1, NoneIsFresh DEF IInv, SessionStreamIsReal, AnswerIsFinal, Holders, Holding
    <3>3. Cardinality(Holders(r)) = 0
      BY <3>2, FS_EmptySet
    <3> QED
      BY <1>0, <2>1, <3>1, <3>3, LimitsAreNat DEF TypeOK
  <2> QED
    BY <1>1, <2>2, <2>3 DEF RequestStep, CreateLookup, PullerStarts, TranscoderSurvives,
                            ProbeSucceeds, CreateFails
<1>2. ASSUME NEW x \in Session, Subscribe(x) PROVE CountIsHolders' /\ CountWithinLimit'
  <2> DEFINE s == session_stream[x]
  <2>1. /\ s \in registered /\ registered' = registered /\ subscriber_count[s] < MaxPerStream
        /\ subscriber_count' = [subscriber_count EXCEPT ![s] = @ + 1]
    BY <1>2 DEF Subscribe
  <2>2. Holders(s) \in SUBSET Session
    BY DEF Holders
  <2>3. Cardinality(Holders(s) \cup {x}) = Cardinality(Holders(s)) + 1
    BY <1>2, <2>2, SubscribeCounts, SessionSets
  <2>4. \A t \in Request : Holders(t)' = IF t = s THEN Holders(t) \cup {x} ELSE Holders(t)
    BY <1>2, SubscribeCounts
  <2> HIDE DEF s
  <2>5. ASSUME NEW t \in registered
        PROVE  /\ subscriber_count'[t] = Cardinality(Holders(t)')
               /\ subscriber_count'[t] <= MaxPerStream
    <3>1. t \in Request /\ subscriber_count[t] \in Nat
      BY <1>0 DEF TypeOK
    <3>2. CASE t = s
      <4>1. Holders(t)' = Holders(s) \cup {x}
        BY <2>4, <3>1, <3>2
      <4> QED
        BY <1>0, <2>1, <2>3, <3>1, <3>2, <4>1, LimitsAreNat DEF TypeOK
    <3>3. CASE t # s
      <4>1. Holders(t)' = Holders(t) /\ subscriber_count'[t] = subscriber_count[t]
        BY <1>0, <2>1, <2>4, <3>1, <3>3 DEF TypeOK
      <4> QED
        BY <1>0, <4>1
    <3> QED
      BY <3>2, <3>3
  <2> QED
    BY <2>1, <2>5
<1>3. ASSUME NEW x \in Session, Unsubscribe(x) PROVE CountIsHolders' /\ CountWithinLimit'
  <2> DEFINE s == session_stream[x]
  <2>1. /\ registered' = registered
        /\ s \in registered => subscriber_count' =
               [subscriber_count EXCEPT ![s] = IF @ > 0 THEN @ - 1 ELSE 0]
        /\ s \notin registered => subscriber_count' = subscriber_count
    BY <1>3 DEF Unsubscribe
  <2>2. Holders(s) \in SUBSET Session
    BY DEF Holders
  <2>3. /\ Cardinality(Holders(s)) \in Nat /\ Cardinality(Holders(s)) > 0
        /\ Cardinality(Holders(s) \ {x}) = Cardinality(Holders(s)) - 1
    BY <1>3, <2>2, UnsubscribeCounts, SessionSets
  <2>4. \A t \in Request : Holders(t)' = IF t = s THEN Holders(t) \ {x} ELSE Holders(t)
    BY <1>3, UnsubscribeCounts
  <2> HIDE DEF s
  <2>5. ASSUME NEW t \in registered
        PROVE  /\ subscriber_count'[t] = Cardinality(Holders(t)')
               /\ subscriber_count'[t] <= MaxPerStream
    <3>1. t \in Request /\ subscriber_count[t] \in Nat
      BY <1>0 DEF TypeOK
    <3>2. CASE t = s
      <4>1. Holders(t)' = Holders(s) \ {x}
        BY <2>4, <3>1, <3>2
      <4> QED
        BY <1>0, <2>1, <2>3, <3>1, <3>2, <4>1, LimitsAreNat DEF TypeOK
    <3>3. CASE t # s
      <4>1. Holders(t)' = Holders(t) /\ subscriber_count'[t] = subscriber_count[t]
        BY <1>0, <2>1, <2>4, <3>1, <3>3 DEF TypeOK
      <4> QED
        BY <1>0, <4>1
    <3> QED
      BY <3>2, <3>3
  <2> QED
    BY <2>1, <2>5
<1>4. ASSUME NEW x \in Session, SettlePeers(x) \/ ArmTimer(x)
      PROVE  CountIsHolders' /\ CountWithinLimit'
  BY <1>0, <1>4, ReleaseCounts DEF SettlePeers, ArmTimer, TypeOK
<1>5. ASSUME NEW x \in Session,
             \/ \E s \in Request : CheckPeerLimit(x, s)
             \/ RejectSubscription(x) \/ StartStreaming(x) \/ AbandonSignaling(x)
             \/ StopStreaming(x) \/ StoreTimer(x) \/ TimerFires(x)
      PROVE  CountIsHolders' /\ CountWithinLimit'
  <2>1. registered' \subseteq registered /\ subscriber_count' = subscriber_count
    BY <1>5 DEF CheckPeerLimit, RejectSubscription, StartStreaming, AbandonSignaling,
                StopStreaming, StoreTimer, TimerFires
  <2> QED
    BY <1>0, <1>5, <2>1, HoldersFrame DEF TypeOK
<1>6. ASSUME NEW s \in Request, RemoveStream(s) PROVE CountIsHolders' /\ CountWithinLimit'
  <2>1. registered' \subseteq registered /\ subscriber_count' = subscriber_count
    BY <1>6 DEF RemoveStream
  <2> QED
    BY <1>0, <1>6, <2>1, HoldersFrame DEF TypeOK
<1>7. CASE UNCHANGED vars
  BY <1>0, <1>7, HoldersFrame DEF vars, TypeOK
<1> QED
  BY <1>1, <1>2, <1>3, <1>4, <1>5, <1>6, <1>7 DEF Next, SessionStep

\* total_peers and the sessions it counts.
LEMMA GaugeStep == IInv /\ [Next]_vars => GaugeIsCounted'
<1> SUFFICES ASSUME IInv, [Next]_vars PROVE GaugeIsCounted'
  OBVIOUS
<1>0. GaugeIsCounted /\ CountedSessions \in SUBSET Session
  BY DEF IInv, CountedSessions
<1>1. ASSUME NEW x \in Session, Subscribe(x) PROVE GaugeIsCounted'
  <2>1. total_peers' = total_peers + 1
    BY <1>1 DEF Subscribe
  <2> QED
    BY <1>0, <1>1, <2>1, SubscribeCounts, SessionSets DEF GaugeIsCounted
<1>2. ASSUME NEW x \in Session, Unsubscribe(x) PROVE GaugeIsCounted'
  <2>1. total_peers' = total_peers
    BY <1>2 DEF Unsubscribe
  <2> QED
    BY <1>0, <1>2, <2>1, UnsubscribeCounts DEF GaugeIsCounted
<1>3. ASSUME NEW x \in Session, SettlePeers(x) \/ ArmTimer(x) PROVE GaugeIsCounted'
  BY <1>0, <1>3, ReleaseCounts, SessionSets DEF GaugeIsCounted
<1> QED
  BY <1>0, <1>1, <1>2, <1>3, HoldersFrame DEF GaugeIsCounted, Next, SessionStep

\* An idle stream keeps a timer: whoever silences one either watches the stream or
\* closes it, because a stored handle is a timer of that very stream.
LEMMA IdleTimerStep == IInv /\ [Next]_vars => IdleStreamHasTimer'
<1> SUFFICES ASSUME IInv, [Next]_vars PROVE IdleStreamHasTimer'
  OBVIOUS
<1> USE NoneIsFresh DEF TypeOK, SessionStates, TimerStates, IdleStreamHasTimer, Watched,
        registry, requests, sessions
<1>0. /\ TypeOK /\ IdleStreamHasTimer /\ SessionStreamIsReal /\ AnswerIsFinal
      /\ TimerAfterArming /\ StoredTimerIsOwn
  BY DEF IInv
<1>1. ASSUME NEW r \in Request, RequestStep(r) PROVE IdleStreamHasTimer'
  <2>1. UNCHANGED <<session_pc, session_stream, timer>>
    BY <1>1 DEF RequestStep, CreateLookup, PullerStarts, TranscoderSurvives, ProbeSucceeds,
                CreateFails, CreateInsert
  <2>2. CASE UNCHANGED registry
    BY <1>0, <2>1, <2>2
  <2>3. CASE CreateInsert(r) /\ ~UNCHANGED registry
    <3>1. create_pc[r] = "inserting" /\ registered' = registered \cup {r}
          /\ subscriber_count' = [subscriber_count EXCEPT ![r] = 0]
      BY <2>3 DEF CreateInsert
    <3>2. ~Watched(r)
      BY <1>0, <3>1 DEF SessionStreamIsReal, AnswerIsFinal
    <3> QED
      BY <1>0, <2>1, <3>1, <3>2
  <2> QED
    BY <1>1, <2>2, <2>3 DEF RequestStep, CreateLookup, PullerStarts, TranscoderSurvives,
                            ProbeSucceeds, CreateFails
<1>2. ASSUME NEW x \in Session, NEW s \in Request, CheckPeerLimit(x, s)
      PROVE  IdleStreamHasTimer'
  BY <1>0, <1>2 DEF CheckPeerLimit, GoTo, TimerAfterArming
<1>3. ASSUME NEW x \in Session, RejectSubscription(x) PROVE IdleStreamHasTimer'
  BY <1>0, <1>3 DEF RejectSubscription, GoTo
<1>4. ASSUME NEW x \in Session, Subscribe(x) PROVE IdleStreamHasTimer'
  <2>1. ASSUME NEW t \in registered, t # session_stream[x], NEW y \in Session,
               session_stream[y] = t, session_pc[y] = "arming" \/ timer[y] = "sleeping"
        PROVE  session_pc'[y] = "arming" \/ timer'[y] = "sleeping"
    BY <1>0, <1>4, <2>1 DEF Subscribe, GoTo, Abort, StoredTimerIsOwn
  <2>2. ASSUME NEW t \in registered, t # session_stream[x] PROVE Watched(t)' => Watched(t)
    BY <1>0, <1>4, <2>2 DEF Subscribe, GoTo
  <2>3. subscriber_count'[session_stream[x]] # 0
    BY <1>0, <1>4 DEF Subscribe
  <2>4. /\ registered' = registered /\ session_stream' = session_stream
        /\ \A t \in registered : t # session_stream[x] => subscriber_count'[t] = subscriber_count[t]
    BY <1>0, <1>4 DEF Subscribe
  <2> QED
    BY <1>0, <2>1, <2>2, <2>3, <2>4
<1>5. ASSUME NEW x \in Session,
             StartStreaming(x) \/ AbandonSignaling(x) \/ StopStreaming(x)
      PROVE  IdleStreamHasTimer'
  BY <1>0, <1>5 DEF StartStreaming, AbandonSignaling, StopStreaming, GoTo
<1>6. ASSUME NEW x \in Session, Unsubscribe(x) PROVE IdleStreamHasTimer'
  BY <1>0, <1>6 DEF Unsubscribe, GoTo
<1>7. ASSUME NEW x \in Session, SettlePeers(x) PROVE IdleStreamHasTimer'
  BY <1>0, <1>7 DEF SettlePeers, GoTo
<1>8. ASSUME NEW x \in Session, ArmTimer(x) PROVE IdleStreamHasTimer'
  BY <1>0, <1>8 DEF ArmTimer, GoTo
<1>9. ASSUME NEW x \in Session, StoreTimer(x) PROVE IdleStreamHasTimer'
  BY <1>0, <1>9 DEF StoreTimer, GoTo
<1>10. ASSUME NEW x \in Session, TimerFires(x) PROVE IdleStreamHasTimer'
  BY <1>0, <1>10 DEF TimerFires
<1>11. ASSUME NEW s \in Request, RemoveStream(s) PROVE IdleStreamHasTimer'
  BY <1>0, <1>11 DEF RemoveStream, Abort, StoredTimerIsOwn
<1>12. CASE UNCHANGED vars
  BY <1>0, <1>12 DEF vars
<1> QED
  BY <1>1, <1>2, <1>3, <1>4, <1>5, <1>6, <1>7, <1>8, <1>9, <1>10, <1>11, <1>12
  DEF Next, SessionStep

-----------------------------------------------------------------------------
(* The theorems. *)

\* The parts above form an inductive invariant of the specification.
THEOREM Invariance == Spec => []IInv
<1>1. IInv /\ [Next]_vars => IInv'
  BY TypeStep, AnswerStep, PullStep, SessionFactsStep, CountStep, GaugeStep, IdleTimerStep
  DEF IInv
<1> QED
  BY InitEstablishes, <1>1, PTL DEF Spec

\* Every variable of the stream manager keeps its type; total_peers never wraps.
THEOREM TypeCorrect == Spec => []TypeOK
BY Invariance, PTL DEF IInv

\* One RTSP pull per URL, whatever create_dynamic calls race.
THEOREM OnePull == Spec => []OneStreamPerUrl
BY Invariance, PTL DEF IInv

\* create_dynamic answers with a stream of the URL it was asked for.
THEOREM RightAnswer == Spec => []AnswersMatchRequest
BY Invariance, PTL DEF IInv

\* No pull outlives its stream and its creation.
THEOREM NoStrayPull == Spec => []PullsAreOwned
BY Invariance, PTL DEF IInv

\* subscriber_count of a stream counts the sessions that hold it exactly.
THEOREM ExactCounters == Spec => []CountIsHolders
BY Invariance, PTL DEF IInv

\* total_peers counts the sessions that were admitted and not yet settled exactly.
THEOREM ExactGauge == Spec => []GaugeIsCounted
BY Invariance, PTL DEF IInv

\* No stream serves more than max_per_stream sessions.
THEOREM StreamLimit == Spec => []PerStreamLimit
<1>1. IInv => PerStreamLimit
  BY DEF IInv, CountIsHolders, CountWithinLimit, PerStreamLimit
<1> QED
  BY Invariance, <1>1, PTL

\* A watched stream without viewers always has a timer that will look at it.
THEOREM IdleTimer == Spec => []IdleStreamHasTimer
BY Invariance, PTL DEF IInv

-----------------------------------------------------------------------------
(* The manager implements the catalog. *)

\* A step that leaves the registry's streams, the answers that open them, and
\* their holders alone is a stutter of the catalog.
LEMMA CatalogStutter ==
    ASSUME IInv,
           registered' = registered, deleted' = deleted, CatalogSource' = CatalogSource,
           \A t \in registered : Holders(t)' = Holders(t)
    PROVE  UNCHANGED Catalog!vars
BY DEF Catalog!vars, CatalogViewers, IInv, TypeOK

\* Only the insert of create_dynamic opens a stream.
LEMMA CatalogSourceStep ==
    ASSUME IInv, [Next]_vars,
           ~\E r \in Request : CreateInsert(r) /\ registered' # registered
    PROVE  CatalogSource' = CatalogSource
<1> USE NoneIsFresh DEF CatalogSource, requests, registry
<1>0. TypeOK /\ RegisteredIsAnswered /\ AnswerIsFinal
  BY DEF IInv
<1>1. ASSUME NEW r \in Request, NEW u \in Url, CreateLookup(r, u)
      PROVE  CatalogSource' = CatalogSource
  BY <1>0, <1>1 DEF CreateLookup, AnswerAndDropPuller, StreamsFor, TypeOK, AnswerIsFinal,
                    RegisteredIsAnswered
<1>2. ASSUME NEW r \in Request,
             PullerStarts(r) \/ TranscoderSurvives(r) \/ ProbeSucceeds(r)
      PROVE  CatalogSource' = CatalogSource
  BY <1>2 DEF PullerStarts, TranscoderSurvives, ProbeSucceeds
<1>3. ASSUME NEW r \in Request, CreateFails(r) PROVE CatalogSource' = CatalogSource
  BY <1>0, <1>3 DEF CreateFails, AnswerAndDropPuller, TypeOK, AnswerIsFinal
<1>4. ASSUME NEW r \in Request, CreateInsert(r), registered' = registered
      PROVE  CatalogSource' = CatalogSource
  BY <1>0, <1>4 DEF CreateInsert, AnswerAndDropPuller, StreamsFor, TypeOK, AnswerIsFinal,
                    RegisteredIsAnswered
<1>5. ASSUME NEW x \in Session, SessionStep(x) PROVE CatalogSource' = CatalogSource
  BY <1>5, SessionsLeaveRequestsAlone
<1>6. ASSUME NEW x \in Session, TimerFires(x) PROVE CatalogSource' = CatalogSource
  BY <1>6 DEF TimerFires
<1>7. ASSUME NEW s \in Request, RemoveStream(s) PROVE CatalogSource' = CatalogSource
  BY <1>7 DEF RemoveStream
<1>8. CASE UNCHANGED vars
  BY <1>8 DEF vars
<1> QED
  BY <1>1, <1>2, <1>3, <1>4, <1>5, <1>6, <1>7, <1>8 DEF Next, RequestStep

\* Every step of the manager is a step of the catalog or a stutter.
LEMMA CatalogStep == IInv /\ [Next]_vars => [Catalog!Next]_(Catalog!vars)
<1> SUFFICES ASSUME IInv, [Next]_vars PROVE [Catalog!Next]_(Catalog!vars)
  OBVIOUS
<1>0. /\ TypeOK /\ RegisteredIsAnswered /\ AnswerIsFinal /\ SessionStreamIsReal
      /\ CountIsHolders /\ UrlIsKnown
  BY DEF IInv
<1>1. ASSUME NEW r \in Request, RequestStep(r) PROVE [Catalog!Next]_(Catalog!vars)
  <2>0. deleted' = deleted /\ \A t \in Request : Holders(t)' = Holders(t)
    <3>1. deleted' = deleted
      BY <1>1 DEF RequestStep, CreateLookup, PullerStarts, TranscoderSurvives, ProbeSucceeds,
                  CreateFails, CreateInsert, history
    <3> QED
      BY <1>1, <3>1, HoldersFrame
  <2>1. CASE CreateInsert(r) /\ registered' # registered
    <3>1. /\ create_pc[r] = "inserting" /\ StreamsFor(rtsp_url[r]) = {}
          /\ response' = [response EXCEPT ![r] = r] /\ rtsp_url' = rtsp_url
          /\ registered' = registered \cup {r}
      BY <2>1 DEF CreateInsert, registry
    <3>2. Holders(r) = {} /\ response[r] = None /\ r \notin registered /\ rtsp_url[r] \in Url
      BY <1>0, <3>1, NoneIsFresh DEF TypeOK, SessionStreamIsReal, AnswerIsFinal, Holders, Holding,
         RegisteredIsAnswered, UrlIsKnown
    <3>3. CatalogViewers' = CatalogViewers
      BY <2>0, <3>1, <3>2 DEF CatalogViewers
    <3>4. CatalogSource[r] = None /\ CatalogSource' = [CatalogSource EXCEPT ![r] = rtsp_url[r]]
      BY <1>0, <3>1, <3>2, NoneIsFresh DEF CatalogSource, TypeOK
    <3>5. \A t \in registered : CatalogSource[t] # rtsp_url[r]
      BY <1>0, <3>1 DEF CatalogSource, StreamsFor, RegisteredIsAnswered, TypeOK
    <3>6. Catalog!Open(r, rtsp_url[r])
      BY <2>0, <3>1, <3>3, <3>4, <3>5 DEF Catalog!Open
    <3> QED
      BY <3>2, <3>6 DEF Catalog!Next
  <2>2. CASE ~(CreateInsert(r) /\ registered' # registered)
    <3>1. registered' = registered
      BY <1>1, <2>2 DEF RequestStep, CreateLookup, PullerStarts, TranscoderSurvives,
                        ProbeSucceeds, CreateFails, registry
    <3>2. CatalogSource' = CatalogSource
      BY <3>1, CatalogSourceStep
    <3> QED
      BY <1>0, <2>0, <3>1, <3>2, CatalogStutter DEF TypeOK
  <2> QED
    BY <2>1, <2>2
<1>2. ASSUME NEW x \in Session, Subscribe(x) PROVE [Catalog!Next]_(Catalog!vars)
  <2> DEFINE s == session_stream[x]
  <2>1. /\ s \in registered /\ registered' = registered /\ deleted' = deleted
        /\ subscriber_count[s] < MaxPerStream /\ session_pc[x] = "admitted"
        /\ UNCHANGED requests
    BY <1>2 DEF Subscribe
  <2>2. \A t \in registered : x \notin CatalogViewers[t]
    BY <1>0, <2>1 DEF CatalogViewers, Holders, Holding, TypeOK
  <2>3. Cardinality(CatalogViewers[s]) < MaxPerStream
    BY <1>0, <2>1 DEF CatalogViewers, CountIsHolders, TypeOK
  <2>4. CatalogViewers' = [CatalogViewers EXCEPT ![s] = @ \cup {x}]
    BY <1>0, <1>2, <2>1, SubscribeCounts DEF CatalogViewers, TypeOK
  <2>5. CatalogSource' = CatalogSource
    BY <2>1 DEF CatalogSource, requests
  <2>6. Catalog!Join(x, s)
    BY <2>1, <2>2, <2>3, <2>4, <2>5 DEF Catalog!Join, Cardinality, IsFiniteSet, Catalog!Cardinality, Catalog!IsFiniteSet
  <2> QED
    BY <1>0, <2>1, <2>6 DEF Catalog!Next, TypeOK
<1>3. ASSUME NEW x \in Session, Unsubscribe(x) PROVE [Catalog!Next]_(Catalog!vars)
  <2> DEFINE s == session_stream[x]
  <2>1. registered' = registered /\ deleted' = deleted /\ CatalogSource' = CatalogSource
    BY <1>3 DEF Unsubscribe, CatalogSource, requests, history
  <2>2. CASE s \in registered
    <3>1. x \in CatalogViewers[s]
      BY <1>0, <1>3, <2>2, UnsubscribeCounts DEF CatalogViewers, TypeOK
    <3>2. CatalogViewers' = [CatalogViewers EXCEPT ![s] = @ \ {x}]
      BY <1>0, <1>3, <2>1, <2>2, UnsubscribeCounts DEF CatalogViewers, TypeOK
    <3>3. Catalog!Leave(x, s)
      BY <2>1, <2>2, <3>1, <3>2 DEF Catalog!Leave
    <3> QED
      BY <1>0, <2>2, <3>3 DEF Catalog!Next, TypeOK
  <2>3. CASE s \notin registered
    BY <1>0, <1>3, <2>1, <2>3, UnsubscribeCounts, CatalogStutter DEF TypeOK
  <2> QED
    BY <2>2, <2>3
<1>4. ASSUME NEW x \in Session, SettlePeers(x) \/ ArmTimer(x)
      PROVE  [Catalog!Next]_(Catalog!vars)
  <2>1. registered' = registered /\ deleted' = deleted /\ CatalogSource' = CatalogSource
    BY <1>4 DEF SettlePeers, ArmTimer, CatalogSource, registry, requests, history
  <2> QED
    BY <1>0, <1>4, <2>1, ReleaseCounts, CatalogStutter DEF TypeOK
<1>5. ASSUME NEW x \in Session,
             \/ \E s \in Request : CheckPeerLimit(x, s)
             \/ RejectSubscription(x) \/ StartStreaming(x) \/ AbandonSignaling(x)
             \/ StopStreaming(x) \/ StoreTimer(x)
      PROVE  [Catalog!Next]_(Catalog!vars)
  <2>1. registered' = registered /\ deleted' = deleted /\ CatalogSource' = CatalogSource
    BY <1>5 DEF CheckPeerLimit, RejectSubscription, StartStreaming, AbandonSignaling,
                StopStreaming, StoreTimer, CatalogSource, registry, requests, history
  <2> QED
    BY <1>0, <1>5, <2>1, HoldersFrame, CatalogStutter DEF TypeOK
<1>6. ASSUME NEW x \in Session, TimerFires(x) PROVE [Catalog!Next]_(Catalog!vars)
  <2> DEFINE s == session_stream[x]
  <2>0. deleted' = deleted /\ CatalogSource' = CatalogSource
        /\ \A t \in Request : Holders(t)' = Holders(t)
    <3>1. deleted' = deleted /\ CatalogSource' = CatalogSource
      BY <1>6 DEF TimerFires, CatalogSource, requests, history
    <3> QED
      BY <1>6, <3>1, HoldersFrame
  <2>1. CASE s \in registered /\ subscriber_count[s] = 0
    <3>1. registered' = registered \ {s}
      BY <1>6, <2>1 DEF TimerFires
    <3>2. Holders(s) = {}
      <4>1. Holders(s) \in SUBSET Session
        BY DEF Holders
      <4> QED
        BY <1>0, <2>1, <4>1, SessionSets DEF CountIsHolders
    <3>3. CatalogViewers' = CatalogViewers
      BY <2>0, <3>1, <3>2 DEF CatalogViewers
    <3>4. CatalogViewers[s] = {}
      BY <1>0, <2>1, <3>2 DEF CatalogViewers, TypeOK
    <3>5. Catalog!Expire(s)
      BY <2>0, <2>1, <3>1, <3>3, <3>4 DEF Catalog!Expire
    <3> QED
      BY <1>0, <2>1, <3>5 DEF Catalog!Next, TypeOK
  <2>2. CASE ~(s \in registered /\ subscriber_count[s] = 0)
    <3>1. registered' = registered
      BY <1>6, <2>2 DEF TimerFires
    <3> QED
      BY <1>0, <2>0, <3>1, CatalogStutter DEF TypeOK
  <2> QED
    BY <2>1, <2>2
<1>7. ASSUME NEW s \in Request, RemoveStream(s) PROVE [Catalog!Next]_(Catalog!vars)
  <2>1. /\ s \in registered /\ registered' = registered \ {s}
        /\ deleted' = deleted \cup {s} /\ CatalogSource' = CatalogSource
    BY <1>7 DEF RemoveStream, CatalogSource, requests
  <2>2. \A t \in Request : Holders(t)' = Holders(t)
    BY <1>7, HoldersFrame
  <2>3. CatalogViewers' = [CatalogViewers EXCEPT ![s] = {}]
    BY <2>1, <2>2 DEF CatalogViewers
  <2>4. Catalog!Delete(s)
    BY <2>1, <2>3 DEF Catalog!Delete
  <2> QED
    BY <2>4 DEF Catalog!Next
<1>8. CASE UNCHANGED vars
  BY <1>8 DEF vars, Catalog!vars, CatalogSource, CatalogViewers, Holders, registry, requests,
              sessions, history
<1> QED
  BY <1>1, <1>2, <1>3, <1>4, <1>5, <1>6, <1>7, <1>8 DEF Next, SessionStep

\* The stream manager implements the catalog: streams open once per URL, viewers
\* join within the limit, and only deletion takes a stream away from its viewers.
THEOREM CatalogImplemented == Spec => ImplementsCatalog
<1>1. Init => Catalog!Init
  BY NoneIsFresh DEF Init, Catalog!Init, CatalogSource, CatalogViewers
<1> QED
  BY Invariance, CatalogStep, <1>1, PTL DEF Spec, ImplementsCatalog, Catalog!Spec

=============================================================================
