------------------------- MODULE LiveManager_proofs -------------------------
(***************************************************************************)
(* Proofs about LiveManager for every set of keys and of clients.          *)
(***************************************************************************)
EXTENDS LiveManager, FiniteSetTheorems, TLAPS

-----------------------------------------------------------------------------
(* The inductive invariant. *)

KeyIsKnown == \A c \in Client : pc[c] # "idle" => key[c] \in Key

\* A viewer receives from a process.
SourceIsProcess ==
    \A c \in Client : pc[c] \in {"streaming", "leaving"} => source[c] \in Client

\* An entry is that of a client that asked for its key and inserted it.
EntryIsOwn ==
    \A k \in Key : entry[k] # None =>
        key[entry[k]] = k /\ pc[entry[k]] \notin {"idle", "spawning", "inserting"}

\* A stored handle is that of a timer armed for the same key.
StoredTimerIsOwn ==
    \A k \in Key : idle_timer[k] # None =>
        key[idle_timer[k]] = k /\ pc[idle_timer[k]] = "closed"

TimerAfterArming ==
    \A c \in Client : timer[c] # "unset" => pc[c] \in {"storing", "closed"}

IInv ==
    /\ TypeOK
    /\ CountIsViewers
    /\ NoViewerCutOff
    /\ NoStrayProcess
    /\ IdleEntryHasTimer
    /\ KeyIsKnown
    /\ SourceIsProcess
    /\ EntryIsOwn
    /\ StoredTimerIsOwn
    /\ TimerAfterArming

-----------------------------------------------------------------------------
(* Counting viewers. *)

\* Every set of clients has a cardinality, which one client more or less changes
\* by one.
LEMMA ClientSets ==
    ASSUME NEW S \in SUBSET Client
    PROVE  /\ Cardinality(S) \in Nat
           /\ \A c \in Client \ S : Cardinality(S \cup {c}) = Cardinality(S) + 1
           /\ \A c \in S : Cardinality(S \ {c}) = Cardinality(S) - 1
           /\ \A c \in S : Cardinality(S) > 0
<1>1. IsFiniteSet(S)
  BY ClientIsFinite, FS_Subset
<1>2. Cardinality(S) \in Nat
  BY <1>1, FS_CardinalityType
<1>3. \A c \in Client \ S : Cardinality(S \cup {c}) = Cardinality(S) + 1
  BY <1>1, FS_AddElement
<1>4. \A c \in S : Cardinality(S \ {c}) = Cardinality(S) - 1
  BY <1>1, FS_RemoveElement
<1>5. \A c \in S : Cardinality(S) > 0
  BY <1>1, <1>2, FS_EmptySet
<1> QED
  BY <1>2, <1>3, <1>4, <1>5

\* Joining adds the client to the viewers of one key.
LEMMA JoinViewers ==
    ASSUME IInv, NEW c \in Client, NEW k \in Key, pc[c] \in {"idle", "inserting"},
           GoTo(c, "streaming"), key' = [key EXCEPT ![c] = k]
    PROVE  /\ \A j \in Key : c \notin Viewers(j)
           /\ \A j \in Key : Viewers(j)' = IF j = k THEN Viewers(j) \cup {c} ELSE Viewers(j)
BY DEF IInv, TypeOK, GoTo, Viewers, KeyIsKnown

\* A client that neither starts nor stops watching leaves all viewers alone.
LEMMA SameViewers ==
    ASSUME IInv, NEW c \in Client, NEW state \in ClientStates,
           pc[c] \in {"streaming", "leaving"} <=> state \in {"streaming", "leaving"},
           GoTo(c, state), key' = key
    PROVE  \A j \in Key : Viewers(j)' = Viewers(j)
BY DEF IInv, TypeOK, GoTo, Viewers

\* Nobody watches a key without an entry, or an entry whose count is zero.
LEMMA NoViewers ==
    ASSUME IInv, NEW k \in Key, entry[k] = None \/ subscriber_count[k] = 0
    PROVE  Viewers(k) = {} /\ Cardinality({}) = 0
<1>1. Cardinality({}) = 0
  BY FS_EmptySet
<1>2. CASE entry[k] = None
  BY <1>1, <1>2, NoClient DEF IInv, NoViewerCutOff, SourceIsProcess, Viewers
<1>3. CASE entry[k] # None /\ subscriber_count[k] = 0
  <2>1. Viewers(k) \in SUBSET Client
    BY DEF Viewers
  <2>2. Cardinality(Viewers(k)) = 0
    BY <1>3 DEF IInv, CountIsViewers
  <2> QED
    BY <1>1, <2>1, <2>2, ClientSets
<1> QED
  BY <1>2, <1>3

\* The invariant holds at the start.
LEMMA InitEstablishes == Init => IInv
BY NoClient
DEF Init, IInv, TypeOK, ProcessStates, ClientStates, TimerStates, CountIsViewers, NoViewerCutOff,
    NoStrayProcess, IdleEntryHasTimer, KeyIsKnown, SourceIsProcess, EntryIsOwn,
    StoredTimerIsOwn, TimerAfterArming

-----------------------------------------------------------------------------
(* Each part of the invariant is preserved by every step. *)

\* What the clients, the entries and the stored timers know of each other.
LEMMA OwnershipStep ==
    IInv /\ [Next]_vars =>
        TypeOK' /\ KeyIsKnown' /\ SourceIsProcess' /\ EntryIsOwn' /\ StoredTimerIsOwn'
        /\ TimerAfterArming'
<1> DEFINE P == /\ TypeOK /\ KeyIsKnown /\ SourceIsProcess /\ EntryIsOwn /\ StoredTimerIsOwn
                /\ TimerAfterArming
<1> SUFFICES ASSUME IInv, [Next]_vars PROVE P'
  OBVIOUS
<1> USE NoClient DEF IInv, TypeOK, ProcessStates, ClientStates, TimerStates, KeyIsKnown,
        SourceIsProcess, EntryIsOwn, StoredTimerIsOwn, TimerAfterArming, streams, clients, GoTo
<1>1. ASSUME NEW c \in Client, NEW k \in Key, SubscribeFast(c, k) PROVE P'
  BY <1>1 DEF SubscribeFast, Join
<1>2. ASSUME NEW c \in Client, FfmpegStarts(c) PROVE P'
  BY <1>2 DEF FfmpegStarts
<1>3. ASSUME NEW c \in Client, SpawnFails(c) PROVE P'
  BY <1>3 DEF SpawnFails
<1>4. ASSUME NEW c \in Client, Insert(c) PROVE P'
  BY <1>4 DEF Insert, Join, Kill
<1>5. ASSUME NEW c \in Client, StopForwarding(c) PROVE P'
  BY <1>5 DEF StopForwarding
<1>6. ASSUME NEW c \in Client, Unsubscribe(c) PROVE P'
  BY <1>6 DEF Unsubscribe
<1>7. ASSUME NEW c \in Client, ArmTimer(c) PROVE P'
  BY <1>7 DEF ArmTimer
<1>8. ASSUME NEW c \in Client, StoreTimer(c) PROVE P'
  BY <1>8 DEF StoreTimer
<1>9. ASSUME NEW c \in Client, TimerFires(c) PROVE P'
  BY <1>9 DEF TimerFires, Kill
<1>10. ASSUME NEW c \in Client, FfmpegExits(c) PROVE P'
  BY <1>10 DEF FfmpegExits
<1>11. CASE UNCHANGED vars
  BY <1>11 DEF vars
<1> QED
  BY <1>1, <1>2, <1>3, <1>4, <1>5, <1>6, <1>7, <1>8, <1>9, <1>10, <1>11 DEF Next, ClientStep

\* A running process is registered or about to be.
LEMMA ProcessStep == IInv /\ [Next]_vars => NoStrayProcess'
<1> SUFFICES ASSUME IInv, [Next]_vars PROVE NoStrayProcess'
  OBVIOUS
<1> USE NoClient DEF IInv, TypeOK, NoStrayProcess, KeyIsKnown, EntryIsOwn, streams, clients, GoTo
<1>1. ASSUME NEW c \in Client, NEW k \in Key, SubscribeFast(c, k) PROVE NoStrayProcess'
  BY <1>1 DEF SubscribeFast, Join
<1>2. ASSUME NEW c \in Client, FfmpegStarts(c) PROVE NoStrayProcess'
  BY <1>2 DEF FfmpegStarts
<1>3. ASSUME NEW c \in Client, SpawnFails(c) PROVE NoStrayProcess'
  BY <1>3 DEF SpawnFails
<1>4. ASSUME NEW c \in Client, Insert(c) PROVE NoStrayProcess'
  BY <1>4 DEF Insert, Join, Kill
<1>5. ASSUME NEW c \in Client,
             StopForwarding(c) \/ Unsubscribe(c) \/ ArmTimer(c) \/ StoreTimer(c)
      PROVE  NoStrayProcess'
  BY <1>5 DEF StopForwarding, Unsubscribe, ArmTimer, StoreTimer
<1>6. ASSUME NEW c \in Client, TimerFires(c) PROVE NoStrayProcess'
  BY <1>6 DEF TimerFires, Kill
<1>7. ASSUME NEW c \in Client, FfmpegExits(c) PROVE NoStrayProcess'
  BY <1>7 DEF FfmpegExits
<1>8. CASE UNCHANGED vars
  BY <1>8 DEF vars
<1> QED
  BY <1>1, <1>2, <1>3, <1>4, <1>5, <1>6, <1>7, <1>8 DEF Next, ClientStep

\* Viewers receive from the registered entry: an entry is removed only when it has
\* no viewer, and inserted only when its key has none.
LEMMA CutOffStep == IInv /\ [Next]_vars => NoViewerCutOff'
<1> SUFFICES ASSUME IInv, [Next]_vars PROVE NoViewerCutOff'
  OBVIOUS
<1> USE NoClient DEF TypeOK, NoViewerCutOff, KeyIsKnown, SourceIsProcess, streams, clients, GoTo
<1>0. TypeOK /\ NoViewerCutOff /\ KeyIsKnown /\ SourceIsProcess
  BY DEF IInv
<1>1. ASSUME NEW c \in Client, NEW k \in Key, SubscribeFast(c, k) PROVE NoViewerCutOff'
  BY <1>0, <1>1 DEF SubscribeFast, Join
<1>2. ASSUME NEW c \in Client, FfmpegStarts(c) \/ SpawnFails(c) \/ FfmpegExits(c)
      PROVE  NoViewerCutOff'
  BY <1>0, <1>2 DEF FfmpegStarts, SpawnFails, FfmpegExits
<1>3. ASSUME NEW c \in Client, Insert(c) PROVE NoViewerCutOff'
  BY <1>0, <1>3 DEF Insert, Join
<1>4. ASSUME NEW c \in Client,
             StopForwarding(c) \/ Unsubscribe(c) \/ ArmTimer(c) \/ StoreTimer(c)
      PROVE  NoViewerCutOff'
  BY <1>0, <1>4 DEF StopForwarding, Unsubscribe, ArmTimer, StoreTimer
<1>5. ASSUME NEW c \in Client, TimerFires(c) PROVE NoViewerCutOff'
  <2>1. CASE key[c] \in Key /\ entry[key[c]] # None /\ subscriber_count[key[c]] = 0
    <3>1. Viewers(key[c]) = {}
      BY <2>1, NoViewers
    <3>2. entry' = [entry EXCEPT ![key[c]] = None] /\ UNCHANGED clients
      BY <1>5, <2>1 DEF TimerFires
    <3> QED
      BY <1>0, <3>1, <3>2 DEF Viewers
  <2>2. CASE ~(entry[key[c]] # None /\ subscriber_count[key[c]] = 0)
    BY <1>0, <1>5, <2>2 DEF TimerFires
  <2>3. key[c] \in Key
    BY <1>5 DEF TimerFires, IInv, TimerAfterArming
  <2> QED
    BY <2>1, <2>2, <2>3
<1>6. CASE UNCHANGED vars
  BY <1>0, <1>6 DEF vars
<1> QED
  BY <1>1, <1>2, <1>3, <1>4, <1>5, <1>6 DEF Next, ClientStep

\* A join, on either path, counts one viewer.
LEMMA JoinCounts ==
    ASSUME IInv, NEW c \in Client, NEW k \in Key, pc[c] \in {"idle", "inserting"},
           key' = [key EXCEPT ![c] = k], entry[k] # None, Join(c, k)
    PROVE  CountIsViewers'
<1>0. TypeOK /\ CountIsViewers
  BY DEF IInv
<1>1. /\ entry' = entry
      /\ subscriber_count' = [subscriber_count EXCEPT ![k] = @ + 1]
  BY DEF Join
<1>2. Viewers(k) \in SUBSET Client
  BY DEF Viewers
<1>3. /\ c \notin Viewers(k)
      /\ \A j \in Key : Viewers(j)' = IF j = k THEN Viewers(j) \cup {c} ELSE Viewers(j)
  BY JoinViewers DEF Join
<1>4. Cardinality(Viewers(k) \cup {c}) = Cardinality(Viewers(k)) + 1
  BY <1>2, <1>3, ClientSets
<1>5. Cardinality(Viewers(k)') = subscriber_count[k] + 1
  <2>1. Viewers(k)' = Viewers(k) \cup {c}
    BY <1>3
  <2> QED
    BY <1>0, <1>4, <2>1 DEF CountIsViewers
<1>6. ASSUME NEW j \in Key, j # k PROVE Viewers(j)' = Viewers(j)
  BY <1>3, <1>6
<1> QED
  BY <1>0, <1>1, <1>5, <1>6 DEF CountIsViewers, TypeOK

\* The counters stay exact.
LEMMA CountStep == IInv /\ [Next]_vars => CountIsViewers'
<1> SUFFICES ASSUME IInv, [Next]_vars PROVE CountIsViewers'
  OBVIOUS
<1>0. TypeOK /\ CountIsViewers /\ KeyIsKnown /\ TimerAfterArming
  BY DEF IInv
<1>1. ASSUME NEW c \in Client, NEW k \in Key, SubscribeFast(c, k) PROVE CountIsViewers'
  <2>1. pc[c] = "idle" /\ key' = [key EXCEPT ![c] = k]
    BY <1>1 DEF SubscribeFast
  <2>2. CASE entry[k] # None /\ Join(c, k)
    BY <2>1, <2>2, JoinCounts
  <2>3. CASE GoTo(c, "spawning") /\ UNCHANGED streams
    <3>1. \A j \in Key : Viewers(j)' = Viewers(j)
      BY <1>0, <2>1, <2>3 DEF GoTo, Viewers, TypeOK
    <3> QED
      BY <1>0, <2>3, <3>1 DEF CountIsViewers, streams
  <2> QED
    BY <1>1, <2>2, <2>3 DEF SubscribeFast, streams
<1>2. ASSUME NEW c \in Client, Insert(c) PROVE CountIsViewers'
  <2>1. pc[c] = "inserting" /\ key[c] \in Key /\ key' = [key EXCEPT ![c] = key[c]]
    BY <1>0, <1>2 DEF Insert, KeyIsKnown, TypeOK
  <2>2. CASE entry[key[c]] # None /\ Join(c, key[c])
    BY <2>1, <2>2, JoinCounts
  <2>3. CASE entry[key[c]] = None /\ GoTo(c, "streaming")
             /\ entry' = [entry EXCEPT ![key[c]] = c]
             /\ subscriber_count' = [subscriber_count EXCEPT ![key[c]] = 1]
    <3>1. Viewers(key[c]) = {} /\ Cardinality({}) = 0
      BY <2>1, <2>3, NoViewers
    <3>2. \A j \in Key : Viewers(j)' =
            IF j = key[c] THEN Viewers(j) \cup {c} ELSE Viewers(j)
      BY <2>1, <2>3, JoinViewers
    <3>3. Viewers(key[c])' = {c} /\ Cardinality({c}) = 1
      <4>1. Viewers(key[c])' = Viewers(key[c]) \cup {c}
        BY <2>1, <3>2
      <4> QED
        BY <3>1, <4>1, FS_Singleton
    <3>4. ASSUME NEW j \in Key, j # key[c] PROVE Viewers(j)' = Viewers(j)
      BY <3>2, <3>4
    <3> QED
      BY <1>0, <2>1, <2>3, <3>3, <3>4 DEF CountIsViewers, TypeOK
  <2> QED
    BY <1>2, <2>2, <2>3 DEF Insert
<1>3. ASSUME NEW c \in Client, Unsubscribe(c) PROVE CountIsViewers'
  <2>0. PICK k \in Key : key[c] = k
    BY <1>0, <1>3 DEF Unsubscribe, KeyIsKnown
  <2>1. k \in Key /\ pc[c] = "leaving" /\ entry' = entry /\ key' = key /\ entry[k] # None
    BY <1>0, <1>3, <2>0, NoClient DEF Unsubscribe, KeyIsKnown, IInv, NoViewerCutOff, SourceIsProcess,
                                clients
  <2>2. /\ subscriber_count' = [subscriber_count EXCEPT ![k] = IF @ > 0 THEN @ - 1 ELSE 0]
        /\ pc'[c] \in {"arming", "closed"}
        /\ \A d \in Client \ {c} : pc'[d] = pc[d]
    BY <1>0, <1>3, <2>0, <2>1 DEF Unsubscribe, GoTo, TypeOK
  <2>3. /\ c \in Viewers(k) /\ Viewers(k) \in SUBSET Client
        /\ Viewers(k)' = Viewers(k) \ {c}
        /\ \A j \in Key \ {k} : Viewers(j)' = Viewers(j)
    BY <2>0, <2>1, <2>2 DEF Viewers
  <2>4. /\ Cardinality(Viewers(k)) \in Nat /\ Cardinality(Viewers(k)) > 0
        /\ Cardinality(Viewers(k)') = Cardinality(Viewers(k)) - 1
    BY <2>3, ClientSets
  <2>5. subscriber_count'[k] = Cardinality(Viewers(k)')
    BY <1>0, <2>1, <2>2, <2>4 DEF CountIsViewers, TypeOK
  <2>6. ASSUME NEW j \in Key \ {k} PROVE subscriber_count'[j] = subscriber_count[j]
    BY <1>0, <2>2 DEF TypeOK
  <2>7. ASSUME NEW j \in Key, entry'[j] # None
        PROVE  subscriber_count'[j] = Cardinality(Viewers(j)')
    <3>1. CASE j = k
      BY <2>5, <3>1
    <3>2. CASE j # k
      BY <1>0, <2>1, <2>3, <2>6, <2>7, <3>2 DEF CountIsViewers
    <3> QED
      BY <3>1, <3>2
  <2> QED
    BY <2>7 DEF CountIsViewers
<1>4. ASSUME NEW c \in Client,
             \/ FfmpegStarts(c) \/ SpawnFails(c) \/ StopForwarding(c)
             \/ ArmTimer(c) \/ StoreTimer(c)
      PROVE  CountIsViewers'
  <2>1. entry' = entry /\ subscriber_count' = subscriber_count
    BY <1>4 DEF FfmpegStarts, SpawnFails, StopForwarding, ArmTimer, StoreTimer, streams
  <2>2. \A j \in Key : Viewers(j)' = Viewers(j)
    BY <1>0, <1>4 DEF FfmpegStarts, SpawnFails, StopForwarding, ArmTimer, StoreTimer, GoTo,
                      Viewers, TypeOK
  <2> QED
    BY <1>0, <2>1, <2>2 DEF CountIsViewers
<1>5. ASSUME NEW c \in Client, TimerFires(c) \/ FfmpegExits(c) PROVE CountIsViewers'
  <2>1. /\ UNCHANGED <<clients, subscriber_count>>
        /\ \A j \in Key : entry'[j] # None => entry[j] # None
    BY <1>0, <1>5 DEF TimerFires, FfmpegExits, streams, TypeOK
  <2>2. \A j \in Key : Viewers(j)' = Viewers(j)
    BY <2>1 DEF Viewers, clients
  <2> QED
    BY <1>0, <2>1, <2>2 DEF CountIsViewers
<1>6. CASE UNCHANGED vars
  BY <1>0, <1>6 DEF vars, CountIsViewers, Viewers, streams, clients
<1> QED
  BY <1>1, <1>2, <1>3, <1>4, <1>5, <1>6 DEF Next, ClientStep

\* An idle entry keeps a timer.
LEMMA IdleTimerStep == IInv /\ [Next]_vars => IdleEntryHasTimer'
<1> SUFFICES ASSUME IInv, [Next]_vars PROVE IdleEntryHasTimer'
  OBVIOUS
<1> USE NoClient DEF TypeOK, ClientStates, TimerStates, IdleEntryHasTimer, streams, clients, GoTo
<1>0. /\ TypeOK /\ IdleEntryHasTimer /\ KeyIsKnown /\ TimerAfterArming /\ StoredTimerIsOwn
      /\ EntryIsOwn
  BY DEF IInv
<1>1. ASSUME NEW c \in Client, NEW k \in Key, pc[c] \in {"idle", "inserting"},
             key' = [key EXCEPT ![c] = k], Join(c, k)
      PROVE  IdleEntryHasTimer'
  <2>1. subscriber_count'[k] # 0
    BY <1>0, <1>1 DEF Join
  <2>2. ASSUME NEW j \in Key, j # k, NEW d \in Client, key[d] = j,
               pc[d] = "arming" \/ timer[d] = "sleeping"
        PROVE  key'[d] = j /\ (pc'[d] = "arming" \/ timer'[d] = "sleeping")
    BY <1>0, <1>1, <2>2 DEF Join, TimerAfterArming, StoredTimerIsOwn
  <2>3. /\ entry' = entry
        /\ \A j \in Key : j # k => subscriber_count'[j] = subscriber_count[j]
    BY <1>0, <1>1 DEF Join
  <2> QED
    BY <1>0, <2>1, <2>2, <2>3
<1>2. ASSUME NEW c \in Client, NEW k \in Key, SubscribeFast(c, k) PROVE IdleEntryHasTimer'
  <2>1. pc[c] = "idle" /\ key' = [key EXCEPT ![c] = k]
    BY <1>2 DEF SubscribeFast
  <2>2. CASE Join(c, k)
    BY <1>1, <2>1, <2>2
  <2>3. CASE GoTo(c, "spawning") /\ UNCHANGED <<streams, timer>>
    BY <1>0, <2>1, <2>3 DEF TimerAfterArming
  <2> QED
    BY <1>2, <2>2, <2>3 DEF SubscribeFast
<1>3. ASSUME NEW c \in Client, FfmpegStarts(c) \/ SpawnFails(c) \/ FfmpegExits(c)
      PROVE  IdleEntryHasTimer'
  BY <1>0, <1>3 DEF FfmpegStarts, SpawnFails, FfmpegExits
<1>4. ASSUME NEW c \in Client, Insert(c) PROVE IdleEntryHasTimer'
  <2>1. pc[c] = "inserting" /\ key[c] \in Key /\ key' = [key EXCEPT ![c] = key[c]]
    BY <1>0, <1>4 DEF Insert, KeyIsKnown
  <2>2. CASE Join(c, key[c])
    BY <1>1, <2>1, <2>2
  <2>3. CASE ~Join(c, key[c])
    BY <1>0, <1>4, <2>1, <2>3 DEF Insert, TimerAfterArming
  <2> QED
    BY <2>2, <2>3
<1>5. ASSUME NEW c \in Client, StopForwarding(c) \/ Unsubscribe(c) PROVE IdleEntryHasTimer'
  BY <1>0, <1>5 DEF StopForwarding, Unsubscribe, KeyIsKnown, TimerAfterArming
<1>6. ASSUME NEW c \in Client, ArmTimer(c) PROVE IdleEntryHasTimer'
  BY <1>0, <1>6 DEF ArmTimer
<1>7. ASSUME NEW c \in Client, StoreTimer(c) PROVE IdleEntryHasTimer'
  BY <1>0, <1>7 DEF StoreTimer
<1>8. ASSUME NEW c \in Client, TimerFires(c) PROVE IdleEntryHasTimer'
  BY <1>0, <1>8 DEF TimerFires
<1>9. CASE UNCHANGED vars
  BY <1>0, <1>9 DEF vars
<1> QED
  BY <1>2, <1>3, <1>4, <1>5, <1>6, <1>7, <1>8, <1>9 DEF Next, ClientStep

-----------------------------------------------------------------------------
(* The theorems. *)

\* The parts above form an inductive invariant.
THEOREM Invariance == Spec => []IInv
<1>1. IInv /\ [Next]_vars => IInv'
  BY OwnershipStep, ProcessStep, CutOffStep, CountStep, IdleTimerStep DEF IInv
<1> QED
  BY InitEstablishes, <1>1, PTL DEF Spec

\* Every variable keeps its type.
THEOREM TypeCorrect == Spec => []TypeOK
BY Invariance, PTL DEF IInv

\* Counters are exact although keys are reused.
THEOREM ExactCount == Spec => []CountIsViewers
BY Invariance, PTL DEF IInv

\* No timer, however stale, takes an FFmpeg away from a viewer.
THEOREM NobodyCutOff == Spec => []NoViewerCutOff
BY Invariance, PTL DEF IInv

\* No FFmpeg runs without an entry or a client about to insert it.
THEOREM NoStray == Spec => []NoStrayProcess
BY Invariance, PTL DEF IInv

\* An idle entry always has a timer pending.
THEOREM IdleTimer == Spec => []IdleEntryHasTimer
BY Invariance, PTL DEF IInv

=============================================================================
