---------------------------- MODULE StreamManager ----------------------------
(***************************************************************************)
(* The registry of RTSP pulls shared by many WebRTC viewers (stream.rs),   *)
(* with the three kinds of actor that call it:                             *)
(*   - requests: POST /api/streams handlers running create_dynamic;        *)
(*   - sessions: WebSocket tasks running subscribe_existing, the           *)
(*     signaling conversation, and unsubscribe;                            *)
(*   - idle timers: tasks spawned by unsubscribe that sleep and then stop  *)
(*     the stream if nobody watches it.                                    *)
(*                                                                         *)
(* A critical section under the tokio RwLock has no await inside it, so it *)
(* is one action.  Everything between two critical sections is a separate  *)
(* action: that is where the other tasks interleave.                       *)
(*                                                                         *)
(* create_dynamic draws a fresh UUID, so the stream a request creates is   *)
(* named by the request.  A session arms at most one idle timer, so the    *)
(* timer is named by the session.                                          *)
(***************************************************************************)
EXTENDS Integers, FiniteSets

CONSTANTS
    Url,           \* RTSP URLs clients ask for
    Request,       \* calls of create_dynamic, and the stream ids they draw
    Session,       \* WebSocket sessions, and the idle timers they arm
    MaxPeers,      \* limits.max_peers
    MaxPerStream,  \* limits.max_per_stream
    None

ASSUME SessionIsFinite == IsFiniteSet(Session)
ASSUME LimitsAreNat == MaxPeers \in Nat /\ MaxPerStream \in Nat
ASSUME NoneIsFresh == None \notin Url /\ None \notin Request /\ None \notin Session

VARIABLES
    registered,        \* keys of the `streams` map
    subscriber_count,  \* ActiveStream.subscriber_count
    idle_timer,        \* ActiveStream.idle_timer: the timer whose handle is stored
    total_peers,       \* StreamManager.total_peers
    create_pc,         \* where each request is in create_dynamic
    rtsp_url,          \* the URL of each request, and so of the stream it registers
    puller,            \* the pull a request or its stream keeps running
    response,          \* the stream id a request answered with, None for an error
    session_pc,        \* where each WebSocket session is
    session_stream,    \* the stream id each session asked for
    timer,             \* state of the idle timer task each session may arm
    outlived,          \* history: timers already running when a later viewer joined
    deleted            \* history: streams an operator removed

registry == <<registered, subscriber_count, idle_timer>>
requests == <<create_pc, rtsp_url, response>>
sessions == <<session_pc, session_stream>>
history == <<outlived, deleted>>
vars == <<registry, total_peers, requests, puller, sessions, timer, history>>

-----------------------------------------------------------------------------
(* States of the actors. *)

CreateStates == {"idle", "starting", "transcoding", "probing", "inserting", "done"}

Pullers == {"none", "retina", "ffmpeg"}

\* "rejected" never subscribed; "aborted" left the conversation early;
\* "orphaned" found its stream gone when it unsubscribed.
SessionStates ==
    {"idle", "admitted", "rejected", "signaling", "streaming", "leaving",
     "settling", "arming", "storing", "closed", "aborted", "orphaned"}

TimerStates == {"unset", "sleeping", "fired", "cancelled"}

\* Sessions whose increment of subscriber_count has not been undone.
Holding == {"signaling", "streaming", "leaving", "aborted"}

\* Sessions whose increment of total_peers has not been undone.
Counted == Holding \cup {"settling", "arming", "orphaned"}

CountedSessions == {x \in Session : session_pc[x] \in Counted}

\* Sessions with a task that still runs.
Live == {"signaling", "streaming", "leaving", "settling", "arming", "storing"}

Holders(s) == {x \in Session : session_stream[x] = s /\ session_pc[x] \in Holding}

\* The stream has been subscribed to at least once.
Watched(s) == \E x \in Session :
    session_stream[x] = s /\ session_pc[x] \notin {"idle", "admitted", "rejected"}

StreamsFor(u) == {s \in registered : rtsp_url[s] = u}

-----------------------------------------------------------------------------
Init ==
    /\ registered = {}
    /\ subscriber_count = [s \in Request |-> 0]
    /\ idle_timer = [s \in Request |-> None]
    /\ total_peers = 0
    /\ create_pc = [r \in Request |-> "idle"]
    /\ rtsp_url = [r \in Request |-> None]
    /\ puller = [r \in Request |-> "none"]
    /\ response = [r \in Request |-> None]
    /\ session_pc = [x \in Session |-> "idle"]
    /\ session_stream = [x \in Session |-> None]
    /\ timer = [x \in Session |-> "unset"]
    /\ outlived = {}
    /\ deleted = {}

-----------------------------------------------------------------------------
(* create_dynamic *)

\* Faulty variant: the pull of a request that answers is left running.
AnswerAndKeepPuller(r, answer) ==
    /\ create_pc' = [create_pc EXCEPT ![r] = "done"]
    /\ response' = [response EXCEPT ![r] = answer]
    /\ UNCHANGED puller

\* The request ends; whatever pull it still owned is dropped with it.
AnswerAndDropPuller(r, answer) ==
    /\ create_pc' = [create_pc EXCEPT ![r] = "done"]
    /\ response' = [response EXCEPT ![r] = answer]
    /\ puller' = [puller EXCEPT ![r] = "none"]

\* Read-locked lookup: reuse a stream of the same URL, or start pulling.
CreateLookup(r, u) ==
    /\ create_pc[r] = "idle"
    /\ rtsp_url' = [rtsp_url EXCEPT ![r] = u]
    /\ \/ \E s \in StreamsFor(u) : AnswerAndDropPuller(r, s)
       \/ /\ StreamsFor(u) = {}
          /\ create_pc' = [create_pc EXCEPT ![r] = "starting"]
          /\ UNCHANGED <<response, puller>>
    /\ UNCHANGED <<registry, total_peers, sessions, timer, history>>

\* RtspPuller::start: PLAY succeeds, or the track is H.265, which makes the
\* request start FFmpeg instead.  FFmpeg runs from the spawn on.
PullerStarts(r) ==
    /\ create_pc[r] = "starting"
    /\ \/ /\ create_pc' = [create_pc EXCEPT ![r] = "probing"]
          /\ puller' = [puller EXCEPT ![r] = "retina"]
       \/ /\ create_pc' = [create_pc EXCEPT ![r] = "transcoding"]
          /\ puller' = [puller EXCEPT ![r] = "ffmpeg"]
    /\ UNCHANGED <<registry, total_peers, rtsp_url, response, sessions, timer, history>>

\* FFmpeg is still alive 1.5 s after it was spawned.
TranscoderSurvives(r) ==
    /\ create_pc[r] = "transcoding"
    /\ create_pc' = [create_pc EXCEPT ![r] = "probing"]
    /\ UNCHANGED <<registry, total_peers, rtsp_url, response, puller, sessions, timer, history>>

\* A packet arrives within 5 s of subscribing the probe.
ProbeSucceeds(r) ==
    /\ create_pc[r] = "probing"
    /\ create_pc' = [create_pc EXCEPT ![r] = "inserting"]
    /\ UNCHANGED <<registry, total_peers, rtsp_url, response, puller, sessions, timer, history>>

\* The error paths: DESCRIBE/SETUP/PLAY or the spawn fails, FFmpeg exits early,
\* the probe lags or times out; or the client hangs up and the handler's future
\* is dropped at one of its awaits.
CreateFails(r) ==
    /\ create_pc[r] \in {"starting", "transcoding", "probing", "inserting"}
    /\ AnswerAndDropPuller(r, None)
    /\ UNCHANGED <<registry, total_peers, rtsp_url, sessions, timer, history>>

\* Faulty variant: no re-check before the insert.
CreateInsertUnchecked(r) ==
    /\ create_pc[r] = "inserting"
    /\ create_pc' = [create_pc EXCEPT ![r] = "done"]
    /\ response' = [response EXCEPT ![r] = r]
    /\ registered' = registered \cup {r}
    /\ subscriber_count' = [subscriber_count EXCEPT ![r] = 0]
    /\ idle_timer' = [idle_timer EXCEPT ![r] = None]
    /\ UNCHANGED <<puller, total_peers, rtsp_url, sessions, timer, history>>

\* Faulty variant: the loser of the race answers with any open stream.
CreateInsertAnyStream(r) ==
    /\ create_pc[r] = "inserting"
    /\ \/ /\ \E s \in registered : AnswerAndDropPuller(r, s)
          /\ UNCHANGED registry
       \/ /\ registered = {}
          /\ create_pc' = [create_pc EXCEPT ![r] = "done"]
          /\ response' = [response EXCEPT ![r] = r]
          /\ registered' = registered \cup {r}
          /\ subscriber_count' = [subscriber_count EXCEPT ![r] = 0]
          /\ idle_timer' = [idle_timer EXCEPT ![r] = None]
          /\ UNCHANGED puller
    /\ UNCHANGED <<total_peers, rtsp_url, sessions, timer, history>>

\* Write-locked re-check: lose the race to a stream of the same URL, or insert.
CreateInsert(r) ==
    /\ create_pc[r] = "inserting"
    /\ \/ /\ \E s \in StreamsFor(rtsp_url[r]) : AnswerAndDropPuller(r, s)
          /\ UNCHANGED registry
       \/ /\ StreamsFor(rtsp_url[r]) = {}
          /\ create_pc' = [create_pc EXCEPT ![r] = "done"]
          /\ response' = [response EXCEPT ![r] = r]
          /\ registered' = registered \cup {r}
          /\ subscriber_count' = [subscriber_count EXCEPT ![r] = 0]
          /\ idle_timer' = [idle_timer EXCEPT ![r] = None]
          /\ UNCHANGED puller
    /\ UNCHANGED <<total_peers, rtsp_url, sessions, timer, history>>

-----------------------------------------------------------------------------
(* subscribe_existing and the session around it *)

GoTo(x, state) == session_pc' = [session_pc EXCEPT ![x] = state]

\* JoinHandle::abort: the task stops at its next await unless it has finished.
Abort(t) == timer' = [y \in Session |->
    IF y = t /\ timer[y] = "sleeping" THEN "cancelled" ELSE timer[y]]

\* The relaxed load of total_peers, before the lock is taken.  A client knows
\* only ids that some request has answered with.
CheckPeerLimit(x, s) ==
    /\ session_pc[x] = "idle"
    /\ \E r \in Request : response[r] = s
    /\ session_stream' = [session_stream EXCEPT ![x] = s]
    /\ GoTo(x, IF total_peers >= MaxPeers THEN "rejected" ELSE "admitted")
    /\ UNCHANGED <<registry, total_peers, requests, puller, timer, history>>

\* Faulty variant: a rejected session gives back a count it never took.
RejectAndRelease(x) ==
    /\ session_pc[x] = "admitted"
    /\ LET s == session_stream[x]
       IN  s \notin registered \/ subscriber_count[s] >= MaxPerStream
    /\ total_peers' = total_peers - 1
    /\ GoTo(x, "rejected")
    /\ UNCHANGED <<registry, requests, puller, session_stream, timer, history>>

\* The critical section rejects: stream not found, or its own limit reached.
RejectSubscription(x) ==
    /\ session_pc[x] = "admitted"
    /\ LET s == session_stream[x]
       IN  s \notin registered \/ subscriber_count[s] >= MaxPerStream
    /\ GoTo(x, "rejected")
    /\ UNCHANGED <<registry, total_peers, requests, puller, session_stream, timer, history>>

\* Faulty variant: the limit is compared with <= instead of <.
SubscribeOverLimit(x) ==
    LET s == session_stream[x]
    IN  /\ session_pc[x] = "admitted"
        /\ s \in registered
        /\ subscriber_count[s] <= MaxPerStream
        /\ Abort(idle_timer[s])
        /\ idle_timer' = [idle_timer EXCEPT ![s] = None]
        /\ subscriber_count' = [subscriber_count EXCEPT ![s] = @ + 1]
        /\ total_peers' = total_peers + 1
        /\ GoTo(x, "signaling")
        /\ UNCHANGED <<registered, requests, puller, session_stream, history>>

\* The critical section accepts: take and abort the stored timer, count the viewer.
Subscribe(x) ==
    LET s == session_stream[x]
    IN  /\ session_pc[x] = "admitted"
        /\ s \in registered
        /\ subscriber_count[s] < MaxPerStream
        /\ Abort(idle_timer[s])
        /\ idle_timer' = [idle_timer EXCEPT ![s] = None]
        /\ subscriber_count' = [subscriber_count EXCEPT ![s] = @ + 1]
        /\ total_peers' = total_peers + 1
        /\ GoTo(x, "signaling")
        /\ outlived' = outlived \cup
               {y \in Session : timer[y] = "sleeping" /\ session_stream[y] = s}
        /\ UNCHANGED <<registered, requests, puller, session_stream, deleted>>

\* request_stream arrived and the WebRTC peer was created.
StartStreaming(x) ==
    /\ session_pc[x] = "signaling"
    /\ GoTo(x, "streaming")
    /\ UNCHANGED <<registry, total_peers, requests, puller, session_stream, timer, history>>

\* handle_signaling returns before its main loop: 10 s without a first message,
\* the socket fails or closes, the first message is not request_stream, or the
\* peer cannot be created.  None of these returns calls unsubscribe.
AbandonSignaling(x) ==
    /\ session_pc[x] = "signaling"
    /\ GoTo(x, "aborted")
    /\ UNCHANGED <<registry, total_peers, requests, puller, session_stream, timer, history>>

\* The main loop ends: ConnectionFailed, or every event sender is gone.
StopStreaming(x) ==
    /\ session_pc[x] = "streaming"
    /\ GoTo(x, "leaving")
    /\ UNCHANGED <<registry, total_peers, requests, puller, session_stream, timer, history>>

-----------------------------------------------------------------------------
(* unsubscribe *)

\* Faulty variant: the count is read before it is decremented.
UnsubscribeStaleCount(x) ==
    LET s == session_stream[x]
    IN  /\ session_pc[x] = "leaving"
        /\ \/ /\ s \notin registered
              /\ GoTo(x, "orphaned")
              /\ UNCHANGED subscriber_count
           \/ /\ s \in registered
              /\ subscriber_count' = [subscriber_count EXCEPT ![s] = @ - 1]
              /\ GoTo(x, IF subscriber_count[s] = 0 THEN "arming" ELSE "settling")
        /\ UNCHANGED <<registered, idle_timer, total_peers, requests, puller,
                       session_stream, timer, history>>

\* Faulty variant: only the last viewer of a stream is counted out.
UnsubscribeLastOnly(x) ==
    LET s == session_stream[x]
    IN  /\ session_pc[x] = "leaving"
        /\ \/ /\ s \notin registered
              /\ GoTo(x, "orphaned")
              /\ UNCHANGED subscriber_count
           \/ /\ s \in registered
              /\ subscriber_count' = [subscriber_count EXCEPT ![s] = IF @ = 1 THEN 0 ELSE @]
              /\ GoTo(x, IF subscriber_count'[s] = 0 THEN "arming" ELSE "settling")
        /\ UNCHANGED <<registered, idle_timer, total_peers, requests, puller,
                       session_stream, timer, history>>

\* First critical section: count the viewer out (saturating), or find the
\* stream gone and return.
Unsubscribe(x) ==
    LET s == session_stream[x]
    IN  /\ session_pc[x] = "leaving"
        /\ \/ /\ s \notin registered
              /\ GoTo(x, "orphaned")
              /\ UNCHANGED subscriber_count
           \/ /\ s \in registered
              /\ subscriber_count' =
                   [subscriber_count EXCEPT ![s] = IF @ > 0 THEN @ - 1 ELSE 0]
              /\ GoTo(x, IF subscriber_count'[s] = 0 THEN "arming" ELSE "settling")
        /\ UNCHANGED <<registered, idle_timer, total_peers, requests, puller,
                       session_stream, timer, history>>

\* Outside the lock: fetch_sub, and nothing more while others still watch.
SettlePeers(x) ==
    /\ session_pc[x] = "settling"
    /\ total_peers' = total_peers - 1
    /\ GoTo(x, "closed")
    /\ UNCHANGED <<registry, requests, puller, session_stream, timer, history>>

\* Faulty variant: the last viewer of a stream skips its fetch_sub.
ArmTimerOnly(x) ==
    /\ session_pc[x] = "arming"
    /\ timer' = [timer EXCEPT ![x] = "sleeping"]
    /\ GoTo(x, "storing")
    /\ UNCHANGED <<registry, total_peers, requests, puller, session_stream, history>>

\* Outside the lock: fetch_sub, then spawn the 30 s timer.
ArmTimer(x) ==
    /\ session_pc[x] = "arming"
    /\ total_peers' = total_peers - 1
    /\ timer' = [timer EXCEPT ![x] = "sleeping"]
    /\ GoTo(x, "storing")
    /\ UNCHANGED <<registry, requests, puller, session_stream, history>>

\* Second critical section: store the handle if the stream is still there.
\* A handle that is overwritten or dropped leaves its task running.
StoreTimer(x) ==
    LET s == session_stream[x]
    IN  /\ session_pc[x] = "storing"
        /\ idle_timer' = IF s \in registered
                         THEN [idle_timer EXCEPT ![s] = x]
                         ELSE idle_timer
        /\ GoTo(x, "closed")
        /\ UNCHANGED <<registered, subscriber_count, total_peers, requests, puller,
                       session_stream, timer, history>>

\* Faulty variant: the timer does not look at the count again.
TimerFiresBlindly(x) ==
    LET s == session_stream[x]
    IN  /\ timer[x] = "sleeping"
        /\ timer' = [timer EXCEPT ![x] = "fired"]
        /\ registered' = registered \ {s}
        /\ puller' = [puller EXCEPT ![s] = "none"]
        /\ UNCHANGED <<subscriber_count, idle_timer, total_peers, requests, sessions, history>>

\* Faulty variant: only the timer whose handle is stored may stop the stream.
TimerFiresIfStored(x) ==
    LET s == session_stream[x]
        idle == s \in registered /\ subscriber_count[s] = 0 /\ idle_timer[s] = x
    IN  /\ timer[x] = "sleeping"
        /\ timer' = [timer EXCEPT ![x] = "fired"]
        /\ registered' = IF idle THEN registered \ {s} ELSE registered
        /\ puller' = IF idle THEN [puller EXCEPT ![s] = "none"] ELSE puller
        /\ UNCHANGED <<subscriber_count, idle_timer, total_peers, requests, sessions, history>>

\* The timer task wakes and takes the lock: stop the stream if it is idle.
TimerFires(x) ==
    LET s == session_stream[x]
        idle == s \in registered /\ subscriber_count[s] = 0
    IN  /\ timer[x] = "sleeping"
        /\ timer' = [timer EXCEPT ![x] = "fired"]
        /\ registered' = IF idle THEN registered \ {s} ELSE registered
        /\ puller' = IF idle THEN [puller EXCEPT ![s] = "none"] ELSE puller
        /\ UNCHANGED <<subscriber_count, idle_timer, total_peers, requests, sessions, history>>

\* DELETE /api/streams/{id}: remove_stream, whoever is watching.
RemoveStream(s) ==
    /\ s \in registered
    /\ registered' = registered \ {s}
    /\ Abort(idle_timer[s])
    /\ puller' = [puller EXCEPT ![s] = "none"]
    /\ deleted' = deleted \cup {s}
    /\ UNCHANGED <<subscriber_count, idle_timer, total_peers, requests, sessions, outlived>>

-----------------------------------------------------------------------------
RequestStep(r) ==
    \/ \E u \in Url : CreateLookup(r, u)
    \/ PullerStarts(r)
    \/ TranscoderSurvives(r)
    \/ ProbeSucceeds(r)
    \/ CreateFails(r)
    \/ CreateInsert(r)

SessionStep(x) ==
    \/ \E s \in Request : CheckPeerLimit(x, s)
    \/ RejectSubscription(x)
    \/ Subscribe(x)
    \/ StartStreaming(x)
    \/ AbandonSignaling(x)
    \/ StopStreaming(x)
    \/ Unsubscribe(x)
    \/ SettlePeers(x)
    \/ ArmTimer(x)
    \/ StoreTimer(x)

Next ==
    \/ \E r \in Request : RequestStep(r)
    \/ \E x \in Session : SessionStep(x) \/ TimerFires(x)
    \/ \E s \in Request : RemoveStream(s)

Spec == Init /\ [][Next]_vars

(***************************************************************************)
(* The tokio runtime polls every ready task and the RwLock is fair, so a   *)
(* task that only waits for the lock or for its sleep goes on.  Nothing is *)
(* assumed of clients, of cameras or of the WebRTC connection.             *)
(***************************************************************************)
RuntimeFairness ==
    /\ \A r \in Request : WF_vars(CreateInsert(r))
    /\ \A x \in Session :
         /\ WF_vars(RejectSubscription(x))
         /\ WF_vars(Subscribe(x))
         /\ WF_vars(Unsubscribe(x))
         /\ WF_vars(SettlePeers(x))
         /\ WF_vars(ArmTimer(x))
         /\ WF_vars(StoreTimer(x))
         /\ WF_vars(TimerFires(x))

FairSpec == Spec /\ RuntimeFairness

-----------------------------------------------------------------------------
(* Safety *)

\* The type invariant of the registry, the requests, the sessions and the timers.
TypeOK ==
    /\ registered \subseteq Request
    /\ subscriber_count \in [Request -> Nat]
    /\ idle_timer \in [Request -> Session \cup {None}]
    /\ total_peers \in Nat
    /\ create_pc \in [Request -> CreateStates]
    /\ rtsp_url \in [Request -> Url \cup {None}]
    /\ puller \in [Request -> Pullers]
    /\ response \in [Request -> Request \cup {None}]
    /\ session_pc \in [Session -> SessionStates]
    /\ session_stream \in [Session -> Request \cup {None}]
    /\ timer \in [Session -> TimerStates]
    /\ outlived \subseteq Session
    /\ deleted \subseteq Request

\* However create_dynamic calls interleave, two registered streams never pull the
\* same URL: the re-check under the write lock catches every creation race.
OneStreamPerUrl ==
    \A s, t \in registered : rtsp_url[s] = rtsp_url[t] => s = t

\* An id create_dynamic answers with names a stream that really was registered,
\* and for the URL that was asked for, also when the call lost a creation race.
AnswersMatchRequest ==
    \A r \in Request : response[r] # None =>
        /\ rtsp_url[response[r]] = rtsp_url[r]
        /\ response[response[r]] = response[r]

\* A camera is pulled exactly for the registered streams and the creations still
\* in flight: losing a race, failing, expiring and deleting all stop the pull.
PullsAreOwned ==
    \A r \in Request : puller[r] # "none" <=>
        r \in registered \/ create_pc[r] \in {"transcoding", "probing", "inserting"}

\* subscriber_count of a registered stream is the number of sessions that
\* subscribed and were not yet counted out, through every order of
\* subscribe_existing, unsubscribe and removal.
CountIsHolders ==
    \A s \in registered : subscriber_count[s] = Cardinality(Holders(s))

\* The per-stream limit is checked and taken in one critical section, so no
\* stream ever serves more than max_per_stream sessions.
PerStreamLimit ==
    \A s \in registered : Cardinality(Holders(s)) <= MaxPerStream

\* total_peers, updated outside the lock that guards the counts, is the number of
\* sessions that subscribed and did not reach their fetch_sub; it never wraps.
GaugeIsCounted == total_peers = Cardinality(CountedSessions)

\* A watched stream that nobody watches any more has a timer running, or a session
\* about to start one: no order of joins, leaves and overwritten handles cancels
\* the last timer of an idle stream.
IdleStreamHasTimer ==
    \A s \in registered : Watched(s) /\ subscriber_count[s] = 0 =>
        \E x \in Session :
            /\ session_stream[x] = s
            /\ session_pc[x] = "arming" \/ timer[x] = "sleeping"

\* The handle stored in a stream is that of a timer of the same stream: aborting
\* it can never silence the timer of another one.
StoredTimerIsOwn ==
    \A s \in Request : idle_timer[s] # None =>
        /\ session_stream[idle_timer[s]] = s
        /\ timer[idle_timer[s]] # "unset"

-----------------------------------------------------------------------------
(* Refinement *)

CatalogSource == [s \in Request |-> IF response[s] = s THEN rtsp_url[s] ELSE None]

CatalogViewers == [s \in Request |-> IF s \in registered THEN Holders(s) ELSE {}]

Catalog == INSTANCE StreamCatalog WITH
    Id <- Request,
    Viewer <- Session,
    open <- registered,
    source <- CatalogSource,
    viewers <- CatalogViewers,
    deleted <- deleted

\* The manager implements the catalog: one open stream per URL, viewers within the
\* limit, and only deletion takes a stream away from its viewers.
ImplementsCatalog == Catalog!Spec

-----------------------------------------------------------------------------
(* Liveness *)

\* A stream whose last viewer was counted out stops or is watched again, although
\* timers are overwritten, cancelled and outlived by newer ones.
IdleStreamStops ==
    \A s \in Request :
        s \in registered /\ Watched(s) /\ subscriber_count[s] = 0
            ~> s \notin registered \/ subscriber_count[s] > 0

-----------------------------------------------------------------------------
(* What the documentation claims and the code does not do. *)

\* README_EN.md, Configuration Reference: limits.max_peers is the "Global max
\* WebRTC connections".  The load and the fetch_add are not one step.
GlobalPeerLimit == total_peers <= MaxPeers

\* stream.rs: total_peers is the "Total WebRTC peers across all streams".  A
\* session that finds its stream deleted never gives its count back.
GaugeCountsRunningSessions ==
    total_peers <= Cardinality({x \in Session : session_pc[x] \in Live \cup {"aborted"}})

\* docs/webrtc.md, Session Lifecycle: "Browser disconnects: 1. remove subscriber".
\* A session that ends before its main loop stays counted on its stream.
EveryHolderRuns ==
    \A s \in registered :
        subscriber_count[s] <= Cardinality({x \in Holders(s) : session_pc[x] \in Live})

\* README_EN.md: a stream "stops 30s after last viewer leaves".  A timer armed
\* before a later viewer came and went fires too early.
FullGracePeriod ==
    [][\A x \in outlived : timer[x] = "sleeping" /\ timer'[x] = "fired"
            => session_stream[x] \notin registered \ registered']_vars

\* README_EN.md: "Only pulls from camera when someone is watching".  No timer is
\* armed for a stream nobody ever subscribed to.
UnwatchedPullStops ==
    \A s \in Request :
        s \in registered /\ ~Watched(s) ~> s \notin registered \/ Watched(s)

=============================================================================
