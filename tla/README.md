# A formal model of rtsp2webrtc

rtsp2webrtc pulls IP cameras over RTSP and serves their video to browsers, over WebRTC
(`/ws`) or over a WebSocket as FLV or MPEG-TS (`/live`). This directory holds TLA+ models of
its components, translated from the source, TLC configurations that check them on small
instances, and TLAPS proofs for every size. Paths below are relative to the repository.

To check a model: `tlc -config X.cfg M.tla`. To check proofs: `tlapm M_proofs.tla`. The runs,
the correspondence of every definition to source lines, and the faulty variant each property
catches are in `PROJECT.json`. Definitions commented "Faulty variant" are used only for that.

## 1. Inventory

| component | source | state | operations | modules |
|---|---|---|---|---|
| stream manager | `src/stream.rs`, called by `src/main.rs`, `src/api.rs`, `src/signaling.rs` | map of active streams with subscriber counts and idle timers, `total_peers` | create_dynamic, subscribe_existing, unsubscribe, remove_stream, timers | `StreamManager`, `StreamCatalog` |
| RTSP puller | `src/rtsp.rs` | RTSP session, backoff | start, the pulling loop, reconnect, drop | `RtspPuller` |
| FFmpeg puller | `src/ffmpeg_puller.rs` | child process, UDP socket | start, forward, drop | `RtpRelay`, steps of `StreamManager` |
| RTP relay | `src/rtp_relay.rs` | a broadcast channel and a drain task | subscribe, relay | `RtpRelay` |
| signaling | `src/signaling.rs` | one session: WebSocket halves, event channel, reader task | handle_signaling | `SignalingServer` |
| WebRTC peer | `src/webrtc_peer.rs` | RTCPeerConnection, command channel, peer task | new, send_command, drop | `SignalingServer`, `RtpRelay` |
| player | `web/demo/rtsp-webrtc-player.js` | `_ws`, `_pc`, flags, candidate queues, message queue | play, stop, handlers | `Player` |
| answer normalisation | `src/signaling.rs` | none | normalize_remote_answer_sdp | `AnswerSdp` |
| live manager | `src/live.rs` | map of FFmpeg processes by URL and mode | subscribe, unsubscribe, run, spawn_ffmpeg, timers | `LiveManager` |
| live feed | `src/live.rs` | init cache, broadcast channel, receivers | relay task, clone and subscribe, forward | `LiveFeed` |
| FLV parser | `src/live.rs` | init cache | flv_seq_hdr_end | `FlvHeader` |
| creation limiter | `src/api.rs` | `last_create` | create_stream | `CreateLimiter` |
| REST, start, shutdown | `src/api.rs`, `src/main.rs` | none of their own | routes, key check, shutdown | calls into `StreamManager` |
| configuration, errors | `src/config.rs`, `src/error.rs` | none | parse, format | - |
| DTLS handshake | `patches/webrtc-dtls/src`: `handshaker.rs`, `flight/`, `handshake/handshake_cache.rs`, `conn/mod.rs`, `lib.rs`, `prf/`, `crypto/` | state of a side, its flight and timer, cache, queue of records without keys | handshake, generate and parse of seven flights, the reader | `DtlsNegotiation`, `DtlsCache`, `DtlsConn`, `DtlsFlights`, `DtlsHandshake` |
| DTLS fragments | `conn/mod.rs`, `fragment_buffer/mod.rs` of the patch | buffer of fragments, next message | fragment_handshake, compact_raw_packets, push, pop | `FragmentBuffer` |

How they interact. A REST request calls create_dynamic, which starts an RTSP puller, or an
FFmpeg puller when the camera sends H.265; either feeds an RTP relay. A WebSocket session calls
subscribe_existing and then handle_signaling, which builds a WebRTC peer that reads the relay,
and exchanges messages with the player through two tasks and two channels; when its main loop
ends it calls unsubscribe, which may spawn an idle timer that stops the stream 30 s later.
`/live` is a second, separate path: each client subscribes to an FFmpeg process shared by key
and forwards the bytes of its pipe.

What is hard: tasks interleave between the critical sections of the two registries, and timers
they spawn outlive the reason they were armed for; candidates overtake offer and answer between
four queues; JavaScript handlers wait and find other objects in `this`; a camera fails in
different ways, and a failed reconnect returns to the dead session; a pipe cuts its output
anywhere; and a handshake's datagrams are lost, overtake each other and are parsed again with
every message that comes. What should hold: counters are exact and limits kept, one pull per URL, no process or
pull without an owner, no viewer cut off, idle streams stop, no candidate lost, retries bounded,
a late viewer gets a usable beginning, no task outlives its stream, and two sides of a handshake
have one secret or one of them fails for a reason that lies in its configuration.

## 2. Modules

**`StreamManager`** — requests, sessions and timers over one registry. A section under the
RwLock has no await in it and is one action; each section between is separate: `CreateLookup`,
`PullerStarts`/`TranscoderSurvives`/`ProbeSucceeds`/`CreateFails`, `CreateInsert` for
create_dynamic; `CheckPeerLimit` (the load of `total_peers`) and `Subscribe`/`RejectSubscription`
for subscribe_existing; `Unsubscribe`, `SettlePeers`, `ArmTimer`, `StoreTimer`, `TimerFires` for
unsubscribe and its timer. A stream is named by the request that created it (create_dynamic
draws a fresh UUID) and a timer by its session, which arms at most one.

**`StreamCatalog`** — what the manager promises: open streams, one per URL, viewers within the
limit; a stream closes only unwatched or by deletion. `StreamManager!ImplementsCatalog` maps
counters and program counters to sets of viewers.

**`LiveManager`** — clients, FFmpeg processes and timers over the `/live` registry. Other than
streams, keys are reused, so timers outlive the entry they were armed for. Processes are named
by the client that spawned them.

**`LiveFeed`** — the bytes of one live stream as positions: the relay extends the cache and sends
the chunk in two steps (`ExtendCache`, `SendChunk`), a viewer clones the cache and subscribes in
two (`CloneCache`, `Subscribe`), receivers follow or lag behind the channel.

**`FlvHeader`** — `FlvSeqHdrEnd` byte by byte, run on every longer prefix, against FFmpeg's muxer
(`TagBytes`, `Written`, `FlvBytes`, external). The reference `HeaderEnd` is read off the tags.

**`RtspPuller`** — the pulling task and a camera that breaks, heals, goes away and comes back with
another codec. Time passes inside actions: `silence` and `outage` count seconds with the constants
of the code.

**`RtpRelay`** — one stream's packets from the task of either puller through the broadcast channel
to the peer tasks, from the start of its creation to its removal. The states of creation, stream,
pulling task and sessions say who holds an Arc of the relay; the channel closes with the last
(`Closed`). `DropPuller` aborts a task, which ends a step later and may be in the middle of a
packet; `ProbeSubscribes` is a step of its own because the puller is at work by then. A receiver is
the number of its next packet.

**`SignalingWires`, `Player`, `SignalingServer`, `Signaling`** — the WebSockets of a player's
sessions; the player, with one action for what runs between two awaits (`Settled` lets handlers
that are ready go first, as microtasks do); handle_signaling, its reader and the peer task with
their channels; and their composition with ICE, DTLS and the network between them. An SDP is
told by the session it describes, a candidate by its number.

**`AnswerSdp`** — answers as sequences of lines with a kind and a value.

**`CreateLimiter`** — `last_create` in ticks, with the code's rounding of the hint to seconds.

**`DtlsNegotiation`** — what a side chooses from an offer, which scheme it signs with, what a server
accepts. A signature is a record of who signed what with which scheme.

**`DtlsCache`** — `PushAll` (what a flight pushes message by message), `Pull`, `FullPull` (full_pull_map)
and the rules by which messages are pulled for hashes. A hash of messages is the sequence of the messages.

**`DtlsConn`** — one side of a connection: `Datagrams` packs a flight, `HandleIncomingPacket` is what
a record does to the reader's state. A record with a key is readable to whoever has that key. A
record that comes before its keys goes to the queue (`Enqueue`), which `HandleQueuedPackets` reads
when the handshake has keys.

**`DtlsFlights`** — `Generate` and `Parse` of flights 0 to 6, each as a function from a side to a side:
`Goto`, `Keep` (wait for more), `Fail`, and an alert or not. A secret is the sequence of everything
the code derives it from, so two secrets are equal exactly when their inputs are.

**`DtlsHandshake`** — two such sides over a network. `Prepare`, `Send`, `Rendezvous`, `Retransmit` and
`ReaderGone` are the states of the handshake task; `Read` is the reader task, which fills the cache
and then waits until the handshake has parsed. Loss is decided when a datagram is sent, and of two
equal datagrams on their way only one is kept: a retransmission that is read right behind its
original finds nothing new.

**`FragmentBuffer`** — the messages of a flight byte by byte, cut into fragments and packed into
datagrams for one of several sizes, read in any order and any number of times, a retransmission
perhaps cut anew; and the receiver's `AppendMessage`, which takes the first fragment at an offset.

**`MCStreamManager`, `MCLiveFeed`, `MCSequential`, `MCMedia`, `MCDtls`** — instances with symmetry
sets or inputs. The other modules are checked as they are. `MCSequential` runs one of four
sequential components per behaviour, `MCMedia` the puller or the relay; what they put together
shares no state, so a product would only multiply the states.

## 3. Runs

| run | shows | bounds, and why they are enough |
|---|---|---|
| `registry` | eight invariants and the refinement of `StreamCatalog` | two requests over two URLs (a creation race needs two), three sessions (armed, joined and left in one stale-timer story), both limits in reach |
| `registry_live` | `IdleStreamStops` | one stream, three sessions: two overlapping timers and a joiner |
| `live` | five invariants, `IdleEntryStops` | two keys, three clients: a race, a stale timer and a successor under its key |
| `live_feed` | at most one chunk comes twice | two viewers, six positions, a header of two, reads of up to three, a channel of two chunks: joins before, in and behind the header, and lag |
| `sequential` | limiter, parser and normalisation against references; messages out of fragments | minutes of 6 s, 2 ticks a second, limits 0, 3, 5; outputs of one to four tags, reads of 1, 12, 31 bytes; answers of up to 5 lines; one or two messages of 0, 1 or 4 bytes, cut for 2 or 3 bytes (so a message is one fragment or two, at two offsets, alone or packed), five reads |
| `media` | backoff, bounded retry, `PullResumes`; `RelayIsReleased`, `PeersCatchUp` | the code's own 55, 1 and 30 s; six failures reach the cap, four changes. Two sessions, a channel of two packets and four packets, one of them no RTP: a receiver lags once and can still go on |
| `dtls` | five invariants and `HandshakeSettles` | a browser with the gateway and fourteen pairs that differ in one respect; two of them with two or three records to a datagram, so flights arrive in parts; every order and any number of losses, since a flight is repeated as long as it takes |
| `signaling` | `BrowserCandidatesArrive`, `ServerCandidatesArrive`, `SessionSettles` | one session, two candidates a side: one before and one behind each description |
| `global_limit`, `live_dead`, `signaling_socket`, `dtls_last_flight` | where code and documentation part, see 5 | the smallest instance that shows it |

Clients, requests and viewers act once, the camera changes a bounded number of times and a player
connects a bounded number of times, so every instance runs out of things to do: all
configurations say `CHECK_DEADLOCK FALSE`. Symmetry is used where identities are only compared
(`AnySymmetry` for requests and sessions, `Symmetry` for viewers) and never in a run with a
liveness property; the refinement in `registry` is a safety property of a specification
symmetric in the same sets.

**Fairness.** tokio polls every ready task and its RwLock is fair, so steps that only wait for
the lock, a channel or a sleep are weakly fair; the browser's event loop likewise runs ready
handlers, and `handle_signaling` gives up a socket that closes, or sends no request for 10 s
(`AbandonRequest`). Timers elapse, and a camera that is up answers an attempt. A connection the
library started, whose browser went away, is reported failed in the end. Nothing is assumed of
users, browsers' decisions, or cameras that are down.

The DTLS handshake alone needs a network that is not hostile for ever, so strong fairness is used
there and only there: of a side that keeps sending, a flight gets through whole now and then
(`Send(s, {})`), and copies of what is known do not overtake news for ever (`ReadNews`). Its timer
is weakly fair: it runs from the beginning of a wait, and what is read meanwhile does not restart it. That
Prepare and Rendezvous are taken is stated as what they achieve, that "preparing" and a pending
rendezvous are left again and again; only these actions leave them, and the form spares TLC from
evaluating the flights for enabledness. In `RtpRelay` nothing is assumed of cameras, FFmpeg,
viewers, or an RTSP start that may hang: `RelayIsReleased` begins when the creation is over.

## 4. Proofs

For every set of URLs, requests, keys and times, and any finite set of sessions or clients:

- `StreamManager_proofs`: all eight invariants of `registry`, and `ImplementsCatalog`. The
  invariants are not inductive alone. `IInv` adds that a stored timer handle belongs to its own
  stream (else aborting it could silence another stream's only timer), that registered streams
  are answered with a final answer and a known URL, and that the counter never passes the limit.
  The counting facts use that changing one session's state changes the cardinality of `Holders`
  or `CountedSessions` by one (`SubscribeCounts`, `UnsubscribeCounts`, `ReleaseCounts`). The
  refinement maps each action to one of the catalog's or to a stutter, one lemma per kind.
- `LiveManager_proofs`: all five invariants of `live`. `IInv` adds that an entry was inserted by
  its own client under its own key, that a viewer's source is a process, that stored handles are
  their key's own, and that timers exist only behind arming. `NoViewerCutOff` then follows since
  an exact counter makes a stale timer harmless.
- `RtspPuller_proofs`: types and `RetryIsBounded`, from a bound on `outage` for each phase; and
  `BackoffIsExponential`. The reference function `Doubled` is recursive and capped, so what it yields
  comes from a set: of the numbers of failures where something is false there is a least one
  (`WFMin`).
- `LiveFeed_proofs`: `OverlapIsOneChunk`. The cache never reaches beyond what the relay has read and
  a chunk starts where it had read to before, so whatever is read after a viewer's clone starts
  behind its cache; `ViewerInv` says so of every chunk that lies before a viewer but its first.
- `Signaling_proofs`: `TypeOK` in all cases; that candidates of both sides are kept, and that a session's
  remote description is its own (`AnswersAreOwn`), as long as no handler of an earlier
  session runs on the objects of a later one (`[]HandlersAreOwn`). The hypothesis cannot go: the code has such
  handlers, and section 5 shows what they do. With one session there are none, and
  `OneSession` has no hypothesis. The inductive invariant says of each message
  which side has it, in the order the socket keeps: a candidate is on the wire, in the queue
  for its description, or with the peer connection, and nothing is in a queue once the description is there
  (`BrowserKeeps`, `ServerKeeps`); an unborn session has nothing anywhere (`Unborn`), and what is
  on a wire belongs to its session (`Owner`).
- `Dtls_proofs`, of `DtlsNegotiation`: `FirstOfOffer` and `CurveIsKnown`, for every offer. Of
  `DtlsHandshake`, for every set of pairs of configurations and every size of a datagram: `TypeOK`,
  `OneSecret`, `ClientFinishesLast`, `EpochIsBacked` and `OnlyConfigsDecide`. None of the last four is
  inductive: what a side derives depends on which messages are in its cache, and these on what its peer had chosen when
  it made them. `IInv` is, in the order in which one thing depends on another:
  - a message has a number of its own, and whatever is on its way to a side, or lies in its
    queue or among its fragments, was made by its peer (`Own`, `Arrives`);
  - a side has its peer's messages below `next`, all of them, and no other (`Taken`). Since the
    message that shows a flight complete comes last in it, a side that parses one has all before it;
  - what a message says follows from the two configurations (`ClientMade`, `ServerMade`), as does
    what a side has chosen (`ClientChose`, `ServerChose`);
  - the secret of a side with keys is that of all that both have said (`Keyed`), so two secrets are equal.

  `Inv(P, K, N)` is `IInv` with the variables as parameters, so the lemmas on `Generate` and `Parse`
  are about functions of a side, without primes; there is one per flight made (`MakeFlight4`), and one
  per action (`HandshakeKeeps`). `FirstCommon`, the selections and the folds over records are
  opened only in lemmas of their own.

  For `OnlyConfigsDecide` (`ConfigsDecide`) `DecisionInv` is kept together with `IInv`. That a side fails
  only where the configurations do not fit is the harder half: it must be shown of every check in
  every flight. `DecisionInv` says
  - what a side has found out by the flight it has reached: that the certificate it has is its peer's, that
    the key was signed, that the choices are those of both, that the client was accepted (`ClientKnows`,
    `ServerKnows`);
  - while the configurations fit, no alert is on its way or queued, and no side has a reason to give up
    (`Calm`, `CalmNet`);
  - while the client has no cookie the server has none (`FirstThings`), and a proof shows all
    that was said before it (`ProofsShow`).

  `FitIs` says what fitting comes to, in terms of what the flights check. There is one lemma per flight
  made (`MadeFlight5Decides`), one per look at what has come (`Flight4Decides`), and `NoFlightNoFit` for a
  flight that cannot be made. `DecisionInv` was an invariant of the instance of `MCDtls` before it was
  proved.

  The assumptions are `PairsAssumption` and `NoneIsFresh`: `None` is `Option::None`, which is in no list
  of a configuration and no table of the code.
- `Sequential_proofs`: `RetryHintSuffices`, by the division lemma `RoundedUp` and the fact that
  a refusal's hint is computed from a `last_create` that is still the current one; and `RateHolds`:
  creations are an interval apart (`Spaced`), so those of a minute differ in how often the
  interval goes into their distance from the first, and there are no more of them than quotients.
  `SessionHasCredentials` and `OnlyAppends`, for answers of any length: an answer falls into its
  session and its media section in one way only (`PartsAreCut`, `CutIsParts`), so what
  `Normalize` assembled comes apart at the same place, and a second call finds nothing to copy.
  `HeaderIsFound` and `CacheIsHeader`, for every output of FFmpeg, whatever its tags hold, and
  every way the pipe cuts it: the bytes are laid out as the tags say (`Layout`, `WrittenStays`), so the
  parser, from the last tag before the header back to the first, stops where the header ends or
  where the bytes do (`ScanFinds`). `FlvConstants` says no more than that tags have a type and a payload.
  `FragmentsTile`: the fragments of a message carry each of its bytes once,
  for every length and size, by a division lemma (`PiecesSuffice`); and `Reassembly`, which states
  `MessagesAreWhole`: `Inv` says that every fragment in the cache is a piece of its message, cut for some size
  of the flight, so that a path `append_message` finds to the end is the message whatever sizes
  it is cut for. `Delivery` states `NothingIsHeldBack`, the other half: `compact_raw_packets` sends every
  fragment (`DatagramsCarry`), the buffer keeps every record of a datagram until its message comes out
  (`DatagramIsHeld`), as many pops as there are messages leave nothing that could come out (`PopsStop`), and
  `append_message` finds a message all of whose fragments are there (`AppendMessageFinds`). Its
  hypothesis is `[]NothingIsRefused`, that the buffer has room for what comes next. It cannot go, since old
  fragments are never removed and push refuses records when they fill the buffer; in the instance of
  `MCSequential` it holds.
- `Recursion` has the lemmas on folds and recursive functions: they exist, and they keep what each
  step keeps (`FoldExists`, `FoldKeeps`, `AscentExists`), from least and greatest elements of sets of
  numbers, which exist because the natural numbers are well-founded.

Assumptions are the named ones of the modules: finite sets of actors, natural limits, a fresh
`None`, and ordered times. TLC evaluates them in every run.

Model-checked only: the liveness properties (`IdleStreamStops`, `IdleEntryStops`, `PullResumes`,
`SessionSettles`, `RelayIsReleased`, `PeersCatchUp`, `HandshakeSettles`), which need ENABLED. Every
safety property of a passing run is the subject of a theorem, for `Signaling` under the hypothesis above.

## 5. Known deviations

A run of `PROJECT.json` refutes each of these; the finding there quotes the text.

| run, property | what happens |
|---|---|
| `global_limit`, `GlobalPeerLimit` | two sessions load `total_peers` before either is counted and exceed `max_peers` (`stream.rs:187`) |
| `live_dead`, `DeadStreamLetsGo` | an entry keeps a sender, so the viewers of an exited FFmpeg wait for ever (`live.rs:80`) |
| `signaling_socket`, `ClosedSocketEndsSession` | a session in its main loop whose socket closes and whose answer never comes is not ended (`signaling.rs:277`); while it waits for its request it is (`signaling.rs:132`) |
| `dtls_last_flight`, `LastFlightIsRepeated` | a server whose last flight was lost has left the handshake and never repeats it (`handshaker.rs:230`) |

TLC refutes these as well, when the configuration named is given the property instead of its own:

| property | configuration | what happens |
|---|---|---|
| `GaugeCountsRunningSessions` | `MCStreamManager_live` | a session whose stream was deleted never gives `total_peers` back (`stream.rs:239`) |
| `EveryHolderRuns` | `MCStreamManager_live` | handle_signaling's early returns leave their subscription (`signaling.rs:146`; `docs/webrtc.md:88`) |
| `FullGracePeriod` | `MCStreamManager_live` | a timer that escaped its abort cuts a later grace period short (`stream.rs:265`) |
| `UnwatchedPullStops` | `MCStreamManager_live` | a stream nobody ever watched is pulled for ever (`stream.rs:163`; `README_EN.md:13`) |
| `HeaderExactlyOnce` | `MCLiveFeed` | a viewer that joins between cache and send gets header bytes twice; one that clones the cache before a chunk is read and subscribes after it is sent misses them (`live.rs:55`, `live.rs:261`) |
| `FirstChunkStartsTag` | `MCLiveFeed` | a late viewer's first chunk starts inside a tag (`live.rs:250`) |
| `SilenceEndsSession` | `MCMedia` | RTCP restarts the keepalive of a session without media (`rtsp.rs:234`) |
| `RetryWithinBackoff` | `MCMedia` | after a failed attempt the dead session is read for 55 s again (`rtsp.rs:262`; `docs/roadmap.md:11`) |
| `RelaysOnlyH264` | `MCMedia` | reconnect does not repeat start's H.265 check (`rtsp.rs:285`) |
| `EndedSessionClosesPeer` | `Signaling_socket` | Drop aborts the task that would close the connection (`webrtc_peer.rs:289`) |
| `RemovedStreamEndsPeer` | `Signaling_socket` | the session holds the relay whose end its peer waits for (`webrtc_peer.rs:233`) |
| `AnswersAreOwn`, `ServerCandidatesArrive` | `Signaling_socket`, two sessions | a stale handler answers on the next session's socket and takes that session's remote description for set (`rtsp-webrtc-player.js:224`) |
| `DeadTranscoderIsNoticed` | `RtpRelay` with the constants of `MCMedia` and `SPECIFICATION Spec` | nobody looks at FFmpeg after its first 1.5 s; the stream stays on offer without media (`ffmpeg_puller.rs:64`) |
| `NothingIsEverHeldBack` | `MCSequential` | a peer that cuts a retransmission anew can leave a short fragment before a long one at the same offset; the message waits for another retransmission (`fragment_buffer/mod.rs:136`) |
| `RefusedOnlyAtLimit` | `MCSequential` | requests are spaced, not counted per minute (`api.rs:142`; `README_EN.md:274`) |

## 6. Not modelled, and why

- Of the patched `webrtc-dtls`: pre-shared keys, which the gateway never configures; record numbers
  and the replay window (a retransmission has new numbers); the choice of a certificate by server
  name (there is one); encodings and ciphers; application data and close, which happen under the
  control of the WebRTC stack. Faults of the cryptography itself are outside: a signature or a
  Finished message is what it proves. The alerts of a handshake are all fatal; CloseNotify
  belongs to close. Old fragments that the code's buffer keeps unread are left out of `DtlsConn`; they are in
  `FragmentBuffer`, whose 2 MB limit no run comes near.
- Retina, webrtc-rs, FFmpeg and the browser beyond their callbacks: external. In particular an
  RTSP attempt that never returns (it has no timeout of its own) is outside `RtspPuller`, and
  media loss in a lagging receiver is seen as a skip only.
- Graceful shutdown: it waits, and how long is a matter of axum.
- Listing, status, health and metrics: they only read. Keys, URL masking, configuration and
  error texts: no state. createAndPlay is a request followed by play; restartIce and the
  explicit createAnswer only lengthen the wait in `_buildAnswerSdpWithIce`.
- Messages no correct player sends (an answer that does not parse, at which the reader task stops,
  is one; an answer that parses may be refused), and faults of the server's own process: nothing
  is persisted.

## 7. Plan

1. Done: everything in the table of runs, and the proofs above.
2. DTLS: the replay window with record numbers of both epochs, over a network that duplicates; the
   close of a connection while its reader hands on application data (`conn/mod.rs:1156`).
