------------------------------ MODULE RtpRelay ------------------------------
(***************************************************************************)
(* The path of one stream's RTP packets: from the task of an RtspPuller    *)
(* (rtsp.rs) or, for a camera that sends H.265, of an FfmpegPuller         *)
(* (ffmpeg_puller.rs) through the broadcast channel of RtpRelay            *)
(* (rtp_relay.rs) to the peer tasks of the sessions (webrtc_peer.rs), from *)
(* the creation of the stream (create_dynamic, stream.rs) to its removal.  *)
(*                                                                         *)
(* The channel closes when its sender is dropped, with the last Arc of the *)
(* relay.  Who has an Arc is what the states of creation, stream, source   *)
(* and sessions say.  How the stream manager decides on removal is in      *)
(* StreamManager, what else a session does in SignalingServer.             *)
(***************************************************************************)
EXTENDS Integers

CONSTANTS
    Session,
    Capacity,      \* 256: packets the channel keeps
    MaxPackets,    \* bound: packets the source sends
    Garbage        \* packets, of 1 .. MaxPackets, that are no RTP

VARIABLES
    create,        \* where create_dynamic is
    registered,    \* the stream is in the manager's map
    source,        \* the pulling task
    ffmpeg,        \* the transcoder's process
    sent,          \* packets 1 .. sent went into the channel
    drain,         \* the drain task
    next,          \* the next packet of each receiver
    sessions,      \* handle_signaling
    peer,          \* the peer task of each session
    failed,        \* ConnectionFailed is in the sessions's event queue
    track          \* the last packet written to each peer's track

creation == <<create, registered>>
pull == <<source, ffmpeg>>
peers == <<sessions, peer, failed, track>>
vars == <<creation, pull, sent, drain, next, peers>>

Receiver == Session \cup {"drain", "probe"}

Init ==
    /\ create = "starting" /\ registered = FALSE
    /\ source = "none" /\ ffmpeg = "none"
    /\ sent = 0
    /\ drain = "running"
    /\ next = [r \in Receiver |-> 1]
    /\ sessions = [s \in Session |-> "out"]
    /\ peer = [s \in Session |-> "none"]
    /\ failed = [s \in Session |-> FALSE]
    /\ track = [s \in Session |-> 0]

-----------------------------------------------------------------------------
(* The broadcast channel of tokio *)

HasNext(r) == next[r] \in (sent - Capacity + 1) .. sent
HasLagged(r) == next[r] <= sent - Capacity

Take(r) == next' = [next EXCEPT ![r] = @ + 1]
Skip(r) == next' = [next EXCEPT ![r] = sent - Capacity + 1]
Join(r) == next' = [next EXCEPT ![r] = sent + 1]

\* The sender is dropped and every packet read.
Closed(r) ==
    /\ create \in {"failed", "done"} /\ ~registered
    /\ source = "none"
    /\ \A s \in Session : sessions[s] # "open"
    /\ next[r] > sent

-----------------------------------------------------------------------------
(* create_dynamic *)

\* Faulty variant: FfmpegPuller has no Drop of its own, so only the process goes.
DropPullerKillsOnly ==
    /\ source' = IF source = "retina" THEN "aborted" ELSE source
    /\ ffmpeg' = IF ffmpeg = "running" THEN "exited" ELSE ffmpeg

\* The drop of a puller aborts its task, which ends when it next awaits, and kills FFmpeg.
DropPuller ==
    /\ source' = IF source = "none" THEN "none" ELSE "aborted"
    /\ ffmpeg' = IF ffmpeg = "running" THEN "exited" ELSE ffmpeg

Fail ==
    /\ create' = "failed"
    /\ DropPuller
    /\ UNCHANGED <<registered, sent, drain, next, peers>>

RetinaStarts ==
    /\ create = "starting"
    /\ create' = "subscribing"
    /\ source' = "retina"
    /\ UNCHANGED <<registered, ffmpeg, sent, drain, next, peers>>

RetinaFails ==
    /\ create = "starting"
    /\ Fail

\* The camera sends H.265: FFmpeg is spawned and given 1.5 s.
H265Required ==
    /\ create = "starting"
    /\ create' = "transcoding"
    /\ ffmpeg' = "running"
    /\ UNCHANGED <<registered, source, sent, drain, next, peers>>

FfmpegStarts ==
    /\ create = "transcoding" /\ ffmpeg = "running"
    /\ create' = "subscribing"
    /\ source' = "ffmpeg"
    /\ UNCHANGED <<registered, ffmpeg, sent, drain, next, peers>>

FfmpegExitedEarly ==
    /\ create = "transcoding" /\ ffmpeg = "exited"
    /\ Fail

\* The puller may have relayed packets by now; the probe does not see them.
ProbeSubscribes ==
    /\ create = "subscribing"
    /\ create' = "probing"
    /\ Join("probe")
    /\ UNCHANGED <<registered, pull, sent, drain, peers>>

ProbeReceives ==
    /\ create = "probing" /\ HasNext("probe")
    /\ create' = "inserting"
    /\ Take("probe")
    /\ UNCHANGED <<registered, pull, sent, drain, peers>>

\* Five seconds without a packet; or so many at once that recv returns Lagged, which
\* is an error here.
ProbeFails ==
    /\ create = "probing"
    /\ HasLagged("probe") \/ next["probe"] > sent
    /\ Fail

Insert ==
    /\ create = "inserting"
    /\ create' = "done"
    /\ registered' = TRUE
    /\ UNCHANGED <<pull, sent, drain, next, peers>>

\* Another request has registered a stream for the URL.
LoseRace ==
    /\ create = "inserting"
    /\ Fail

\* The client of the request disconnects, and the server drops the handler where it awaits.
Cancelled ==
    /\ create \in {"starting", "transcoding", "probing", "inserting"}
    /\ Fail

\* The idle timer or a DELETE.
RemoveStream ==
    /\ registered
    /\ registered' = FALSE
    /\ DropPuller
    /\ UNCHANGED <<create, sent, drain, next, peers>>

-----------------------------------------------------------------------------
(* The pulling tasks and the drain task *)

\* What is left in the UDP socket of an FFmpeg that exited counts as sent before.
Relay ==
    /\ source = "retina" \/ (source = "ffmpeg" /\ ffmpeg = "running")
    /\ sent < MaxPackets
    /\ sent' = sent + 1
    /\ UNCHANGED <<creation, pull, drain, next, peers>>

\* Nobody waits for the process.
FfmpegExits ==
    /\ ffmpeg = "running"
    /\ ffmpeg' = "exited"
    /\ UNCHANGED <<creation, source, sent, drain, next, peers>>

RecvFails ==
    /\ source = "ffmpeg"
    /\ source' = "none"
    /\ UNCHANGED <<creation, ffmpeg, sent, drain, next, peers>>

\* An aborted task may be in the middle of relaying a packet.
AbortedTaskEnds ==
    /\ source = "aborted"
    /\ source' = "none"
    /\ sent' \in {sent, sent + 1} /\ sent' <= MaxPackets
    /\ UNCHANGED <<creation, ffmpeg, drain, next, peers>>

Drain ==
    /\ drain = "running"
    /\ (HasNext("drain") /\ Take("drain")) \/ (HasLagged("drain") /\ Skip("drain"))
    /\ UNCHANGED <<creation, pull, sent, drain, peers>>

DrainEnds ==
    /\ drain = "running" /\ Closed("drain")
    /\ drain' = "ended"
    /\ UNCHANGED <<creation, pull, sent, next, peers>>

-----------------------------------------------------------------------------
(* Sessions and their peers *)

Subscribe(s) ==
    /\ sessions[s] = "out" /\ registered
    /\ sessions' = [sessions EXCEPT ![s] = "open"]
    /\ UNCHANGED <<creation, pull, sent, drain, next, peer, failed, track>>

\* handle_signaling returns before it has a peer.
LeaveEarly(s) ==
    /\ sessions[s] = "open" /\ peer[s] = "none"
    /\ sessions' = [sessions EXCEPT ![s] = "over"]
    /\ UNCHANGED <<creation, pull, sent, drain, next, peer, failed, track>>

NewPeer(s) ==
    /\ sessions[s] = "open" /\ peer[s] = "none"
    /\ peer' = [peer EXCEPT ![s] = "streaming"]
    /\ Join(s)
    /\ UNCHANGED <<creation, pull, sent, drain, sessions, failed, track>>

\* A packet that does not parse is skipped; a write that fails is only logged.
ReceivePacket(s) ==
    /\ peer[s] = "streaming" /\ HasNext(s)
    /\ Take(s)
    /\ track' = [track EXCEPT ![s] = IF next[s] \in Garbage THEN @ ELSE next[s]]
    /\ UNCHANGED <<creation, pull, sent, drain, sessions, peer, failed>>

\* Faulty variant: any error of recv ends the loop.
LaggedBreaks(s) ==
    /\ peer[s] = "streaming" /\ HasLagged(s)
    /\ peer' = [peer EXCEPT ![s] = "ended"]
    /\ UNCHANGED <<creation, pull, sent, drain, next, sessions, failed, track>>

Lagged(s) ==
    /\ peer[s] = "streaming" /\ HasLagged(s)
    /\ Skip(s)
    /\ UNCHANGED <<creation, pull, sent, drain, peers>>

\* set_remote_description fails.
AnswerRefused(s) ==
    /\ peer[s] = "streaming"
    /\ peer' = [peer EXCEPT ![s] = "ended"]
    /\ failed' = [failed EXCEPT ![s] = TRUE]
    /\ UNCHANGED <<creation, pull, sent, drain, next, sessions, track>>

\* The connection's state becomes Failed.
ConnectionFails(s) ==
    /\ peer[s] = "streaming"
    /\ failed' = [failed EXCEPT ![s] = TRUE]
    /\ UNCHANGED <<creation, pull, sent, drain, next, sessions, peer, track>>

\* handle_signaling returns and drops peer and relay.
SessionEnds(s) ==
    /\ sessions[s] = "open" /\ failed[s]
    /\ sessions' = [sessions EXCEPT ![s] = "over"]
    /\ peer' = [peer EXCEPT ![s] = "ended"]
    /\ UNCHANGED <<creation, pull, sent, drain, next, failed, track>>

-----------------------------------------------------------------------------
Next ==
    \/ RetinaStarts \/ RetinaFails \/ H265Required \/ FfmpegStarts \/ FfmpegExitedEarly
    \/ ProbeSubscribes \/ ProbeReceives \/ ProbeFails \/ Insert \/ LoseRace \/ Cancelled
    \/ RemoveStream
    \/ Relay \/ FfmpegExits \/ RecvFails \/ AbortedTaskEnds \/ Drain \/ DrainEnds
    \/ \E s \in Session :
         \/ Subscribe(s) \/ LeaveEarly(s) \/ NewPeer(s) \/ ReceivePacket(s) \/ Lagged(s)
         \/ AnswerRefused(s) \/ ConnectionFails(s) \/ SessionEnds(s)

(***************************************************************************)
(* Tasks that are ready run.  Nothing is assumed of cameras, FFmpeg,       *)
(* viewers, or of the end of RtspPuller::start, which may hang.            *)
(***************************************************************************)
Fairness ==
    /\ WF_vars(AbortedTaskEnds)
    /\ WF_vars(Drain)
    /\ WF_vars(DrainEnds)
    /\ \A s \in Session : WF_vars(ReceivePacket(s)) /\ WF_vars(Lagged(s)) /\ WF_vars(SessionEnds(s))

Spec == Init /\ [][Next]_vars /\ Fairness

-----------------------------------------------------------------------------
(* Properties *)

\* The type invariant of the creation, the tasks and the receivers.
TypeOK ==
    /\ create \in {"starting", "transcoding", "subscribing", "probing", "inserting", "failed", "done"}
    /\ registered \in BOOLEAN
    /\ source \in {"none", "retina", "ffmpeg", "aborted"}
    /\ ffmpeg \in {"none", "running", "exited"}
    /\ sent \in 0 .. MaxPackets
    /\ drain \in {"running", "ended"}
    /\ next \in [Receiver -> 1 .. MaxPackets + 1]
    /\ sessions \in [Session -> {"out", "open", "over"}]
    /\ peer \in [Session -> {"none", "streaming", "ended"}]
    /\ failed \in [Session -> BOOLEAN]
    /\ track \in [Session -> 0 .. MaxPackets]

\* Once the creation failed or the stream was removed, and the last session is over,
\* the channel closes and its drain task ends: no task keeps the relay for ever, whichever
\* puller fed it (Drop in rtsp.rs and ffmpeg_puller.rs, RtpRelay::new).
RelayIsReleased ==
    create \in {"failed", "done"} /\ ~registered /\ (\A s \in Session : sessions[s] # "open")
        ~> drain = "ended"

\* However slow a peer was, and whatever packets did not parse, its session ends or
\* every good packet sent while it streamed is followed by a write of it or of a later
\* one to its track (webrtc_peer.rs).
PeersCatchUp ==
    \A s \in Session, p \in 1 .. MaxPackets \ Garbage :
        peer[s] = "streaming" /\ next[s] <= p /\ p <= sent
            ~> track[s] >= p \/ sessions[s] = "over"

\* A stream whose transcoder died does not stay on offer.  The code only looks at the
\* process once, 1.5 s after its start.
DeadTranscoderIsNoticed ==
    registered /\ source = "ffmpeg" /\ ffmpeg = "exited" ~> ~registered

=============================================================================
