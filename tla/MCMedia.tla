------------------------------ MODULE MCMedia -------------------------------
(***************************************************************************)
(* The two halves of a WebRTC stream's media path in one instance: the     *)
(* puller that takes packets from the camera, and the relay that takes     *)
(* them to the peers.  A puller never waits for the relay, and to the      *)
(* relay a puller is a task that sends or does not; so a behaviour runs    *)
(* one of them, and the other stays where it has nothing left to do.       *)
(***************************************************************************)
EXTENDS RtspPuller

CONSTANTS Session, Capacity, MaxPackets, Garbage

VARIABLES
    part,                                                     \* the half that runs
    create, registered, source, ffmpeg, sent, drain, next,    \* RtpRelay's
    sessions, peer, failed, track

Delivery == INSTANCE RtpRelay

delivery == <<create, registered, source, ffmpeg, sent, drain, next, sessions, peer, failed, track>>

-----------------------------------------------------------------------------
PullerIsGone ==
    /\ pc = "aborted" /\ backoff = MIN_BACKOFF
    /\ session = "rtp" /\ relayed = "h264" /\ camera = "up" /\ codec = "h264"
    /\ failures = 0 /\ silence = 0 /\ outage = 0 /\ changes = 0

RelayIsGone ==
    /\ create = "failed" /\ registered = FALSE
    /\ source = "none" /\ ffmpeg = "none" /\ sent = 0 /\ drain = "ended"
    /\ next = [r \in Delivery!Receiver |-> 1]
    /\ sessions = [s \in Session |-> "out"]
    /\ peer = [s \in Session |-> "none"]
    /\ failed = [s \in Session |-> FALSE]
    /\ track = [s \in Session |-> 0]

MediaInit ==
    \/ part = "puller" /\ Init /\ RelayIsGone
    \/ part = "relay" /\ PullerIsGone /\ Delivery!Init

MediaNext ==
    /\ UNCHANGED part
    /\ \/ part = "puller" /\ Next /\ UNCHANGED delivery
       \/ part = "relay" /\ Delivery!Next /\ UNCHANGED vars

\* What is gone has no step left that fairness could demand.
MediaSpec ==
    /\ MediaInit /\ [][MediaNext]_<<part, vars, delivery>>
    /\ Fairness /\ Delivery!Fairness

-----------------------------------------------------------------------------
(* Properties *)

\* No task keeps a relay for ever once its stream is gone and its sessions are over
\* (rtp_relay.rs, rtsp.rs, ffmpeg_puller.rs).
RelayIsReleased == Delivery!RelayIsReleased

\* Every packet sent while a peer streams is followed by a write to its track, however
\* slow it was (webrtc_peer.rs).
PeersCatchUp == Delivery!PeersCatchUp

=============================================================================
