----------------------------- MODULE RtspPuller -----------------------------
(***************************************************************************)
(* The task that pulls one camera over RTSP (RtspPuller::start, rtsp.rs):  *)
(* it relays RTP packets, gives up a session on an error, on its end or    *)
(* when nothing arrives for KEEPALIVE_SECS, and reconnects with            *)
(* exponential backoff.  A failed attempt goes back to reading the session *)
(* that was given up.                                                      *)
(*                                                                         *)
(* Time passes inside actions: `silence' is how long the current session   *)
(* has been read without an RTP packet, `outage' how long ago the camera   *)
(* was last heard or tried.                                                *)
(***************************************************************************)
EXTENDS Integers

CONSTANTS
    KEEPALIVE_SECS,    \* 55
    MIN_BACKOFF,       \* 1 s
    MAX_BACKOFF,       \* 30 s
    MaxFailures,       \* bound: attempts that fail in a row
    MaxChanges         \* bound: changes of the camera or its network

ASSUME PullerTimes ==
    /\ KEEPALIVE_SECS \in Nat \ {0}
    /\ MIN_BACKOFF \in Nat \ {0} /\ MAX_BACKOFF \in Nat /\ MIN_BACKOFF <= MAX_BACKOFF
    /\ MaxFailures \in Nat /\ MaxChanges \in Nat

VARIABLES
    pc,        \* where the task is
    backoff,   \* backoff_ms, in seconds
    session,   \* what reading `current' yields
    relayed,   \* codec of the packets of `current'
    camera,    \* what a new session with the camera would be
    codec,     \* the codec the camera sends now
    failures,  \* attempts that failed since the last success
    silence,
    outage,
    changes

task == <<pc, backoff, session, relayed>>
world == <<camera, codec, changes>>
clock == <<silence, outage>>
vars == <<task, world, failures, clock>>

Codecs == {"h264", "h265"}

\* rtp: media flows.  rtcp: only RTCP arrives.  silent: nothing arrives, the TCP
\* connection stays.  error: every read fails.  ended: the stream is over.
Sessions == {"rtp", "rtcp", "silent", "error", "ended"}

AtMost(m, n) == IF m <= n THEN m ELSE n

\* start has described, set up and played a camera that is not H.265.
Init ==
    /\ pc = "receiving"
    /\ backoff = MIN_BACKOFF
    /\ session = "rtp" /\ relayed = "h264"
    /\ camera = "up" /\ codec = "h264"
    /\ failures = 0
    /\ silence = 0 /\ outage = 0
    /\ changes = 0

\* Seconds pass without an RTP packet.  The counters stop at the values that the
\* properties no longer tell apart.
Pass(secs) ==
    /\ silence' = AtMost(silence + secs, 2 * KEEPALIVE_SECS)
    /\ outage' = AtMost(outage + secs, 2 * (KEEPALIVE_SECS + MAX_BACKOFF))

-----------------------------------------------------------------------------
(* The inner loop: current.next() under a timeout *)

ReceiveRtp ==
    /\ pc = "receiving" /\ session = "rtp"
    /\ silence' = 0 /\ outage' = 0
    /\ UNCHANGED <<task, world, failures>>

\* An RTCP packet ends the wait like any other item, so the timeout starts anew.
ReceiveRtcp ==
    /\ pc = "receiving" /\ session = "rtcp"
    /\ silence' = AtMost(silence + KEEPALIVE_SECS - 1, 2 * KEEPALIVE_SECS)
    /\ outage' = 0
    /\ UNCHANGED <<task, world, failures>>

Fail ==
    /\ pc = "receiving" /\ session \in {"error", "ended"}
    /\ pc' = "backing_off"
    /\ UNCHANGED <<backoff, session, relayed, world, failures, clock>>

\* Faulty variant: only sessions that were never given up are timed.
KeepaliveElapsesOnce ==
    /\ pc = "receiving" /\ session = "silent" /\ failures = 0
    /\ pc' = "backing_off"
    /\ Pass(KEEPALIVE_SECS)
    /\ UNCHANGED <<backoff, session, relayed, world, failures>>

KeepaliveElapses ==
    /\ pc = "receiving" /\ session = "silent"
    /\ pc' = "backing_off"
    /\ Pass(KEEPALIVE_SECS)
    /\ UNCHANGED <<backoff, session, relayed, world, failures>>

-----------------------------------------------------------------------------
(* The outer loop: reconnect with exponential backoff *)

\* Faulty variant: the cap is applied before doubling.
BackOffUncapped ==
    /\ pc = "backing_off"
    /\ pc' = "connecting"
    /\ Pass(backoff)
    /\ backoff' = 2 * AtMost(backoff, MAX_BACKOFF)
    /\ UNCHANGED <<session, relayed, world, failures>>

BackOff ==
    /\ pc = "backing_off"
    /\ pc' = "connecting"
    /\ Pass(backoff)
    /\ backoff' = AtMost(2 * backoff, MAX_BACKOFF)
    /\ UNCHANGED <<session, relayed, world, failures>>

\* Faulty variant: the backoff is not reset.
ReconnectOkKeepsBackoff ==
    /\ pc = "connecting" /\ camera = "up"
    /\ pc' = "receiving"
    /\ session' = "rtp" /\ relayed' = codec
    /\ failures' = 0
    /\ silence' = 0 /\ outage' = 0
    /\ UNCHANGED <<backoff, world>>

\* reconnect describes, sets up and plays the camera as it is now.  Only then is the
\* old session dropped.
ReconnectOk ==
    /\ pc = "connecting" /\ camera = "up"
    /\ pc' = "receiving"
    /\ session' = "rtp" /\ relayed' = codec
    /\ backoff' = MIN_BACKOFF
    /\ failures' = 0
    /\ silence' = 0 /\ outage' = 0
    /\ UNCHANGED world

\* The old session stays current, and is read again.
ReconnectFails ==
    /\ pc = "connecting" /\ camera = "down"
    /\ failures < MaxFailures
    /\ pc' = "receiving"
    /\ failures' = failures + 1
    /\ silence' = 0 /\ outage' = 0
    /\ UNCHANGED <<backoff, session, relayed, world>>

\* RtspPuller is dropped with its stream: the task is aborted wherever it awaits.
Drop ==
    /\ pc # "aborted"
    /\ pc' = "aborted"
    /\ UNCHANGED <<backoff, session, relayed, world, failures, clock>>

-----------------------------------------------------------------------------
(* The camera and its network *)

Change ==
    /\ changes < MaxChanges
    /\ changes' = changes + 1

\* The session at hand degrades.
SessionBreaks ==
    /\ Change
    /\ session = "rtp"
    /\ session' \in Sessions \ {"rtp"}
    /\ UNCHANGED <<pc, backoff, relayed, camera, codec, failures, clock>>

\* A stalled connection comes back to life.
SessionHeals ==
    /\ Change
    /\ camera = "up" /\ session \in {"silent", "rtcp"}
    /\ session' = "rtp"
    /\ UNCHANGED <<pc, backoff, relayed, camera, codec, failures, clock>>

CameraGoesDown ==
    /\ Change
    /\ camera = "up"
    /\ camera' = "down"
    /\ session' \in {"silent", "error", "ended"}
    /\ UNCHANGED <<pc, backoff, relayed, codec, failures, clock>>

\* It comes back, perhaps with another encoder setting.
CameraComesUp ==
    /\ Change
    /\ camera = "down"
    /\ camera' = "up"
    /\ codec' \in Codecs
    /\ UNCHANGED <<task, failures, clock>>

-----------------------------------------------------------------------------
Environment == SessionBreaks \/ SessionHeals \/ CameraGoesDown \/ CameraComesUp

Next ==
    \/ ReceiveRtp \/ ReceiveRtcp
    \/ Fail \/ KeepaliveElapses
    \/ BackOff \/ ReconnectOk \/ ReconnectFails
    \/ Drop
    \/ Environment

Spec == Init /\ [][Next]_vars

(***************************************************************************)
(* Timers elapse, a session that delivers is read, and a camera that is up *)
(* answers; the camera itself owes nothing.                                *)
(***************************************************************************)
Fairness ==
    /\ WF_vars(ReceiveRtp)
    /\ WF_vars(ReceiveRtcp)
    /\ WF_vars(Fail)
    /\ WF_vars(KeepaliveElapses)
    /\ WF_vars(BackOff)
    /\ WF_vars(ReconnectOk)
    /\ WF_vars(ReconnectFails)

FairSpec == Spec /\ Fairness

-----------------------------------------------------------------------------
(* Properties *)

\* The type invariant of the task, the camera and the clocks.
TypeOK ==
    /\ pc \in {"receiving", "backing_off", "connecting", "aborted"}
    /\ backoff \in MIN_BACKOFF .. MAX_BACKOFF
    /\ session \in Sessions /\ relayed \in Codecs
    /\ camera \in {"up", "down"} /\ codec \in Codecs
    /\ failures \in 0 .. MaxFailures
    /\ silence \in Nat /\ outage \in Nat
    /\ changes \in 0 .. MaxChanges

\* MIN_BACKOFF times two to the power of n.
Doubled[n \in 0 .. MaxFailures + 1] == IF n = 0 THEN MIN_BACKOFF ELSE 2 * Doubled[n - 1]

\* The backoff doubles with every failed attempt since the last success, from
\* MIN_BACKOFF to MAX_BACKOFF, and starts anew after a success.
BackoffIsExponential ==
    LET attempts == IF pc = "connecting" THEN failures + 1 ELSE failures
    IN  pc # "aborted" => backoff = AtMost(Doubled[attempts], MAX_BACKOFF)

\* However sessions break, the camera is tried again no later than one keepalive
\* period and one capped backoff after it was last heard or tried.
RetryIsBounded ==
    pc = "connecting" => outage <= KEEPALIVE_SECS + MAX_BACKOFF

\* A puller whose session died pulls again once the camera is back.
PullResumes ==
    camera = "up" /\ session \in {"silent", "error", "ended"}
        ~> session \in {"rtp", "rtcp"} \/ camera = "down" \/ pc = "aborted"

\* rtsp.rs:217: "If no RTP packet arrives within KEEPALIVE_SECS, the RTSP session may
\* have timed out -> reconnect."  RTCP packets keep restarting the timeout.
SilenceEndsSession ==
    pc = "receiving" => silence < KEEPALIVE_SECS

\* docs/roadmap.md:11: "Automatic reconnection with exponential backoff (1s -> 30s)".
\* After a failed attempt the dead session is read again for a keepalive period first.
RetryWithinBackoff ==
    pc = "connecting" /\ failures > 0 => outage <= MAX_BACKOFF

\* rtsp.rs:146: "H.265 / HEVC cannot be decoded by Chrome/Firefox in WebRTC", and start
\* refuses it; reconnect takes whatever the camera sends by then.
RelaysOnlyH264 ==
    relayed = "h264"

=============================================================================
