----------------------------- MODULE Signaling -----------------------------
(***************************************************************************)
(* A player and the gateway, joined by the WebSockets of its sessions: the *)
(* exchange of offer, answer and trickled ICE candidates, and its end.     *)
(***************************************************************************)
EXTENDS Player, SignalingServer

vars == <<wires, player, server>>

Init == WiresInit /\ PlayerInit /\ ServerInit

\* ICE and DTLS succeed when both sides hold each other's description and one of
\* them a candidate of the other.
Connects(s) ==
    /\ rtc[s] = "answering" /\ offer[s] = s
    /\ accepted[s] # {} \/ added[s] # {}
    /\ ConnectionEstablished(s)
    /\ UNCHANGED player

\* The browser sees its peer connect, and may see it fail.
BrowserSeesState(s) ==
    /\ \/ rtc[s] = "answering" /\ conn[s] = "connected"
          /\ OnConnectionState(s, "connected", "connected")
       \/ rtc[s] = "connected" /\ conn[s] \in {"failed", "closed"}
          /\ OnConnectionState(s, "failed", "error")
    /\ UNCHANGED server

\* The network or a proxy drops an open WebSocket, or handle_signaling returns and
\* drops the gateway's end of it.
SocketDrops(s) ==
    /\ socket[s] = "open"
    /\ socket' = [socket EXCEPT ![s] = "closed"]
    /\ closing' = closing \cup {s}
    /\ UNCHANGED <<to_server, to_browser, fields, handlers, rtcs, server>>

Next ==
    \/ UserStep /\ UNCHANGED server
    \/ \E s \in Session :
          \/ HandlerStep(s) /\ UNCHANGED server
          \/ ServerStep(s) /\ UNCHANGED player
          \/ ConnectionFailed(s) /\ UNCHANGED player
          \/ Connects(s)
          \/ BrowserSeesState(s)
          \/ SocketDrops(s)

Spec == Init /\ [][Next]_vars

(***************************************************************************)
(* Both event loops run what is ready, and handle_signaling gives up       *)
(* waiting for a request.  The library gathers and connects when it can,   *)
(* and notices in the end that a connection it has started is not          *)
(* answered.  Users, networks and streams owe nothing.                     *)
(***************************************************************************)
FairSpec ==
    /\ Spec
    /\ \A s \in Session :
          /\ WF_vars(HandlerStep(s) /\ UNCHANGED server)
          /\ WF_vars(PeerCreated(s) /\ UNCHANGED player)
          /\ WF_vars(AcceptRequest(s) /\ UNCHANGED player)
          /\ WF_vars(AbandonRequest(s) /\ UNCHANGED player)
          /\ WF_vars(ForwardEvent(s) /\ UNCHANGED player)
          /\ WF_vars(ReadMessage(s) /\ UNCHANGED player)
          /\ WF_vars(ReaderEnds(s) /\ UNCHANGED player)
          /\ WF_vars(DropPeer(s) /\ UNCHANGED player)
          /\ WF_vars((RunAnswer(s) \/ RunCandidate(s) \/ LeaveLoop(s) \/ ClosePeerConnection(s))
                     /\ UNCHANGED player)
          /\ WF_vars(PeerAborted(s) /\ UNCHANGED player)
          /\ WF_vars(Gather(s) /\ UNCHANGED player)
          /\ WF_vars(Connects(s))
          /\ WF_vars(BrowserSeesState(s))
          /\ WF_vars(ConnectionFailed(s) /\ rtc[s] = "closed" /\ UNCHANGED player)

-----------------------------------------------------------------------------
(* Properties *)

\* The type invariant of both sides.
TypeOK ==
    /\ socket \in [Session -> SocketStates]
    /\ PlayerTypeOK
    /\ ServerTypeOK

\* No handler goes on once the next session was opened.  The code does not see to it
\* (AnswersAreOwn below); the theorems of Signaling_proofs assume it.
HandlersAreOwn ==
    ws # 0 => \A r \in Session \ {ws} : handler[r] = "ready" /\ queue[r] = <<>>

\* A connection neither side has given up.
Alive(s) == ws = s /\ socket[s] = "open" /\ pc = s /\ main[s] = "forwarding" /\ peer[s] = "running"

\* No candidate of the browser overtakes its answer and is refused for it: while the
\* session lives, every gathered candidate was accepted or is on its way.
BrowserCandidatesArrive ==
    \A s \in Session : Alive(s) =>
        1 .. gathered[s] = accepted[s] \cup CandidatesIn(pendingLocalCandidates)
                             \cup CandidatesIn(to_server[s]) \cup CandidatesIn(commands[s])

\* No candidate of the gateway is lost between its gathering and the browser's
\* connection, although it may overtake the offer: it waits in pendingCandidates.
ServerCandidatesArrive ==
    \A s \in Session : Alive(s) =>
        1 .. offered[s] =
            {c[2] : c \in added[s] \cup ToSet(pendingCandidates) \cup ToSet(flushing[s])}
              \cup CandidatesIn(events[s]) \cup CandidatesIn(to_browser[s])
              \cup CandidatesIn(queue[s])

\* Whatever the order of offer, answer and candidates, a session that both sides keep
\* up gets connected or fails visibly.
SessionSettles ==
    \A s \in Session :
        main[s] = "forwarding" ~>
            conn[s] \in {"connected", "failed"} \/ main[s] = "ended" \/ socket[s] = "closed"

\* docs/webrtc.md:86: "Browser disconnects: 1. remove subscriber".  When the socket of
\* a session in its main loop closes, the session ends, unless an answer still on its
\* way is set on its connection, which then connects, or fails and ends it.  The loop
\* waits for peer events only, and without an answer there is none (signaling.rs:277).
ClosedSocketEndsSession ==
    \A s \in Session :
        main[s] = "forwarding" /\ socket[s] = "closed" /\ remote[s] = 0 ~>
            main[s] = "ended" \/ remote[s] # 0

\* docs/webrtc.md:89: "2. cleanup peer".  WebRtcPeer's Drop sends Close and aborts the
\* task that would have acted on it, so the connection is not closed.
EndedSessionClosesPeer ==
    \A s \in Session : main[s] = "ended" /\ peer[s] # "none" ~> conn[s] = "closed"

\* webrtc_peer.rs:234: the peer task ends when the "RTP relay closed".  handle_signaling
\* holds the relay itself, so removing the stream closes nothing.
RemovedStreamEndsPeer ==
    \A s \in Session : ~registered[s] ~> peer[s] # "running"

\* rtsp-webrtc-player.js:48: "Serialized WebSocket message processing".  A handler of
\* the previous session that still waits answers on the socket of the next one.
AnswersAreOwn ==
    \A s \in Session : remote[s] \in {0, s}

=============================================================================
