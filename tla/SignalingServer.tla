-------------------------- MODULE SignalingServer --------------------------
(***************************************************************************)
(* The gateway's side of a session: handle_signaling (signaling.rs) with   *)
(* its WebSocket reader task, and the peer task that drives the            *)
(* RTCPeerConnection (webrtc_peer.rs).  The tasks talk through unbounded   *)
(* channels, which keep their order.  What the WebRTC library does by      *)
(* itself (gathering, connecting, failing) is modelled from its callbacks. *)
(***************************************************************************)
EXTENDS SignalingWires

VARIABLES
    main,       \* where handle_signaling is
    reader,     \* the reader task
    peer,       \* the peer task
    events,     \* PeerEvents on their way to handle_signaling
    commands,   \* PeerCommands on their way to the peer task
    dropped,    \* WebRtcPeer was dropped: Close sent, task aborted
    conn,       \* state of the RTCPeerConnection
    remote,     \* the session its remote description describes
    accepted,   \* browser candidates it was given in time
    offered,    \* how many candidates it has gathered
    registered  \* the stream of the session is still registered

tasks == <<main, reader, peer>>
channels == <<events, commands>>
connection == <<conn, remote, accepted, offered>>
server == <<tasks, channels, dropped, connection, registered>>

MainStates == {"waiting", "creating", "forwarding", "ended"}
ConnStates == {"none", "new", "connected", "failed", "closed"}

ServerInit ==
    /\ main = [s \in Session |-> "waiting"]
    /\ reader = [s \in Session |-> "none"]
    /\ peer = [s \in Session |-> "none"]
    /\ events = [s \in Session |-> <<>>]
    /\ commands = [s \in Session |-> <<>>]
    /\ dropped = [s \in Session |-> FALSE]
    /\ conn = [s \in Session |-> "none"]
    /\ remote = [s \in Session |-> 0]
    /\ accepted = [s \in Session |-> {}]
    /\ offered = [s \in Session |-> 0]
    /\ registered = [s \in Session |-> TRUE]

\* send_json: an error is logged and ignored.
Send(s, m) ==
    to_browser' = IF socket[s] = "open" THEN [to_browser EXCEPT ![s] = Append(@, m)]
                  ELSE to_browser

Emit(s, m) == events' = [events EXCEPT ![s] = Append(@, m)]

-----------------------------------------------------------------------------
(* handle_signaling *)

\* The first message must be request_stream; then the peer is created.
AcceptRequest(s) ==
    /\ main[s] = "waiting" /\ to_server[s] # <<>>
    /\ Head(to_server[s]).type = "request_stream"
    /\ to_server' = [to_server EXCEPT ![s] = Tail(@)]
    /\ main' = [main EXCEPT ![s] = "creating"]
    /\ conn' = [conn EXCEPT ![s] = "new"]
    /\ UNCHANGED <<socket, to_browser, reader, peer, channels, dropped, remote, accepted, offered,
                   registered>>

\* The socket closed before the request, or sent none in time.
AbandonRequest(s) ==
    /\ main[s] = "waiting" /\ socket[s] \in {"open", "closed"}
    /\ main' = [main EXCEPT ![s] = "ended"]
    /\ UNCHANGED <<wires, reader, peer, channels, dropped, connection, registered>>

\* WebRtcPeer::new failed.
AbandonPeer(s) ==
    /\ main[s] = "creating"
    /\ Send(s, Message("error", 0))
    /\ main' = [main EXCEPT ![s] = "ended"]
    /\ UNCHANGED <<socket, to_server, reader, peer, channels, dropped, connection, registered>>

\* Faulty variant: the reader's socket half is used before 'connected' is sent.
PeerCreatedSilently(s) ==
    /\ main[s] = "creating"
    /\ Emit(s, Message("sdp_offer", s))
    /\ peer' = [peer EXCEPT ![s] = "running"]
    /\ reader' = [reader EXCEPT ![s] = "reading"]
    /\ main' = [main EXCEPT ![s] = "forwarding"]
    /\ UNCHANGED <<wires, commands, dropped, connection, registered>>

\* WebRtcPeer::new emits the offer and starts the peer task; handle_signaling sends
\* 'connected' and starts the reader.
PeerCreated(s) ==
    /\ main[s] = "creating"
    /\ Emit(s, Message("sdp_offer", s))
    /\ peer' = [peer EXCEPT ![s] = "running"]
    /\ Send(s, Message("connected", 0))
    /\ reader' = [reader EXCEPT ![s] = "reading"]
    /\ main' = [main EXCEPT ![s] = "forwarding"]
    /\ UNCHANGED <<socket, to_server, commands, dropped, connection, registered>>

\* The main loop: an event becomes a message; ConnectionFailed ends the session.
ForwardEvent(s) ==
    /\ main[s] = "forwarding" /\ events[s] # <<>>
    /\ events' = [events EXCEPT ![s] = Tail(@)]
    /\ LET e == Head(events[s])
       IN  \/ /\ e.type \in {"sdp_offer", "ice_candidate"}
              /\ Send(s, e)
              /\ UNCHANGED main
           \/ /\ e.type = "established"
              /\ UNCHANGED <<to_browser, main>>
           \/ /\ e.type = "failed"
              /\ Send(s, Message("error", 0))
              /\ main' = [main EXCEPT ![s] = "ended"]
    /\ UNCHANGED <<socket, to_server, reader, peer, commands, dropped, connection, registered>>

-----------------------------------------------------------------------------
(* The reader task *)

Command(s, m) == commands' = [commands EXCEPT ![s] = Append(@, m)]

\* An answer or a candidate becomes a command; other messages are ignored.
ReadMessage(s) ==
    /\ reader[s] = "reading" /\ to_server[s] # <<>>
    /\ to_server' = [to_server EXCEPT ![s] = Tail(@)]
    /\ IF Head(to_server[s]).type \in {"sdp_answer", "ice_candidate"}
       THEN Command(s, Head(to_server[s])) ELSE UNCHANGED commands
    /\ UNCHANGED <<socket, to_browser, tasks, events, dropped, connection, registered>>

\* The socket is closed, or handle_signaling has aborted the task.
ReaderEnds(s) ==
    /\ reader[s] = "reading"
    /\ \/ socket[s] = "closed" /\ to_server[s] = <<>>
       \/ main[s] = "ended"
    /\ reader' = [reader EXCEPT ![s] = "ended"]
    /\ UNCHANGED <<wires, main, peer, channels, dropped, connection, registered>>

\* The last Arc of WebRtcPeer goes: Drop sends Close and aborts the task.
DropPeer(s) ==
    /\ main[s] = "ended" /\ reader[s] = "ended" /\ ~dropped[s]
    /\ dropped' = [dropped EXCEPT ![s] = TRUE]
    /\ Command(s, Message("close", 0))
    /\ UNCHANGED <<wires, tasks, events, connection, registered>>

-----------------------------------------------------------------------------
(* The peer task *)

\* Faulty variant: a command is taken for the answer without a look at its type.
RunAnswerUntyped(s) ==
    /\ peer[s] = "running" /\ commands[s] # <<>>
    /\ commands' = [commands EXCEPT ![s] = Tail(@)]
    /\ remote' = [remote EXCEPT ![s] = Head(commands[s]).id]
    /\ UNCHANGED <<wires, tasks, events, dropped, conn, accepted, offered, registered>>

\* set_remote_description may refuse any answer and refuses a second one; a refusal
\* ends the task.
RunAnswer(s) ==
    /\ peer[s] = "running" /\ commands[s] # <<>> /\ Head(commands[s]).type = "sdp_answer"
    /\ commands' = [commands EXCEPT ![s] = Tail(@)]
    /\ \/ /\ remote[s] = 0 /\ conn[s] = "new"
          /\ remote' = [remote EXCEPT ![s] = Head(commands[s]).id]
          /\ UNCHANGED <<events, peer>>
       \/ /\ Emit(s, Message("failed", 0))
          /\ peer' = [peer EXCEPT ![s] = "closing"]
          /\ UNCHANGED remote
    /\ UNCHANGED <<wires, main, reader, dropped, conn, accepted, offered, registered>>

\* add_ice_candidate fails without a remote description; the candidate is lost.
RunCandidate(s) ==
    /\ peer[s] = "running" /\ commands[s] # <<>> /\ Head(commands[s]).type = "ice_candidate"
    /\ commands' = [commands EXCEPT ![s] = Tail(@)]
    /\ accepted' = IF remote[s] = 0 THEN accepted
                   ELSE [accepted EXCEPT ![s] = @ \cup {Head(commands[s]).id}]
    /\ UNCHANGED <<wires, tasks, events, dropped, conn, remote, offered, registered>>

\* The loop ends on Close, or when the relay is closed: its senders belong to the
\* registered stream and to handle_signaling.
LeaveLoop(s) ==
    /\ peer[s] = "running"
    /\ \/ commands[s] # <<>> /\ Head(commands[s]).type = "close"
       \/ ~registered[s] /\ main[s] = "ended"
    /\ peer' = [peer EXCEPT ![s] = "closing"]
    /\ UNCHANGED <<wires, main, reader, channels, dropped, connection, registered>>

\* The cleanup behind the loop.
ClosePeerConnection(s) ==
    /\ peer[s] = "closing"
    /\ conn' = [conn EXCEPT ![s] = "closed"]
    /\ peer' = [peer EXCEPT ![s] = "ended"]
    /\ UNCHANGED <<wires, main, reader, channels, dropped, remote, accepted, offered, registered>>

\* The abort takes effect at whatever await the task is.
PeerAborted(s) ==
    /\ dropped[s] /\ peer[s] \in {"running", "closing"}
    /\ peer' = [peer EXCEPT ![s] = "aborted"]
    /\ UNCHANGED <<wires, main, reader, channels, dropped, connection, registered>>

-----------------------------------------------------------------------------
(* The WebRTC library and the stream *)

\* on_ice_candidate, from the moment WebRtcPeer::new sets the local description.
Gather(s) ==
    /\ conn[s] \in {"new", "connected"} /\ offered[s] < ServerCandidates
    /\ offered' = [offered EXCEPT ![s] = @ + 1]
    /\ Emit(s, Message("ice_candidate", offered[s] + 1))
    /\ UNCHANGED <<wires, tasks, commands, dropped, conn, remote, accepted, registered>>

ConnectionEstablished(s) ==
    /\ conn[s] = "new" /\ remote[s] = s
    /\ conn' = [conn EXCEPT ![s] = "connected"]
    /\ Emit(s, Message("established", 0))
    /\ UNCHANGED <<wires, tasks, commands, dropped, remote, accepted, offered, registered>>

\* ICE or DTLS fails; neither starts before there is a remote description.
ConnectionFailed(s) ==
    /\ conn[s] \in {"new", "connected"} /\ remote[s] # 0
    /\ conn' = [conn EXCEPT ![s] = "failed"]
    /\ Emit(s, Message("failed", 0))
    /\ UNCHANGED <<wires, tasks, commands, dropped, remote, accepted, offered, registered>>

\* DELETE or an idle timer removes the stream, and its puller with it.
StreamRemoved(s) ==
    /\ registered[s] /\ main[s] = "forwarding"
    /\ registered' = [registered EXCEPT ![s] = FALSE]
    /\ UNCHANGED <<wires, tasks, channels, dropped, connection>>

ServerStep(s) ==
    \/ AcceptRequest(s) \/ AbandonRequest(s) \/ AbandonPeer(s) \/ PeerCreated(s)
    \/ ForwardEvent(s) \/ ReadMessage(s) \/ ReaderEnds(s) \/ DropPeer(s)
    \/ RunAnswer(s) \/ RunCandidate(s) \/ LeaveLoop(s) \/ ClosePeerConnection(s) \/ PeerAborted(s)
    \/ Gather(s)
    \/ StreamRemoved(s)

\* The type invariant of the gateway's side.
ServerTypeOK ==
    /\ main \in [Session -> MainStates]
    /\ reader \in [Session -> {"none", "reading", "ended"}]
    /\ peer \in [Session -> {"none", "running", "closing", "ended", "aborted"}]
    /\ dropped \in [Session -> BOOLEAN]
    /\ conn \in [Session -> ConnStates]
    /\ remote \in [Session -> {0} \cup Session]
    /\ accepted \in [Session -> SUBSET (1 .. BrowserCandidates)]
    /\ offered \in [Session -> 0 .. ServerCandidates]
    /\ registered \in [Session -> BOOLEAN]

=============================================================================
