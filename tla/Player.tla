------------------------------- MODULE Player -------------------------------
(***************************************************************************)
(* RtspWebRTCPlayer (web/demo/rtsp-webrtc-player.js).  JavaScript runs one *)
(* handler at a time up to its next await, so an action is what runs       *)
(* between two awaits, and nothing else runs before the messages that are  *)
(* ready to be handled.  The messages of one WebSocket are handled one     *)
(* after the other (_msgQueue); stop and play replace the queue, but a     *)
(* handler of the old queue that waits goes on afterwards, on the fields   *)
(* of `this' as they are then.  addIceCandidate is taken to settle at once.*)
(***************************************************************************)
EXTENDS SignalingWires

VARIABLES
    ws,                       \* this._ws: the session it belongs to, 0 for null
    pc,                       \* this._pc, likewise
    state,                    \* this._state
    remoteDescReady,
    localAnswerSent,
    pendingCandidates,        \* remote candidates, as <<session, number>>
    pendingLocalCandidates,
    queue,                    \* _msgQueue of each session's socket
    handler,                  \* where the running handler of each queue waits
    target,                   \* the RTCPeerConnection it called before it waited
    flushing,                 \* what is left of its loop over pendingCandidates
    rtc,                      \* state of each session's RTCPeerConnection
    offer,                    \* the session whose offer was set on it
    added,                    \* remote candidates added to it
    gathered,                 \* how many local candidates it has gathered
    closing                   \* sockets whose close event is still to fire

fields == <<ws, pc, state, remoteDescReady, localAnswerSent, pendingCandidates,
            pendingLocalCandidates>>
handlers == <<queue, handler, target, flushing>>
rtcs == <<rtc, offer, added, gathered>>
player == <<fields, handlers, rtcs, closing>>

PlayerInit ==
    /\ ws = 0 /\ pc = 0 /\ state = "idle"
    /\ remoteDescReady = FALSE /\ localAnswerSent = FALSE
    /\ pendingCandidates = <<>> /\ pendingLocalCandidates = <<>>
    /\ queue = [s \in Session |-> <<>>]
    /\ handler = [s \in Session |-> "ready"]
    /\ target = [s \in Session |-> 0]
    /\ flushing = [s \in Session |-> <<>>]
    /\ rtc = [s \in Session |-> "none"]
    /\ offer = [s \in Session |-> 0]
    /\ added = [s \in Session |-> {}]
    /\ gathered = [s \in Session |-> 0]
    /\ closing = {}

ResetFlags ==
    /\ remoteDescReady' = FALSE
    /\ localAnswerSent' = FALSE
    /\ pendingCandidates' = <<>>
    /\ pendingLocalCandidates' = <<>>

\* No handler is ready to run: the event loop may turn to another event.
Settled == \A s \in Session : handler[s] = "ready" => queue[s] = <<>>

-----------------------------------------------------------------------------
(* play, stop and the socket's events *)

\* What stop does to the connection at hand: close both of its ends.
CloseConnection ==
    /\ rtc' = IF pc = 0 THEN rtc ELSE [rtc EXCEPT ![pc] = "closed"]
    /\ closing' = IF ws = 0 THEN closing ELSE closing \cup {ws}

\* play stops first, then opens the next session.
Play(s) ==
    /\ Settled
    /\ socket[s] = "unopened" /\ \A r \in 1 .. s - 1 : socket[r] # "unopened"
    /\ CloseConnection
    /\ ResetFlags
    /\ ws' = s /\ pc' = 0 /\ state' = "connecting"
    /\ socket' = [r \in Session |-> IF r = s THEN "connecting"
                                    ELSE IF r = ws THEN "closed" ELSE socket[r]]
    /\ UNCHANGED <<handlers, offer, added, gathered, to_server, to_browser>>

Stop ==
    /\ Settled
    /\ ws # 0
    /\ CloseConnection
    /\ ResetFlags
    /\ ws' = 0 /\ pc' = 0 /\ state' = "idle"
    /\ socket' = [socket EXCEPT ![ws] = "closed"]
    /\ UNCHANGED <<handlers, offer, added, gathered, to_server, to_browser>>

\* onopen asks for the stream.
OnOpen(s) ==
    /\ Settled
    /\ socket[s] = "connecting"
    /\ socket' = [socket EXCEPT ![s] = "open"]
    /\ to_server' = [to_server EXCEPT ![s] = Append(@, Message("request_stream", 0))]
    /\ UNCHANGED <<to_browser, player>>

\* onclose, also of a socket that was replaced since.
OnClose(s) ==
    /\ Settled
    /\ s \in closing
    /\ closing' = closing \ {s}
    /\ state' = IF state = "connected" THEN "disconnected" ELSE state
    /\ UNCHANGED <<wires, ws, pc, remoteDescReady, localAnswerSent, pendingCandidates,
                   pendingLocalCandidates, handlers, rtcs>>

\* onmessage chains the message to the queue.
OnMessage(s) ==
    /\ Settled
    /\ socket[s] = "open" /\ to_browser[s] # <<>>
    /\ queue' = [queue EXCEPT ![s] = Append(@, Head(to_browser[s]))]
    /\ to_browser' = [to_browser EXCEPT ![s] = Tail(@)]
    /\ UNCHANGED <<socket, to_server, fields, handler, target, flushing, rtcs, closing>>

-----------------------------------------------------------------------------
(* _handleMessage *)

\* The next message of a queue, when the handler of the one before is done.
Takes(s, type) ==
    /\ handler[s] = "ready" /\ queue[s] # <<>> /\ Head(queue[s]).type = type
    /\ queue' = [queue EXCEPT ![s] = Tail(@)]

\* 'connected': a new RTCPeerConnection.
HandleConnected(s) ==
    /\ Takes(s, "connected")
    /\ ResetFlags
    /\ pc' = s
    /\ rtc' = [rtc EXCEPT ![s] = "new"]
    /\ UNCHANGED <<wires, ws, state, handler, target, flushing, offer, added, gathered, closing>>

\* 'error' is only reported.
HandleError(s) ==
    /\ Takes(s, "error")
    /\ UNCHANGED <<wires, fields, handler, target, flushing, rtcs, closing>>

\* Faulty variant: a candidate is added whether the offer was set or not.
HandleCandidateAtOnce(s) ==
    LET c == <<s, Head(queue[s]).id>>
    IN  /\ Takes(s, "ice_candidate")
        /\ added' = IF pc # 0 /\ offer[pc] # 0 THEN [added EXCEPT ![pc] = @ \cup {c}] ELSE added
        /\ UNCHANGED <<wires, fields, handler, target, flushing, rtc, offer, gathered, closing>>

\* 'ice_candidate': add it, or keep it until the offer is set.  addIceCandidate
\* refuses a candidate on a connection without a remote description.
HandleCandidate(s) ==
    LET c == <<s, Head(queue[s]).id>>
    IN  /\ Takes(s, "ice_candidate")
        /\ IF remoteDescReady
           THEN /\ added' = IF pc # 0 /\ offer[pc] # 0
                            THEN [added EXCEPT ![pc] = @ \cup {c}] ELSE added
                /\ UNCHANGED pendingCandidates
           ELSE pendingCandidates' = Append(pendingCandidates, c) /\ UNCHANGED added
        /\ UNCHANGED <<wires, ws, pc, state, remoteDescReady, localAnswerSent,
                       pendingLocalCandidates, handler, target, flushing, rtc, offer, gathered,
                       closing>>

\* 'sdp_offer': setRemoteDescription on this._pc; without one the handler throws.
HandleOffer(s) ==
    /\ Takes(s, "sdp_offer")
    /\ handler' = [handler EXCEPT ![s] = IF pc = 0 THEN "ready" ELSE "setting_remote"]
    /\ target' = [target EXCEPT ![s] = pc]
    /\ UNCHANGED <<wires, fields, flushing, rtcs, closing>>

\* It resolves, unless the connection was closed meanwhile, so that it still is
\* this._pc, which setLocalDescription is called on.
RemoteDescriptionSet(s) ==
    /\ Settled
    /\ handler[s] = "setting_remote" /\ rtc[target[s]] # "closed"
    /\ offer' = [offer EXCEPT ![target[s]] = s]
    /\ handler' = [handler EXCEPT ![s] = "setting_local"]
    /\ UNCHANGED <<wires, fields, queue, target, flushing, rtc, added, gathered, closing>>

\* setLocalDescription resolves; the browser may need time for its ICE credentials.
LocalDescriptionSet(s) ==
    /\ Settled
    /\ handler[s] = "setting_local" /\ rtc[target[s]] = "new"
    /\ rtc' = [rtc EXCEPT ![target[s]] = "answering"]
    /\ handler' = [handler EXCEPT ![s] = "waiting_ice"]
    /\ UNCHANGED <<wires, fields, queue, target, flushing, offer, added, gathered, closing>>

\* A wake-up finds this._pc null: the handler throws.
WaitThrows(s) ==
    /\ Settled
    /\ handler[s] = "waiting_ice" /\ pc = 0
    /\ handler' = [handler EXCEPT ![s] = "ready"]
    /\ UNCHANGED <<wires, fields, queue, target, flushing, rtcs, closing>>

\* The SDP that _buildAnswerSdpWithIce returns: the local description of this._pc, or
\* the last one it saw before.
AnswerOf(s) == IF rtc[pc] = "new" THEN target[s] ELSE pc

\* Send the answer and the local candidates that waited for it, then start on the
\* remote candidates that waited for the offer.
SendAnswer(s) ==
    /\ Settled
    /\ handler[s] = "waiting_ice" /\ pc # 0
    /\ localAnswerSent' = TRUE
    /\ to_server' = IF socket[ws] = "open"
                    THEN [to_server EXCEPT ![ws] =
                            Append(@, Message("sdp_answer", AnswerOf(s))) \o pendingLocalCandidates]
                    ELSE to_server
    /\ pendingLocalCandidates' = IF socket[ws] = "open" THEN <<>> ELSE pendingLocalCandidates
    /\ remoteDescReady' = TRUE
    /\ flushing' = [flushing EXCEPT ![s] = pendingCandidates]
    /\ handler' = [handler EXCEPT ![s] = "flushing"]
    /\ UNCHANGED <<socket, to_browser, ws, pc, state, pendingCandidates, queue, target, rtcs, closing>>

\* One round of the loop: addIceCandidate on this._pc, or an error that is caught.
FlushCandidate(s) ==
    /\ Settled
    /\ handler[s] = "flushing" /\ flushing[s] # <<>>
    /\ added' = IF pc # 0 /\ offer[pc] # 0
                THEN [added EXCEPT ![pc] = @ \cup {Head(flushing[s])}] ELSE added
    /\ flushing' = [flushing EXCEPT ![s] = Tail(@)]
    /\ UNCHANGED <<wires, fields, queue, handler, target, rtc, offer, gathered, closing>>

FlushEnds(s) ==
    /\ Settled
    /\ handler[s] = "flushing" /\ flushing[s] = <<>>
    /\ pendingCandidates' = <<>>
    /\ handler' = [handler EXCEPT ![s] = "ready"]
    /\ UNCHANGED <<wires, ws, pc, state, remoteDescReady, localAnswerSent, pendingLocalCandidates,
                   queue, target, flushing, rtcs, closing>>

-----------------------------------------------------------------------------
(* Events of the RTCPeerConnection *)

\* Faulty variant: a candidate is sent as soon as it is there.
OnIceCandidateAtOnce(s) ==
    LET m == Message("ice_candidate", gathered[s] + 1)
    IN  /\ Settled
        /\ rtc[s] \in {"answering", "connected"} /\ gathered[s] < BrowserCandidates
        /\ gathered' = [gathered EXCEPT ![s] = @ + 1]
        /\ to_server' = IF ws # 0 /\ socket[ws] = "open"
                        THEN [to_server EXCEPT ![ws] = Append(@, m)] ELSE to_server
        /\ UNCHANGED <<socket, to_browser, fields, handlers, rtc, offer, added, closing>>

\* onicecandidate: send it, or keep it until the answer is sent.
OnIceCandidate(s) ==
    LET m == Message("ice_candidate", gathered[s] + 1)
    IN  /\ Settled
        /\ rtc[s] \in {"answering", "connected"} /\ gathered[s] < BrowserCandidates
        /\ gathered' = [gathered EXCEPT ![s] = @ + 1]
        /\ IF localAnswerSent /\ ws # 0 /\ socket[ws] = "open"
           THEN /\ to_server' = [to_server EXCEPT ![ws] = Append(@, m)]
                /\ UNCHANGED pendingLocalCandidates
           ELSE /\ pendingLocalCandidates' = Append(pendingLocalCandidates, m)
                /\ UNCHANGED to_server
        /\ UNCHANGED <<socket, to_browser, ws, pc, state, remoteDescReady, localAnswerSent,
                       pendingCandidates, handlers, rtc, offer, added, closing>>

\* onconnectionstatechange.
OnConnectionState(s, s2, st) ==
    /\ Settled
    /\ rtc' = [rtc EXCEPT ![s] = s2]
    /\ state' = st
    /\ UNCHANGED <<wires, ws, pc, remoteDescReady, localAnswerSent, pendingCandidates,
                   pendingLocalCandidates, handlers, offer, added, gathered, closing>>

-----------------------------------------------------------------------------
\* What the user and the page's event loop do.
UserStep == Stop \/ \E s \in Session : Play(s)

HandlerStep(s) ==
    \/ OnOpen(s) \/ OnClose(s) \/ OnMessage(s)
    \/ HandleConnected(s) \/ HandleError(s) \/ HandleCandidate(s) \/ HandleOffer(s)
    \/ RemoteDescriptionSet(s) \/ LocalDescriptionSet(s) \/ WaitThrows(s) \/ SendAnswer(s)
    \/ FlushCandidate(s) \/ FlushEnds(s)
    \/ OnIceCandidate(s)

\* A candidate of the gateway, with the session that brought it.
RemoteCandidate == Session \X (1 .. ServerCandidates)

\* The type invariant of the player.
PlayerTypeOK ==
    /\ ws \in {0} \cup Session /\ pc \in {0} \cup Session
    /\ state \in {"idle", "connecting", "connected", "disconnected", "error"}
    /\ remoteDescReady \in BOOLEAN /\ localAnswerSent \in BOOLEAN
    /\ handler \in [Session -> {"ready", "setting_remote", "setting_local", "waiting_ice",
                                "flushing"}]
    /\ target \in [Session -> {0} \cup Session]
    /\ rtc \in [Session -> {"none", "new", "answering", "connected", "failed", "closed"}]
    /\ offer \in [Session -> {0} \cup Session]
    /\ added \in [Session -> SUBSET RemoteCandidate]
    /\ gathered \in [Session -> 0 .. BrowserCandidates]
    /\ closing \subseteq Session

=============================================================================
