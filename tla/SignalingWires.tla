--------------------------- MODULE SignalingWires ---------------------------
(***************************************************************************)
(* What the player and the gateway share: the WebSocket of each session,   *)
(* with the messages under way in both directions.  A player opens its     *)
(* sessions one after the other; they are numbered in that order.          *)
(***************************************************************************)
EXTENDS Integers, Sequences, SequencesExt

CONSTANTS
    Sessions,           \* bound: how often the player connects
    ServerCandidates,   \* ICE candidates the gateway gathers in a session
    BrowserCandidates   \* ICE candidates the browser gathers in a session

ASSUME WireBounds == {Sessions, ServerCandidates, BrowserCandidates} \subseteq Nat \ {0}

VARIABLES
    socket,      \* state of each session's WebSocket
    to_server,   \* messages from the browser that the gateway has not read
    to_browser   \* messages from the gateway that the browser has not received

wires == <<socket, to_server, to_browser>>

Session == 1 .. Sessions

\* An SDP is told by the session whose RTCPeerConnection it describes, a candidate
\* by its number.
Message(type, id) == [type |-> type, id |-> id]

SocketStates == {"unopened", "connecting", "open", "closed"}

WiresInit ==
    /\ socket = [s \in Session |-> "unopened"]
    /\ to_server = [s \in Session |-> <<>>]
    /\ to_browser = [s \in Session |-> <<>>]

\* Candidates among the messages of a queue.
CandidatesIn(q) == {q[i].id : i \in {j \in DOMAIN q : q[j].type = "ice_candidate"}}

=============================================================================
