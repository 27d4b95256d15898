----------------------------- MODULE LiveManager -----------------------------
(***************************************************************************)
(* The registry of FFmpeg processes that feed FLV and MPEG-TS viewers over *)
(* WebSocket (live.rs), and the viewers' tasks that call it.               *)
(*                                                                         *)
(* Unlike stream ids, keys come back: when the entry of a key is removed,  *)
(* the next viewer inserts a new one under the same key.  An entry is told *)
(* from its successors by its FFmpeg process, and a process by the client  *)
(* that spawned it; a timer by the client that armed it.                   *)
(*                                                                         *)
(* A critical section under the RwLock is one action, and so is what runs  *)
(* without an await after it.                                              *)
(***************************************************************************)
EXTENDS Integers, FiniteSets

CONSTANTS
    Key,      \* stream_key of an RTSP URL and a mode
    Client,   \* calls of run, and the processes and timers they start
    None

ASSUME ClientIsFinite == IsFiniteSet(Client)
ASSUME NoClient == None \notin Client /\ None \notin Key

VARIABLES
    entry,             \* the process of the entry under each key
    subscriber_count,  \* LiveEntry.subscriber_count
    idle_timer,        \* LiveEntry.idle_timer: the timer whose handle is stored
    ffmpeg,            \* state of the process each client may spawn
    pc,                \* where each client's task is
    key,               \* the key each client asked for
    source,            \* the process whose channel each client receives from
    timer              \* state of the idle timer task each client may arm

streams == <<entry, subscriber_count, idle_timer>>
clients == <<pc, key, source>>
vars == <<streams, ffmpeg, clients, timer>>

ClientStates == {"idle", "spawning", "inserting", "streaming", "leaving",
                 "arming", "storing", "closed"}

ProcessStates == {"none", "running", "exited", "killed"}

TimerStates == {"unset", "sleeping", "fired", "cancelled"}

\* Clients counted in the entry under k.
Viewers(k) == {c \in Client : key[c] = k /\ pc[c] \in {"streaming", "leaving"}}

\* The relay task of a process holds one sender until its pipe ends, and the
\* entry holds another one until it is removed.
ChannelClosed(p) ==
    ffmpeg[p] \in {"exited", "killed"} /\ \A k \in Key : entry[k] # p

Init ==
    /\ entry = [k \in Key |-> None]
    /\ subscriber_count = [k \in Key |-> 0]
    /\ idle_timer = [k \in Key |-> None]
    /\ ffmpeg = [p \in Client |-> "none"]
    /\ pc = [c \in Client |-> "idle"]
    /\ key = [c \in Client |-> None]
    /\ source = [c \in Client |-> None]
    /\ timer = [c \in Client |-> "unset"]

-----------------------------------------------------------------------------
(* subscribe *)

GoTo(c, state) == pc' = [pc EXCEPT ![c] = state]

\* Faulty variant: the process is not killed with its handle.
Detach(p) == UNCHANGED ffmpeg

\* kill_on_drop, unless the process has ended by itself.
Kill(p) == ffmpeg' = [ffmpeg EXCEPT ![p] = IF @ = "running" THEN "killed" ELSE @]

\* What both paths do with an entry they find: take and abort its timer, count
\* the client, clone the cache and subscribe.
Join(c, k) ==
    /\ timer' = [t \in Client |->
           IF t = idle_timer[k] /\ timer[t] = "sleeping" THEN "cancelled" ELSE timer[t]]
    /\ idle_timer' = [idle_timer EXCEPT ![k] = None]
    /\ subscriber_count' = [subscriber_count EXCEPT ![k] = @ + 1]
    /\ source' = [source EXCEPT ![c] = entry[k]]
    /\ GoTo(c, "streaming")
    /\ UNCHANGED entry

\* Fast path: reuse the entry.  Otherwise go and start an FFmpeg, unlocked.
SubscribeFast(c, k) ==
    /\ pc[c] = "idle"
    /\ key' = [key EXCEPT ![c] = k]
    /\ \/ entry[k] # None /\ Join(c, k)
       \/ /\ entry[k] = None
          /\ GoTo(c, "spawning")
          /\ UNCHANGED <<streams, source, timer>>
    /\ UNCHANGED ffmpeg

\* spawn_ffmpeg, after its probe: the process and its relay task run.
FfmpegStarts(c) ==
    /\ pc[c] = "spawning"
    /\ ffmpeg' = [ffmpeg EXCEPT ![c] = "running"]
    /\ GoTo(c, "inserting")
    /\ UNCHANGED <<streams, key, source, timer>>

\* Faulty variant: a client that failed to start is counted out all the same.
SpawnFailsUncounts(c) ==
    /\ pc[c] = "spawning"
    /\ subscriber_count' = [subscriber_count EXCEPT ![key[c]] = @ - 1]
    /\ GoTo(c, "closed")
    /\ UNCHANGED <<entry, idle_timer, ffmpeg, key, source, timer>>

SpawnFails(c) ==
    /\ pc[c] = "spawning"
    /\ GoTo(c, "closed")
    /\ UNCHANGED <<streams, ffmpeg, key, source, timer>>

\* Faulty variant: no second look before the insert, which drops the entry it replaces.
InsertUnchecked(c) ==
    LET k == key[c]
    IN  /\ pc[c] = "inserting"
        /\ IF entry[k] # None THEN Kill(entry[k]) ELSE UNCHANGED ffmpeg
        /\ entry' = [entry EXCEPT ![k] = c]
        /\ subscriber_count' = [subscriber_count EXCEPT ![k] = 1]
        /\ idle_timer' = [idle_timer EXCEPT ![k] = None]
        /\ source' = [source EXCEPT ![c] = c]
        /\ GoTo(c, "streaming")
        /\ UNCHANGED <<key, timer>>

\* Re-check under the lock: lose the race and drop the new process, or insert.
Insert(c) ==
    LET k == key[c]
    IN  /\ pc[c] = "inserting"
        /\ \/ entry[k] # None /\ Join(c, k) /\ Kill(c)
           \/ /\ entry[k] = None
              /\ entry' = [entry EXCEPT ![k] = c]
              /\ subscriber_count' = [subscriber_count EXCEPT ![k] = 1]
              /\ idle_timer' = [idle_timer EXCEPT ![k] = None]
              /\ source' = [source EXCEPT ![c] = c]
              /\ GoTo(c, "streaming")
              /\ UNCHANGED <<ffmpeg, timer>>
        /\ UNCHANGED key

-----------------------------------------------------------------------------
(* run and unsubscribe *)

\* The forwarding loop ends: the browser left, a send failed, or the channel closed.
StopForwarding(c) ==
    /\ pc[c] = "streaming"
    /\ GoTo(c, "leaving")
    /\ UNCHANGED <<streams, ffmpeg, key, source, timer>>

\* Faulty variant: the last viewer is not counted out.
UnsubscribeUncounted(c) ==
    LET k == key[c]
    IN  /\ pc[c] = "leaving"
        /\ GoTo(c, IF entry[k] # None /\ subscriber_count[k] <= 1 THEN "arming" ELSE "closed")
        /\ UNCHANGED <<streams, ffmpeg, key, source, timer>>

\* Faulty variant: the count is read before it is decremented.
UnsubscribeStaleCount(c) ==
    LET k == key[c]
    IN  /\ pc[c] = "leaving"
        /\ \/ entry[k] = None /\ GoTo(c, "closed") /\ UNCHANGED subscriber_count
           \/ /\ entry[k] # None
              /\ subscriber_count' = [subscriber_count EXCEPT ![k] = @ - 1]
              /\ GoTo(c, IF subscriber_count[k] = 0 THEN "arming" ELSE "closed")
        /\ UNCHANGED <<entry, idle_timer, ffmpeg, key, source, timer>>

\* First critical section: count the client out of whatever entry has its key.
Unsubscribe(c) ==
    LET k == key[c]
    IN  /\ pc[c] = "leaving"
        /\ \/ entry[k] = None /\ GoTo(c, "closed") /\ UNCHANGED subscriber_count
           \/ /\ entry[k] # None
              /\ subscriber_count' =
                   [subscriber_count EXCEPT ![k] = IF @ > 0 THEN @ - 1 ELSE 0]
              /\ GoTo(c, IF subscriber_count'[k] = 0 THEN "arming" ELSE "closed")
        /\ UNCHANGED <<entry, idle_timer, ffmpeg, key, source, timer>>

ArmTimer(c) ==
    /\ pc[c] = "arming"
    /\ timer' = [timer EXCEPT ![c] = "sleeping"]
    /\ GoTo(c, "storing")
    /\ UNCHANGED <<streams, ffmpeg, key, source>>

\* Second critical section: store the handle in the entry that has the key now,
\* which need not be the one that was counted down.
StoreTimer(c) ==
    LET k == key[c]
    IN  /\ pc[c] = "storing"
        /\ idle_timer' = IF entry[k] # None THEN [idle_timer EXCEPT ![k] = c] ELSE idle_timer
        /\ GoTo(c, "closed")
        /\ UNCHANGED <<entry, subscriber_count, ffmpeg, key, source, timer>>

\* Faulty variant: a timer whose handle was overwritten leaves the entry to others.
TimerFiresIfStored(c) ==
    LET k == key[c]
    IN  /\ timer[c] = "sleeping"
        /\ timer' = [timer EXCEPT ![c] = "fired"]
        /\ IF entry[k] # None /\ subscriber_count[k] = 0 /\ idle_timer[k] = c
           THEN Kill(entry[k]) /\ entry' = [entry EXCEPT ![k] = None]
           ELSE UNCHANGED <<entry, ffmpeg>>
        /\ UNCHANGED <<subscriber_count, idle_timer, clients>>

\* The timer wakes: drop the entry under its key, if that one has no subscriber.
TimerFires(c) ==
    LET k == key[c]
    IN  /\ timer[c] = "sleeping"
        /\ timer' = [timer EXCEPT ![c] = "fired"]
        /\ IF entry[k] # None /\ subscriber_count[k] = 0
           THEN Kill(entry[k]) /\ entry' = [entry EXCEPT ![k] = None]
           ELSE UNCHANGED <<entry, ffmpeg>>
        /\ UNCHANGED <<subscriber_count, idle_timer, clients>>

\* The camera or the network goes away and FFmpeg ends; the relay task ends with it.
FfmpegExits(p) ==
    /\ ffmpeg[p] = "running"
    /\ ffmpeg' = [ffmpeg EXCEPT ![p] = "exited"]
    /\ UNCHANGED <<streams, clients, timer>>

-----------------------------------------------------------------------------
ClientStep(c) ==
    \/ \E k \in Key : SubscribeFast(c, k)
    \/ FfmpegStarts(c)
    \/ SpawnFails(c)
    \/ Insert(c)
    \/ StopForwarding(c)
    \/ Unsubscribe(c)
    \/ ArmTimer(c)
    \/ StoreTimer(c)
    \/ TimerFires(c)
    \/ FfmpegExits(c)

Next == \E c \in Client : ClientStep(c)

Spec == Init /\ [][Next]_vars

(***************************************************************************)
(* The runtime polls ready tasks and the lock is fair.  A forwarding loop  *)
(* whose channel closed is ready; browsers and cameras owe nothing.        *)
(***************************************************************************)
RuntimeFairness ==
    \A c \in Client :
        /\ WF_vars(Insert(c))
        /\ WF_vars(StopForwarding(c) /\ ChannelClosed(source[c]))
        /\ WF_vars(Unsubscribe(c))
        /\ WF_vars(ArmTimer(c))
        /\ WF_vars(StoreTimer(c))
        /\ WF_vars(TimerFires(c))

FairSpec == Spec /\ RuntimeFairness

-----------------------------------------------------------------------------
(* Properties *)

\* The type invariant of the entries, the processes, the clients and the timers.
TypeOK ==
    /\ entry \in [Key -> Client \cup {None}]
    /\ subscriber_count \in [Key -> Nat]
    /\ idle_timer \in [Key -> Client \cup {None}]
    /\ ffmpeg \in [Client -> ProcessStates]
    /\ pc \in [Client -> ClientStates]
    /\ key \in [Client -> Key \cup {None}]
    /\ source \in [Client -> Client \cup {None}]
    /\ timer \in [Client -> TimerStates]

\* The counter of an entry is the number of its viewers, although it is counted
\* up and down by key while entries under that key come and go.
CountIsViewers ==
    \A k \in Key : entry[k] # None => subscriber_count[k] = Cardinality(Viewers(k))

\* No idle timer, stale or not, takes an entry away from a viewer: whoever still
\* forwards does so from the entry that is registered under its key.
NoViewerCutOff ==
    \A c \in Client : pc[c] \in {"streaming", "leaving"} => source[c] = entry[key[c]]

\* A running FFmpeg belongs to an entry or to a client about to insert it: a lost
\* race and an idle timeout both kill the process.
NoStrayProcess ==
    \A p \in Client : ffmpeg[p] = "running" =>
        pc[p] = "inserting" \/ \E k \in Key : entry[k] = p

\* An entry without viewers has a timer running, or a client about to start one.
IdleEntryHasTimer ==
    \A k \in Key : entry[k] # None /\ subscriber_count[k] = 0 =>
        \E c \in Client : key[c] = k /\ (pc[c] = "arming" \/ timer[c] = "sleeping")

\* An entry nobody watches is removed or watched again, and its FFmpeg with it.
IdleEntryStops ==
    \A k \in Key :
        entry[k] # None /\ subscriber_count[k] = 0
            ~> entry[k] = None \/ subscriber_count[k] > 0

\* live.rs, run: when the channel closes, the "FFmpeg stream ended" and the loop
\* breaks.  The entry keeps a sender, so viewers of a dead FFmpeg are never let go.
DeadStreamLetsGo ==
    \A c \in Client :
        pc[c] = "streaming" /\ ffmpeg[source[c]] = "exited" ~> pc[c] # "streaming"

=============================================================================
