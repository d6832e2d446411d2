---------------------------- MODULE LaneHandoff ----------------------------
(***************************************************************************)
(* The handoff of one bulk tunnel lane, both ends: the agent's supervisor  *)
(* (internal/agent/lane_retirement.go, the bulk part of connectAndServe    *)
(* in agent.go), the server's upgrade handler and session monitor          *)
(* (internal/server/server.go), and the readiness, acknowledgment and      *)
(* commit between them (internal/tunnel/lane_retirement.go) over wires     *)
(* that fail.                                                              *)
(*                                                                         *)
(* An attempt is one upgrade request with the session, the lane owner and  *)
(* the goroutines of both ends; its name is used again once both are done  *)
(* with it.  The lane owners of the server are reduced to their state,     *)
(* LaneOwners has the detail; the control lane and its connection are      *)
(* taken to stay (AgentHub).                                               *)
(***************************************************************************)
EXTENDS Naturals, FiniteSets

CONSTANTS
    Attempts,    \* names of upgrade attempts
    NoAttempt,   \* nil
    MaxStreams,  \* bound on the application streams of a session
    MaxFaults    \* bound on lost wires, lost requests and timeouts

ASSUME AttemptAssumption == IsFiniteSet(Attempts) /\ NoAttempt \notin Attempts
ASSUME HandoffBoundAssumption == MaxStreams \in Nat /\ MaxFaults \in Nat

VARIABLES
    peer,       \* the agent's progress in each attempt
    host,       \* the server's progress
    held,       \* the server's lane owner
    link,       \* the wire between the two sessions
    mail,       \* messages of the readiness stream on the wire
    replaces,   \* LaneReplacesHeader
    streams,    \* application streams: SYN on the wire, known to the agent
    supervisor, \* serveRetiringTunnelLane and runTunnelLaneLoop
    faults      \* bound counter of MaxFaults

handoffVars == <<peer, host, held, link, mail, replaces, streams, supervisor, faults>>

OptAttempt == Attempts \cup {NoAttempt}
NoStreams  == [flying |-> 0, open |-> 0]
Backoff    == [at |-> "backoff", current |-> NoAttempt, next |-> NoAttempt, old |-> NoAttempt]

SupervisorStates == [at : {"backoff", "first", "serving", "replacing", "draining"},
                     current : OptAttempt, next : OptAttempt, old : OptAttempt]

HandoffTypeOK ==
    /\ peer \in [Attempts -> {"idle", "dialing", "waiting", "acked", "ready", "ended"}]
    /\ host \in [Attempts -> {"idle", "prepared", "published", "fenced", "watched", "ended"}]
    /\ held \in [Attempts -> {"none", "replacement", "serving", "draining"}]
    /\ link \in [Attempts -> {"none", "up", "cut"}]
    /\ mail \in [Attempts -> {"none", "ready", "ack", "commit"}]
    /\ replaces \in [Attempts -> OptAttempt]
    /\ streams \in [Attempts -> [flying : 0..MaxStreams, open : 0..MaxStreams]]
    /\ supervisor \in SupervisorStates
    /\ faults \in 0..MaxFaults

HandoffInit ==
    /\ peer = [a \in Attempts |-> "idle"]
    /\ host = [a \in Attempts |-> "idle"]
    /\ held = [a \in Attempts |-> "none"]
    /\ link = [a \in Attempts |-> "none"]
    /\ mail = [a \in Attempts |-> "none"]
    /\ replaces = [a \in Attempts |-> NoAttempt]
    /\ streams = [a \in Attempts |-> NoStreams]
    /\ supervisor = Backoff
    /\ faults = 0

-----------------------------------------------------------------------------

Fault == faults < MaxFaults /\ faults' = faults + 1

(* The wire of attempt a is gone, with what was on it and on its streams.  *)
Sever(a) ==
    /\ link' = [link EXCEPT ![a] = IF @ = "up" THEN "cut" ELSE @]
    /\ mail' = [mail EXCEPT ![a] = "none"]
    /\ streams' = [streams EXCEPT ![a] = NoStreams]

Linked == {a \in Attempts : held[a] # "none"}
ServingOwner == {a \in Attempts : held[a] = "serving"}

(* LaneOwners.Predecessor *)
HandoffPredecessor(p) ==
    \/ ServingOwner = {p}
    \/ ServingOwner = {} /\ p \in Linked /\ held[p] = "draining"

(* Predecessor and Acquire admit the request.                              *)
Admits(a) ==
    IF replaces[a] = NoAttempt THEN Linked = {}
    ELSE HandoffPredecessor(replaces[a]) /\ Cardinality(Linked) < 2

(* The agent's auth lock: a handler keeps it up to its opening barrier or, *)
(* without a predecessor, to its commit.                                   *)
AuthFree ==
    \A a \in Attempts : /\ host[a] # "prepared"
                        /\ host[a] = "published" => replaces[a] # NoAttempt

-----------------------------------------------------------------------------
(* The agent's supervisor. *)

(* Both ends are done with the attempt and nobody refers to it. *)
Unused(a) ==
    /\ peer[a] \in {"idle", "ended"}
    /\ host[a] \in {"idle", "ended"}
    /\ a \notin {supervisor.current, supervisor.next, supervisor.old}
    /\ \A b \in Attempts : replaces[b] = a => peer[b] \in {"idle", "ended"}
                                           /\ host[b] \in {"idle", "ended", "watched"}

(* start: the attempt sends its upgrade request. *)
Start(a, p) ==
    /\ Unused(a)
    /\ peer' = [peer EXCEPT ![a] = "dialing"]
    /\ host' = [host EXCEPT ![a] = "idle"]
    /\ link' = [link EXCEPT ![a] = "none"]
    /\ replaces' = [b \in Attempts |-> IF b = a THEN p ELSE IF replaces[b] = a THEN NoAttempt
                                       ELSE replaces[b]]

(* runTunnelLaneLoop after its wait, and the supervisor's first attempt. *)
Redial(a) ==
    /\ supervisor.at = "backoff"
    /\ Start(a, NoAttempt)
    /\ supervisor' = [Backoff EXCEPT !.at = "first", !.current = a]
    /\ UNCHANGED <<held, mail, streams, faults>>

(* The retirement timer: ask for a replacement. *)
Timer(a) ==
    /\ supervisor.at = "serving"
    /\ Start(a, supervisor.current)
    /\ supervisor' = [supervisor EXCEPT !.at = "replacing", !.next = a]
    /\ UNCHANGED <<held, mail, streams, faults>>

(* The supervisor sees that an attempt is ready or that one which it       *)
(* replaces or drains has ended.  While it waits for a replacement it does *)
(* not look at the serving attempt; while it drains the old one it goes on *)
(* when the serving one ends.                                              *)
Supervise ==
    LET s == supervisor
    IN  /\ \/ /\ s.at = "first" /\ peer[s.current] = "ready"
              /\ supervisor' = [s EXCEPT !.at = "serving"]
           \/ /\ s.at = "replacing" /\ peer[s.next] = "ended"
              /\ supervisor' = [s EXCEPT !.at = "serving", !.next = NoAttempt]
           \/ /\ s.at = "replacing" /\ peer[s.next] = "ready"
              /\ supervisor' = [at |-> "draining", current |-> s.next, next |-> NoAttempt,
                                old |-> s.current]
           \/ /\ s.at = "draining" /\ peer[s.old] = "ended"
              /\ supervisor' = IF peer[s.current] = "ended" THEN Backoff
                               ELSE [s EXCEPT !.at = "serving", !.old = NoAttempt]
        /\ UNCHANGED <<peer, host, held, link, mail, replaces, streams, faults>>

(* The serving attempt has ended: the supervisor returns. *)
Return ==
    /\ supervisor.at \in {"first", "serving"}
    /\ peer[supervisor.current] = "ended"
    /\ supervisor' = Backoff
    /\ UNCHANGED <<peer, host, held, link, mail, replaces, streams, faults>>

(* The drain ticker: cancel the old attempt once its session has no        *)
(* streams (ReceiveOwnersDrained), as the agent sees it.                   *)
CancelOld ==
    LET a == supervisor.old
    IN  /\ supervisor.at = "draining"
        /\ peer[a] = "ready"
        /\ streams[a].open = 0
        /\ peer' = [peer EXCEPT ![a] = "ended"]
        /\ Sever(a)
        /\ UNCHANGED <<host, held, replaces, supervisor, faults>>

-----------------------------------------------------------------------------
(* The agent's attempts: connectAndServe and AcceptLaneRetirement. *)

(* The server's readiness message arrives and is acknowledged. *)
Acknowledge(a) ==
    /\ peer[a] = "waiting"
    /\ mail[a] = "ready"
    /\ mail' = [mail EXCEPT ![a] = "ack"]
    /\ peer' = [peer EXCEPT ![a] = "acked"]
    /\ UNCHANGED <<host, held, link, replaces, streams, supervisor, faults>>

(* Variant: the acknowledgment is taken for the end of the handshake. *)
AcknowledgedOnly(a) == link[a] = "up"

(* The commit byte has arrived. *)
CommitArrived(a) == mail[a] = "commit"

(* LaneOwner.Publish on the agent and registration.ready. *)
Ready(a) ==
    /\ peer[a] = "acked"
    /\ CommitArrived(a)
    /\ mail' = [mail EXCEPT ![a] = "none"]
    /\ peer' = [peer EXCEPT ![a] = "ready"]
    /\ UNCHANGED <<host, held, link, replaces, streams, supervisor, faults>>

(* The session is found closed, or the handshake times out. *)
PeerEnds(a) ==
    /\ peer[a] \in {"waiting", "acked", "ready"}
    /\ IF link[a] = "cut" THEN UNCHANGED faults ELSE peer[a] # "ready" /\ Fault
    /\ peer' = [peer EXCEPT ![a] = "ended"]
    /\ Sever(a)
    /\ UNCHANGED <<host, held, replaces, supervisor>>

-----------------------------------------------------------------------------
(* The server: agentTunnelHandler and the goroutine it leaves. *)

(* The handler acquires the lane, answers 101, attaches the session and    *)
(* writes the readiness message (PrepareLaneRetirement).                   *)
Prepare(a) ==
    /\ peer[a] = "dialing"
    /\ AuthFree
    /\ Admits(a)
    /\ peer' = [peer EXCEPT ![a] = "waiting"]
    /\ host' = [host EXCEPT ![a] = "prepared"]
    /\ held' = [held EXCEPT ![a] = "replacement"]
    /\ link' = [link EXCEPT ![a] = "up"]
    /\ mail' = [mail EXCEPT ![a] = "ready"]
    /\ UNCHANGED <<replaces, streams, supervisor, faults>>

(* The request is refused: the lane is held, the predecessor is not        *)
(* current, not idle or not grown, or an update drains the agent.  Or the  *)
(* request is lost.                                                        *)
Deny(a) ==
    /\ peer[a] = "dialing"
    /\ IF AuthFree /\ (~Admits(a) \/ replaces[a] # NoAttempt) THEN UNCHANGED faults ELSE Fault
    /\ peer' = [peer EXCEPT ![a] = "ended"]
    /\ UNCHANGED <<host, held, link, mail, replaces, streams, supervisor>>

(* installOwnedTunnel: the routing switch.  A serving predecessor must be  *)
(* idle.                                                                   *)
PublishLane(a) ==
    /\ host[a] = "prepared"
    /\ mail[a] = "ack"
    /\ \A p \in ServingOwner : p = replaces[a] /\ streams[p] = NoStreams
    /\ held' = [b \in Attempts |-> IF b = a THEN "serving"
                                   ELSE IF held[b] = "serving" THEN "draining" ELSE held[b]]
    /\ mail' = [mail EXCEPT ![a] = "none"]
    /\ host' = [host EXCEPT ![a] = "published"]
    /\ UNCHANGED <<peer, link, replaces, streams, supervisor, faults>>

(* AcknowledgeOpeningFence: the ping on the old wire is answered, or the   *)
(* predecessor's session is closed.                                        *)
Fence(a) ==
    LET p == replaces[a]
    IN  /\ host[a] = "published"
        /\ p # NoAttempt
        /\ link[p] = "up" => streams[p].flying = 0
        /\ host' = [host EXCEPT ![a] = "fenced"]
        /\ UNCHANGED <<peer, held, link, mail, replaces, streams, supervisor, faults>>

(* CommitLaneRetirement; the handler returns and leaves the monitor. *)
WriteCommit(a) ==
    /\ host[a] = "fenced" \/ (host[a] = "published" /\ replaces[a] = NoAttempt)
    /\ mail' = [mail EXCEPT ![a] = IF link[a] = "up" THEN "commit" ELSE "none"]
    /\ host' = [host EXCEPT ![a] = "watched"]
    /\ UNCHANGED <<peer, held, link, replaces, streams, supervisor, faults>>

(* Variant: the failed handler forgets its owner. *)
KeepOwner(a) == held

(* The deferred LaneOwner.Close. *)
CloseOwner(a) == [held EXCEPT ![a] = "none"]

(* The handler fails: the wire is gone, the predecessor is busy again, or  *)
(* the acknowledgment, the fence or the commit times out.                  *)
HostFails(a) ==
    /\ host[a] \in {"prepared", "published", "fenced"}
    /\ IF link[a] = "cut" \/ (host[a] = "prepared" /\ replaces[a] # NoAttempt)
       THEN UNCHANGED faults ELSE Fault
    /\ host' = [host EXCEPT ![a] = "ended"]
    /\ held' = CloseOwner(a)
    /\ Sever(a)
    /\ UNCHANGED <<peer, replaces, supervisor>>

(* The monitor: the session is closed, or its draining owner quiescent. *)
Watch(a) ==
    /\ host[a] = "watched"
    /\ link[a] = "cut" \/ (held[a] = "draining" /\ streams[a] = NoStreams)
    /\ host' = [host EXCEPT ![a] = "ended"]
    /\ held' = [held EXCEPT ![a] = "none"]
    /\ Sever(a)
    /\ UNCHANGED <<peer, replaces, supervisor, faults>>

-----------------------------------------------------------------------------
(* Traffic and faults. *)

(* A public request opens a stream on the serving session. *)
OpenStream(a) ==
    /\ held[a] = "serving"
    /\ link[a] = "up"
    /\ streams[a].flying + streams[a].open < MaxStreams
    /\ streams' = [streams EXCEPT ![a].flying = @ + 1]
    /\ UNCHANGED <<peer, host, held, link, mail, replaces, supervisor, faults>>

StreamArrives(a) ==
    /\ streams[a].flying > 0
    /\ streams' = [streams EXCEPT ![a] = [flying |-> @.flying - 1, open |-> @.open + 1]]
    /\ UNCHANGED <<peer, host, held, link, mail, replaces, supervisor, faults>>

StreamEnds(a) ==
    /\ streams[a].open > 0
    /\ streams' = [streams EXCEPT ![a].open = @ - 1]
    /\ UNCHANGED <<peer, host, held, link, mail, replaces, supervisor, faults>>

LoseWire(a) ==
    /\ link[a] = "up"
    /\ Fault
    /\ Sever(a)
    /\ UNCHANGED <<peer, host, held, replaces, supervisor>>

-----------------------------------------------------------------------------

PeerStep(a) == Acknowledge(a) \/ Ready(a) \/ PeerEnds(a)
HostStep(a) == PublishLane(a) \/ Fence(a) \/ WriteCommit(a) \/ HostFails(a) \/ Watch(a)

HandoffNext ==
    \/ \E a \in Attempts : Redial(a) \/ Timer(a)
    \/ Supervise
    \/ Return
    \/ CancelOld
    \/ \E a \in Attempts : PeerStep(a)
    \/ \E a \in Attempts : Prepare(a)
    \/ \E a \in Attempts : Deny(a)
    \/ \E a \in Attempts : HostStep(a)
    \/ \E a \in Attempts : OpenStream(a) \/ StreamArrives(a) \/ StreamEnds(a) \/ LoseWire(a)

HandoffSpec == HandoffInit /\ [][HandoffNext]_handoffVars

(* Both programs run on, requests are answered, streams end, and timeouts  *)
(* come only with the bounded faults.  A supervisor that finds both its    *)
(* timer and the end of its attempt picks the timer only so often.         *)
(* Nothing obliges a lane to be retired or a request to open a stream.     *)
HandoffFairness ==
    /\ WF_handoffVars(\E a \in Attempts : Redial(a))
    /\ WF_handoffVars(Supervise)
    /\ SF_handoffVars(Return)
    /\ WF_handoffVars(CancelOld)
    /\ \A a \in Attempts : /\ WF_handoffVars(PeerStep(a))
                           /\ WF_handoffVars(HostStep(a))
                           /\ WF_handoffVars(Prepare(a) \/ Deny(a))
                           /\ WF_handoffVars(StreamArrives(a) \/ StreamEnds(a))

-----------------------------------------------------------------------------
(* A session that the agent serves and that carries application streams    *)
(* ends only with its wire: a handoff neither closes the predecessor while *)
(* the server may still route to it nor cancels a stream whose opening is  *)
(* on its way ("Until this byte arrives the agent cannot GoAway/cancel its *)
(* old lane", CommitLaneRetirement).                                       *)
HandoffTruncatesNothing ==
    [][\A a \in Attempts :
          peer[a] = "ready" /\ link[a] = "up" /\ link'[a] = "cut" /\ streams[a] # NoStreams
              => faults' # faults]_handoffVars

(* The attempt that both ends take for the lane. *)
Agreed(a) == /\ supervisor.current = a
             /\ peer[a] = "ready"
             /\ held[a] = "serving"
             /\ link[a] = "up"

(* Once the faults stop the two ends come to serve the lane over one       *)
(* session again, whichever message of a handoff was lost and whatever     *)
(* either end kept of it.                                                  *)
LaneIsAgreed == HandoffFairness => []<>(\E a \in Attempts : Agreed(a))
=============================================================================
