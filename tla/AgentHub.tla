------------------------------ MODULE AgentHub ------------------------------
(***************************************************************************)
(* The connection lifecycle of one registered agent on the server: the     *)
(* tunnel upgrade handler (internal/server/server.go), the hub that names  *)
(* the agent's current connection (agent_hub.go), the lanes of a           *)
(* connection (agent_tunnels.go) and the registry operations that revoke   *)
(* it (agent_registry.go).  The auth lock, the hub entry and the database  *)
(* rows are all per agent, so one agent is the whole story.                *)
(*                                                                         *)
(* An upgrade request either creates a connection (an AgentConn, named     *)
(* here by that request) or adds a lane to the current one.  Its Yamux     *)
(* session, its lane owner and the goroutine that watches the session are  *)
(* named by the request too.  Owners are only opened and closed here; the  *)
(* module LaneOwners has their detail.                                     *)
(***************************************************************************)
EXTENDS Naturals, FiniteSets

CONSTANTS
    Requests,      \* upgrade requests, each handled once
    Groups,        \* TunnelGroup values the agent process announces
    Aggregate,     \* the groups that negotiate aggregate flow control
    Lanes,         \* lane numbers, 0 is the control lane
    None,          \* nil: no connection, no session, no lock holder
    Admin,         \* holder of the auth lock in RotateAgentToken
    MaxRotations,  \* bound on token rotations
    MaxRevokes,    \* bound on revocations by update reports
    MaxRestarts    \* bound on server restarts

ASSUME NoneAssumption  == None \notin Requests /\ Admin \notin Requests /\ None # Admin
ASSUME LaneAssumption  == Lanes \subseteq Nat /\ 0 \in Lanes
ASSUME GroupAssumption == Aggregate \subseteq Groups /\ None \notin Groups
ASSUME BoundAssumption == /\ MaxRotations \in Nat
                          /\ MaxRevokes \in Nat
                          /\ MaxRestarts \in Nat

VARIABLES
    row,         \* agents row: "enabled", "disabled" or "deleted"
    token,       \* generation of the stored token hash
    authLock,    \* holder of lockAgentAuth(agentID)
    hub,         \* agentHub.byID and byPublicID of the agent
    pc,          \* progress of each handler, then of its monitor goroutine
    req,         \* what each request carries
    conn,        \* the AgentConn a request created or joined
    displaced,   \* the connection AgentHub.replace returned to the handler
    alive,       \* whether the request's Yamux session is open
    owner,       \* state of the request's lane owner
    tunnels,     \* AgentConn.tunnels
    done,        \* AgentConn.Done closed (and its tunnelOwners closed)
    registered,  \* stream capacity session of the connection
    dbRow,       \* the connections row of the connection, see RowStates
    lastSeen,    \* the later of last_connected_at and last_disconnected_at
    revokes,     \* bound counter of RevokeForUpdate
    restarts,    \* bound counter of Restart
    unwatched    \* history: a handoff of the connection failed unlocked

registryVars == <<row, token>>
entryVars      == <<authLock, hub>>
handlerVars  == <<pc, req, conn, displaced>>
laneVars     == <<alive, owner, tunnels>>
connVars     == <<done, registered, dbRow, lastSeen>>
boundVars    == <<revokes, restarts>>
hubVars == <<registryVars, entryVars, handlerVars, laneVars, connVars, boundVars, unwatched>>

-----------------------------------------------------------------------------

Pcs == {"idle", "authenticated", "owned", "attached", "commit", "register",
        "replace", "retire", "monitor", "cleanup", "done"}
OwnerStates == {"none", "replacement", "serving", "draining", "closed"}
OptRequest  == Requests \cup {None}

(* A connections row is not there, was inserted without or with            *)
(* MarkAgentConnected after it, was closed, or is still open in the        *)
(* database because the write that should close it failed.                 *)
RowStates == {"none", "unmarked", "open", "closed", "stale"}
RowOpen(c) == dbRow[c] \in {"unmarked", "open"}

NoLanes     == [l \in Lanes |-> None]
NoRequest   == [token |-> 0, group |-> None, lane |-> 0, replaces |-> None]

(* aggregateNegotiated, and ParseLaneRetirement's offer: a bulk lane of an *)
(* aggregate group is replaced by handoff, the control lane is not.        *)
Aggregated(r) == req[r].group \in Aggregate
Retirement(r) == Aggregated(r) /\ req[r].lane # 0

Live(o) == o \in {"replacement", "serving", "draining"}

(* LaneOwners.Snapshot of connection c, and its slot for one lane. *)
Owned(c) == {r \in Requests : conn[r] = c /\ Live(owner[r])}
Slot(c, l) == {r \in Owned(c) : req[r].lane = l}
Serving(c, l) == {r \in Slot(c, l) : owner[r] = "serving"}

(* LaneOwners.Predecessor: the serving owner of that ID, or a draining one *)
(* when its replacement was lost.                                          *)
Predecessor(c, l, p) ==
    \/ Serving(c, l) = {p}
    \/ Serving(c, l) = {} /\ p \in Slot(c, l) /\ owner[p] = "draining"

(* Variant: the second authentication does not compare the token. *)
AuthenticatesByRow(r) == row = "enabled"

(* authenticateAgent on the row the request found. *)
Authenticates(r) == row = "enabled" /\ req[r].token = token

(* agentHub.connectedByID under the auth lock: a request of the current    *)
(* connection's group joins it, any other creates a connection.            *)
Joined(r) == IF hub # None /\ req[hub].group = req[r].group THEN hub ELSE r

HubTypeOK ==
    /\ row \in {"enabled", "disabled", "deleted"}
    /\ token \in 0..MaxRotations
    /\ authLock \in OptRequest \cup {Admin}
    /\ hub \in OptRequest
    /\ pc \in [Requests -> Pcs]
    /\ req \in [Requests -> [token : 0..MaxRotations, group : Groups \cup {None},
                             lane : Lanes, replaces : OptRequest]]
    /\ conn \in [Requests -> OptRequest]
    /\ displaced \in [Requests -> OptRequest]
    /\ alive \in [Requests -> BOOLEAN]
    /\ owner \in [Requests -> OwnerStates]
    /\ tunnels \in [Requests -> [Lanes -> OptRequest]]
    /\ done \in [Requests -> BOOLEAN]
    /\ registered \in [Requests -> BOOLEAN]
    /\ dbRow \in [Requests -> RowStates]
    /\ lastSeen \in {"never", "connected", "disconnected"}
    /\ revokes \in 0..MaxRevokes
    /\ restarts \in 0..MaxRestarts
    /\ unwatched \in [Requests -> BOOLEAN]

HubInit ==
    /\ row = "enabled"
    /\ token = 0
    /\ authLock = None
    /\ hub = None
    /\ pc = [r \in Requests |-> "idle"]
    /\ req = [r \in Requests |-> NoRequest]
    /\ conn = [r \in Requests |-> None]
    /\ displaced = [r \in Requests |-> None]
    /\ alive = [r \in Requests |-> FALSE]
    /\ owner = [r \in Requests |-> "none"]
    /\ tunnels = [r \in Requests |-> NoLanes]
    /\ done = [r \in Requests |-> FALSE]
    /\ registered = [r \in Requests |-> FALSE]
    /\ dbRow = [r \in Requests |-> "none"]
    /\ lastSeen = "never"
    /\ revokes = 0
    /\ restarts = 0
    /\ unwatched = [r \in Requests |-> FALSE]

-----------------------------------------------------------------------------
(* The tunnel handler, agentTunnelHandler. *)

(* A request that passes the first authentication, outside the auth lock.  *)
(* A replacement names the owner the agent knows for the lane.             *)
Arrive(r, g, l, p) ==
    /\ pc[r] = "idle"
    /\ row = "enabled"
    /\ p # None => g \in Aggregate /\ l # 0 /\ owner[p] # "none" /\ req[p].lane = l
    /\ req' = [req EXCEPT ![r] = [token |-> token, group |-> g, lane |-> l, replaces |-> p]]
    /\ pc' = [pc EXCEPT ![r] = "authenticated"]
    /\ UNCHANGED <<registryVars, entryVars, conn, displaced, laneVars, connVars,
                   boundVars, unwatched>>

(* Any early return before a lane is owned: the second authentication      *)
(* fails, the group's capabilities differ, a secondary lane comes before   *)
(* its primary, the predecessor is gone or not idle, an update drains.     *)
Refuse(r) ==
    /\ pc[r] = "authenticated"
    /\ authLock = None
    /\ pc' = [pc EXCEPT ![r] = "done"]
    /\ UNCHANGED <<registryVars, entryVars, req, conn, displaced, laneVars, connVars,
                   boundVars, unwatched>>

(* LaneOwners.Acquire, once the owners in gone are closed. *)
Acquires(r, c, gone) ==
    LET slot == Slot(c, req[r].lane) \ gone
    IN  /\ ~done[c]
        /\ Cardinality(slot) < 2
        /\ IF slot = {} THEN req[r].replaces = None
                        ELSE \E p \in slot : /\ req[r].replaces = p
                                             /\ Predecessor(c, req[r].lane, p)

(* Under the auth lock: authenticate again, create or join the connection, *)
(* and acquire the lane.  A lane without handoff closes its live session   *)
(* first, whether or not the acquisition then succeeds.                    *)
Enter(r, ok) ==
    LET c    == Joined(r)
        l    == req[r].lane
        old  == tunnels[c][l]
        gone == IF Aggregated(r) /\ ~Retirement(r) /\ old # None /\ alive[old]
                THEN {old} ELSE {}
    IN  /\ pc[r] = "authenticated"
        /\ authLock = None
        /\ Authenticates(r)
        /\ c = r => l = 0
        /\ req[r].replaces # None => Predecessor(c, l, req[r].replaces)
        /\ ok => (Aggregated(r) => Acquires(r, c, gone))
        /\ ok \/ Aggregated(r)
        /\ conn' = [conn EXCEPT ![r] = IF ok THEN c ELSE None]
        /\ owner' = [o \in Requests |->
                        IF o \in gone THEN "closed"
                        ELSE IF o = r /\ ok /\ Aggregated(r) THEN "replacement"
                        ELSE owner[o]]
        /\ alive' = [o \in Requests |-> alive[o] /\ o \notin gone]
        /\ pc' = [pc EXCEPT ![r] = IF ok THEN "owned" ELSE "done"]
        /\ authLock' = IF ok THEN r ELSE None
        /\ UNCHANGED <<registryVars, hub, req, displaced, tunnels, connVars,
                       boundVars, unwatched>>

(* Hijack, Yamux session, GoAway, LaneOwner.Attach, registration of the    *)
(* stream capacity session and, for a handoff, the readiness exchange.     *)
Attach(r) ==
    /\ pc[r] = "owned"
    /\ Aggregated(r) => ~done[conn[r]] /\ owner[r] = "replacement"
    /\ alive' = [alive EXCEPT ![r] = TRUE]
    /\ registered' = [registered EXCEPT ![conn[r]] = @ \/ conn[r] = r]
    /\ pc' = [pc EXCEPT ![r] = "attached"]
    /\ UNCHANGED <<registryVars, entryVars, req, conn, displaced, owner, tunnels,
                   done, dbRow, lastSeen, boundVars, unwatched>>

(* A failure before the lane is published; the deferred calls unregister   *)
(* the session, close the owner and release the auth lock, in that order.  *)
Abort(r) ==
    /\ pc[r] \in {"owned", "attached"}
    /\ owner' = [owner EXCEPT ![r] = IF Aggregated(r) THEN "closed" ELSE @]
    /\ alive' = [alive EXCEPT ![r] = FALSE]
    /\ registered' = [registered EXCEPT ![r] = FALSE]
    /\ authLock' = None
    /\ pc' = [pc EXCEPT ![r] = "done"]
    /\ UNCHANGED <<registryVars, hub, req, conn, displaced, tunnels, done, dbRow,
                   lastSeen, boundVars, unwatched>>

(* installOwnedTunnel or installTunnel.  A handoff with a predecessor      *)
(* releases the auth lock for its barrier; a joined lane without handoff   *)
(* is complete.                                                            *)
Install(r) ==
    LET c   == conn[r]
        l   == req[r].lane
        old == tunnels[c][l]
    IN  /\ pc[r] = "attached"
        /\ Aggregated(r) => ~done[c] /\ owner[r] = "replacement"
        /\ owner' = [o \in Requests |->
                        IF ~Aggregated(r) THEN owner[o]
                        ELSE IF o = r THEN "serving"
                        ELSE IF o \in Serving(c, l) THEN "draining" ELSE owner[o]]
        /\ alive' = [o \in Requests |-> alive[o] /\ (Aggregated(r) \/ o # old)]
        /\ tunnels' = [tunnels EXCEPT ![c][l] = r]
        /\ pc' = [pc EXCEPT ![r] = IF Retirement(r) THEN "commit"
                                   ELSE IF c = r THEN "register" ELSE "monitor"]
        /\ authLock' = IF pc'[r] = "monitor" \/ req[r].replaces # None THEN None ELSE r
        /\ UNCHANGED <<registryVars, hub, req, conn, displaced, connVars,
                       boundVars, unwatched>>

(* The opening fence is acknowledged and the commit written. *)
Commit(r) ==
    /\ pc[r] = "commit"
    /\ alive[r]
    /\ pc' = [pc EXCEPT ![r] = "monitor"]
    /\ authLock' = IF authLock = r THEN None ELSE authLock
    /\ UNCHANGED <<registryVars, hub, req, conn, displaced, laneVars, connVars,
                   boundVars, unwatched>>

(* The fence or the commit fails: the session is closed and taken out of   *)
(* the lane, the owner closed.  No monitor is started.                     *)
CommitFails(r) ==
    LET c == conn[r]
        l == req[r].lane
    IN  /\ pc[r] = "commit"
        /\ alive' = [alive EXCEPT ![r] = FALSE]
        /\ owner' = [owner EXCEPT ![r] = "closed"]
        /\ tunnels' = [tunnels EXCEPT ![c][l] = IF @ = r THEN None ELSE @]
        /\ unwatched' = [unwatched EXCEPT ![c] = @ \/ authLock # r]
        /\ authLock' = IF authLock = r THEN None ELSE authLock
        /\ pc' = [pc EXCEPT ![r] = "done"]
        /\ UNCHANGED <<registryVars, hub, req, conn, displaced, connVars, boundVars>>

(* InsertConnection, then MarkAgentConnected; an error of either is logged *)
(* and the connection goes on.                                             *)
InsertRow(r, written) ==
    /\ pc[r] = "register"
    /\ dbRow' = [dbRow EXCEPT ![r] = written]
    /\ lastSeen' = IF written = "open" THEN "connected" ELSE lastSeen
    /\ pc' = [pc EXCEPT ![r] = "replace"]
    /\ UNCHANGED <<registryVars, entryVars, req, conn, displaced, laneVars, done,
                   registered, boundVars, unwatched>>

(* AgentHub.replace *)
Replace(r) ==
    /\ pc[r] = "replace"
    /\ displaced' = [displaced EXCEPT ![r] = hub]
    /\ hub' = r
    /\ pc' = [pc EXCEPT ![r] = "retire"]
    /\ UNCHANGED <<registryVars, authLock, req, conn, laneVars, connVars,
                   boundVars, unwatched>>

(* AgentConn.signalDone of connection c, which closes its owners, and the  *)
(* closing of the further sessions in S.                                   *)
SignalDone(c, S) ==
    /\ done' = [done EXCEPT ![c] = TRUE]
    /\ owner' = [r \in Requests |-> IF r \in Owned(c) THEN "closed" ELSE owner[r]]
    /\ alive' = [r \in Requests |-> alive[r] /\ r \notin Owned(c) \cup S]

(* retireDisplacedAgentConnection, then the handler returns. *)
Retire(r) ==
    LET c == displaced[r]
    IN  /\ pc[r] = "retire"
        /\ IF c = None
           THEN UNCHANGED <<registered, done, owner, alive>>
           ELSE /\ registered' = [registered EXCEPT ![c] = FALSE]
                /\ SignalDone(c, {c})
        /\ pc' = [pc EXCEPT ![r] = "monitor"]
        /\ authLock' = None
        /\ UNCHANGED <<registryVars, hub, req, conn, displaced, tunnels, dbRow,
                       lastSeen, boundVars, unwatched>>

-----------------------------------------------------------------------------
(* The goroutine that watches an installed session. *)

(* Variant: a goroutine that waits for the session's end only. *)
SessionEnded(r) == ~alive[r]

(* The goroutine's select: the connection is done, the session closed, or  *)
(* a draining owner quiescent.                                             *)
Ended(r) == done[conn[r]] \/ ~alive[r] \/ owner[r] = "draining"

(* Close the session and give its reservation back. *)
Monitor(r) ==
    /\ pc[r] = "monitor"
    /\ Ended(r)
    /\ alive' = [alive EXCEPT ![r] = FALSE]
    /\ owner' = [owner EXCEPT ![r] = IF Aggregated(r) THEN "closed" ELSE @]
    /\ pc' = [pc EXCEPT ![r] = "cleanup"]
    /\ UNCHANGED <<registryVars, entryVars, req, conn, displaced, tunnels, connVars,
                   boundVars, unwatched>>

(* AgentConn.tunnels once request r's session is out of its lane. *)
LanesWithout(r) ==
    [tunnels[conn[r]] EXCEPT ![req[r].lane] = IF @ = r THEN None ELSE @]

(* Variant: a session that its lane no longer names is not the last one. *)
LastOfItsLane(r) ==
    /\ tunnels[conn[r]][req[r].lane] = r
    /\ \A l \in Lanes : LanesWithout(r)[l] = None \/ ~alive[LanesWithout(r)[l]]
    /\ Owned(conn[r]) = {}

(* AgentConn.removeTunnel's second result: no other lane has an open       *)
(* session and no owner is left, of this lane or another.                  *)
Last(r) ==
    /\ \A l \in Lanes : LanesWithout(r)[l] = None \/ ~alive[LanesWithout(r)[l]]
    /\ Owned(conn[r]) = {}

(* Variant: the agent's entry goes whichever connection it names. *)
EntryCleared(c) == None

(* agentHub.disconnectLocked: only the connection's own entry goes. *)
HubWithout(c) == IF hub = c THEN None ELSE hub

(* Variant: the agent is marked disconnected by every cleanup. *)
SeenByAnyCleanup(c, marks) ==
    IF dbRow[c] # "none" /\ marks THEN "disconnected" ELSE lastSeen

(* MarkAgentDisconnected, if the hub still named the connection. *)
SeenAfterCleanup(c, marks) ==
    IF dbRow[c] # "none" /\ hub = c /\ marks THEN "disconnected" ELSE lastSeen

(* UpdateConnectionDisconnected, which succeeds or not. *)
RowAfterCleanup(c, closes) ==
    CASE dbRow[c] \in {"none", "closed"} -> dbRow[c]
      [] OTHER -> IF closes THEN "closed" ELSE "stale"

(* cleanupAgentTunnel and cleanupAgentConnectionLocked; an error of either *)
(* write is logged and nothing tries it again.                             *)
Cleanup(r, closes, marks) ==
    LET c == conn[r]
    IN  /\ pc[r] = "cleanup"
        /\ authLock = None
        /\ tunnels' = [tunnels EXCEPT ![c] = LanesWithout(r)]
        /\ IF Last(r)
           THEN /\ hub' = HubWithout(c)
                /\ SignalDone(c, {})
                /\ registered' = [registered EXCEPT ![c] = FALSE]
                /\ dbRow' = [dbRow EXCEPT ![c] = RowAfterCleanup(c, closes)]
                /\ lastSeen' = SeenAfterCleanup(c, marks)
           ELSE UNCHANGED <<hub, done, owner, alive, registered, dbRow, lastSeen>>
        /\ pc' = [pc EXCEPT ![r] = "done"]
        /\ UNCHANGED <<registryVars, authLock, req, conn, displaced, boundVars,
                       unwatched>>

-----------------------------------------------------------------------------
(* The registry, the environment. *)

(* revokeAgentConnection: agentHub.disconnectByID and its onDisconnect. *)
Revoke ==
    IF hub = None
    THEN UNCHANGED <<hub, done, owner, alive, registered>>
    ELSE /\ hub' = None
         /\ registered' = [registered EXCEPT ![hub] = FALSE]
         /\ SignalDone(hub, {})

(* RotateAgentToken holds the auth lock over both of its steps. *)
RotateAgentToken ==
    /\ authLock = None
    /\ row # "deleted"
    /\ token < MaxRotations
    /\ token' = token + 1
    /\ authLock' = Admin
    /\ UNCHANGED <<row, hub, handlerVars, laneVars, connVars, boundVars, unwatched>>

RevokeRotated ==
    /\ authLock = Admin
    /\ Revoke
    /\ authLock' = None
    /\ UNCHANGED <<registryVars, handlerVars, tunnels, dbRow, lastSeen, boundVars,
                   unwatched>>

(* ReportAgentUpdate revokes the connection after an activation, without   *)
(* the auth lock.                                                          *)
RevokeForUpdate ==
    /\ revokes < MaxRevokes
    /\ hub # None
    /\ Revoke
    /\ revokes' = revokes + 1
    /\ UNCHANGED <<registryVars, authLock, handlerVars, tunnels, dbRow, lastSeen,
                   restarts, unwatched>>

(* UpdateAgent changes the row and leaves the connection alone. *)
UpdateAgent ==
    /\ row # "deleted"
    /\ row' \in {"enabled", "disabled"}
    /\ UNCHANGED <<token, entryVars, handlerVars, laneVars, connVars, boundVars, unwatched>>

(* DeleteAgent's connected check, serialized with tunnel registration. *)
Deletable == authLock = None /\ hub = None

DeleteAgent ==
    /\ Deletable
    /\ row' = "deleted"
    /\ UNCHANGED <<token, entryVars, handlerVars, laneVars, connVars, boundVars, unwatched>>

(* The wire of a session is lost: Yamux closes the session. *)
WireDrop(r) ==
    /\ alive[r]
    /\ alive' = [alive EXCEPT ![r] = FALSE]
    /\ UNCHANGED <<registryVars, entryVars, handlerVars, owner, tunnels, connVars,
                   boundVars, unwatched>>

(* The server stops and starts again: the memory is gone, and              *)
(* closeStaleAgentConnections closes the rows that are still open, each of *)
(* its two writes succeeding or not.                                       *)
Restart(closes, marks) ==
    LET open == {c \in Requests : dbRow[c] \notin {"none", "closed"}}
    IN  /\ restarts < MaxRestarts
        /\ restarts' = restarts + 1
        /\ authLock' = None
        /\ hub' = None
        /\ pc' = [r \in Requests |-> IF pc[r] = "idle" THEN "idle" ELSE "done"]
        /\ conn' = [r \in Requests |-> None]
        /\ displaced' = [r \in Requests |-> None]
        /\ alive' = [r \in Requests |-> FALSE]
        /\ owner' = [r \in Requests |-> IF owner[r] = "none" THEN "none" ELSE "closed"]
        /\ tunnels' = [r \in Requests |-> NoLanes]
        /\ done' = [r \in Requests |-> FALSE]
        /\ registered' = [r \in Requests |-> FALSE]
        /\ dbRow' = [c \in Requests |-> RowAfterCleanup(c, closes)]
        /\ lastSeen' = IF open # {} /\ marks THEN "disconnected" ELSE lastSeen
        /\ unwatched' = [r \in Requests |-> FALSE]
        /\ UNCHANGED <<registryVars, req, revokes>>

-----------------------------------------------------------------------------

(* One step of the handler or the monitor of a request. *)
Step(r) ==
    \/ Refuse(r)
    \/ \E ok \in BOOLEAN : Enter(r, ok)
    \/ Attach(r)
    \/ Abort(r)
    \/ Install(r)
    \/ Commit(r)
    \/ CommitFails(r)
    \/ \E written \in {"none", "unmarked", "open"} : InsertRow(r, written)
    \/ Replace(r)
    \/ Retire(r)
    \/ Monitor(r)
    \/ \E closes, marks \in BOOLEAN : Cleanup(r, closes, marks)

HubNext ==
    \/ \E r \in Requests, g \in Groups, l \in Lanes, p \in OptRequest : Arrive(r, g, l, p)
    \/ \E r \in Requests : Step(r) \/ WireDrop(r)
    \/ RotateAgentToken
    \/ RevokeRotated
    \/ RevokeForUpdate
    \/ UpdateAgent
    \/ DeleteAgent
    \/ \E closes, marks \in BOOLEAN : Restart(closes, marks)

HubSpec == HubInit /\ [][HubNext]_hubVars

(* Handlers and monitors are goroutines that run until they return; the    *)
(* auth lock is a Go mutex, which does not starve its waiters.  Nothing    *)
(* obliges an agent to connect, a wire to fail or an operator to act.      *)
HubFairness == (\A r \in Requests : SF_hubVars(Step(r))) /\ WF_hubVars(RevokeRotated)

-----------------------------------------------------------------------------
(* No handler and no monitor works for connection c any more. *)
Idle(c) == \A r \in Requests : conn[r] = c => pc[r] = "done"

(* The connection the hub names, and every session in its lanes, were      *)
(* authenticated with the agent's current token and the agent exists:      *)
(* a handler that authenticated before a rotation or a deletion does not   *)
(* bring the old credential back (agentTunnelHandler's second              *)
(* authentication, the lock of RotateAgentToken and DeleteAgent).          *)
CredentialsCurrent ==
    hub # None /\ authLock # Admin =>
        /\ row # "deleted"
        /\ req[hub].token = token
        /\ \A l \in Lanes : tunnels[hub][l] # None => req[tunnels[hub][l]].token = token

(* Once the last handler and monitor of a connection have ended, nothing   *)
(* of it is left: not the hub entry, no session, no stream capacity        *)
(* registration, no database row that nobody has tried to close            *)
(* (removeTunnel's "last", cleanupAgentConnectionLocked, the handler's     *)
(* deferred calls); a row whose closing write failed stays open until the  *)
(* next start.  The exception is a handoff that failed after it gave up    *)
(* the auth lock: LostAgentLeavesHub is about that case.                   *)
NothingLeftBehind ==
    \A c \in Requests : pc[c] # "idle" /\ Idle(c) /\ ~unwatched[c] =>
        /\ hub # c
        /\ ~registered[c]
        /\ ~RowOpen(c)
        /\ \A r \in Requests : conn[r] = c => ~alive[r] /\ ~Live(owner[r])

(* A connection leaves the hub only to a successor or because it is done:  *)
(* the late cleanup of a displaced connection does not take its            *)
(* successor's entry (agentHub.disconnectLocked).                          *)
LeavesHubWhenDone ==
    [][hub # None /\ hub' = None => done'[hub] \/ restarts' # restarts]_hubVars

(* While the hub names a connection that was recorded as connected, that   *)
(* is the agent's last recorded event: the side effects of an older        *)
(* connection's end are not recorded after it, whichever of the writes of  *)
(* either failed (cleanupAgentConnection,                                  *)
(* TestAgentReplacementSerializesPriorDisconnectSideEffects).              *)
ConnectedIsRecorded ==
    hub # None /\ dbRow[hub] = "open" => lastSeen = "connected"

(* The database row of a connection that is no longer the agent's current  *)
(* one does not stay as it is: its monitors notice, the last one of them   *)
(* cleans up and closes the row, or fails at that single write             *)
(* (waitForConnectionDisconnected in the registry's tests).                *)
RowCloses ==
    HubFairness =>
        \A c \in Requests :
            (RowOpen(c) /\ hub # c) ~> (dbRow[c] \in {"closed", "stale"} \/ hub = c \/ unwatched[c])

(* An agent whose tunnels have all failed is disconnected: no connection   *)
(* is left in the hub once nothing watches it (operations/                 *)
(* troubleshooting.md, "tunnel failures disconnect the agent").            *)
LostAgentLeavesHub == hub # None => ~Idle(hub)
=============================================================================
