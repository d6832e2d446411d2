-------------------------- MODULE AgentHub_proofs --------------------------
(***************************************************************************)
(* Machine-checked proofs about AgentHub, for any number of upgrade        *)
(* requests, groups and lanes and any number of rotations, revocations and *)
(* restarts.                                                               *)
(***************************************************************************)
EXTENDS AgentHub, TLAPS

-----------------------------------------------------------------------------
(* Type correctness.                                                       *)

(* The initial state is type correct. *)
LEMMA TypeInit == HubInit => HubTypeOK
  BY NoneAssumption, LaneAssumption, GroupAssumption, BoundAssumption
     DEF HubInit, HubTypeOK, OptRequest, Pcs, OwnerStates, RowStates, NoLanes, NoRequest

(* Signalling a connection done keeps the types of what it closes. *)
LEMMA SignalDoneType ==
    ASSUME HubTypeOK, NEW c, NEW S, SignalDone(c, S)
    PROVE  /\ done' \in [Requests -> BOOLEAN]
           /\ owner' \in [Requests -> OwnerStates]
           /\ alive' \in [Requests -> BOOLEAN]
  BY DEF HubTypeOK, SignalDone, OwnerStates

(* So does revoking the agent's connection. *)
LEMMA RevokeType ==
    ASSUME HubTypeOK, Revoke
    PROVE  /\ hub' \in OptRequest
           /\ registered' \in [Requests -> BOOLEAN]
           /\ done' \in [Requests -> BOOLEAN]
           /\ owner' \in [Requests -> OwnerStates]
           /\ alive' \in [Requests -> BOOLEAN]
<1>1. CASE hub = None
  BY <1>1 DEF HubTypeOK, Revoke
<1>2. CASE hub # None
  <2>1. SignalDone(hub, {}) /\ hub' = None /\ registered' = [registered EXCEPT ![hub] = FALSE]
    BY <1>2 DEF Revoke
  <2> QED
    BY <2>1, SignalDoneType DEF HubTypeOK, OptRequest
<1> QED
  BY <1>1, <1>2

(* Every step keeps the types. *)
LEMMA TypeNext == HubTypeOK /\ [HubNext]_hubVars => HubTypeOK'
<1> SUFFICES ASSUME HubTypeOK, [HubNext]_hubVars PROVE HubTypeOK'
  OBVIOUS
<1> USE NoneAssumption, LaneAssumption, GroupAssumption, BoundAssumption
    DEF OptRequest, Pcs, OwnerStates, RowStates, registryVars, entryVars, handlerVars, laneVars, connVars, boundVars
<1>1. ASSUME NEW r \in Requests, NEW g \in Groups, NEW l \in Lanes, NEW p \in OptRequest,
             Arrive(r, g, l, p)
      PROVE HubTypeOK'
  BY <1>1 DEF HubTypeOK, Arrive
<1>2. ASSUME NEW r \in Requests, Refuse(r) PROVE HubTypeOK'
  BY <1>2 DEF HubTypeOK, Refuse
<1>3. ASSUME NEW r \in Requests, NEW ok \in BOOLEAN, Enter(r, ok) PROVE HubTypeOK'
  <2>1. Joined(r) \in Requests
    BY DEF HubTypeOK, Joined
  <2>2. /\ owner' \in [Requests -> OwnerStates]
        /\ alive' \in [Requests -> BOOLEAN]
    BY <1>3 DEF HubTypeOK, Enter
  <2>3. /\ conn' \in [Requests -> OptRequest]
        /\ pc' \in [Requests -> Pcs]
        /\ authLock' \in OptRequest \cup {Admin}
    BY <1>3, <2>1 DEF HubTypeOK, Enter
  <2> QED
    BY <1>3, <2>2, <2>3 DEF HubTypeOK, Enter
<1>4. ASSUME NEW r \in Requests, Attach(r) PROVE HubTypeOK'
  BY <1>4 DEF HubTypeOK, Attach
<1>5. ASSUME NEW r \in Requests, Abort(r) PROVE HubTypeOK'
  BY <1>5 DEF HubTypeOK, Abort
<1>6. ASSUME NEW r \in Requests, Install(r) PROVE HubTypeOK'
  BY <1>6 DEF HubTypeOK, Install
<1>7. ASSUME NEW r \in Requests, Commit(r) PROVE HubTypeOK'
  BY <1>7 DEF HubTypeOK, Commit
<1>8. ASSUME NEW r \in Requests, CommitFails(r) PROVE HubTypeOK'
  <2>1. tunnels' \in [Requests -> [Lanes -> OptRequest]]
    <3>1. CASE conn[r] \in Requests
      <4>1. req[r].lane \in Lanes /\ tunnels[conn[r]] \in [Lanes -> OptRequest]
        BY <3>1 DEF HubTypeOK
      <4>2. tunnels[conn[r]][req[r].lane] \in OptRequest
        BY <4>1
      <4> QED
        BY <1>8, <3>1, <4>1, <4>2 DEF HubTypeOK, CommitFails
    <3>2. CASE conn[r] \notin Requests
      BY <1>8, <3>2 DEF HubTypeOK, CommitFails
    <3> QED
      BY <3>1, <3>2
  <2> QED
    BY <1>8, <2>1 DEF HubTypeOK, CommitFails
<1>9. ASSUME NEW r \in Requests, NEW w \in {"none", "unmarked", "open"}, InsertRow(r, w) PROVE HubTypeOK'
  BY <1>9 DEF HubTypeOK, InsertRow
<1>10. ASSUME NEW r \in Requests, Replace(r) PROVE HubTypeOK'
  BY <1>10 DEF HubTypeOK, Replace
<1>11. ASSUME NEW r \in Requests, Retire(r) PROVE HubTypeOK'
  <2>1. CASE displaced[r] = None
    BY <1>11, <2>1 DEF HubTypeOK, Retire
  <2>2. CASE displaced[r] # None
    <3>1. SignalDone(displaced[r], {displaced[r]}) /\ registered' = [registered EXCEPT ![displaced[r]] = FALSE]
      BY <1>11, <2>2 DEF Retire
    <3>2. done' \in [Requests -> BOOLEAN] /\ owner' \in [Requests -> OwnerStates]
          /\ alive' \in [Requests -> BOOLEAN]
      BY <3>1, SignalDoneType
    <3> QED
      BY <1>11, <3>1, <3>2 DEF HubTypeOK, Retire
  <2> QED
    BY <2>1, <2>2
<1>12. ASSUME NEW r \in Requests, Monitor(r) PROVE HubTypeOK'
  BY <1>12 DEF HubTypeOK, Monitor
<1>13. ASSUME NEW r \in Requests, NEW f \in BOOLEAN, NEW m \in BOOLEAN, Cleanup(r, f, m) PROVE HubTypeOK'
  <2>1. LanesWithout(r) \in [Lanes -> OptRequest] \/ conn[r] \notin Requests
    <3> SUFFICES ASSUME conn[r] \in Requests PROVE LanesWithout(r) \in [Lanes -> OptRequest]
      OBVIOUS
    <3>1. req[r].lane \in Lanes /\ tunnels[conn[r]] \in [Lanes -> OptRequest]
      BY DEF HubTypeOK
    <3>2. tunnels[conn[r]][req[r].lane] \in OptRequest
      BY <3>1
    <3> QED
      BY <3>1, <3>2 DEF LanesWithout
  <2>2. tunnels' \in [Requests -> [Lanes -> OptRequest]]
    BY <1>13, <2>1 DEF HubTypeOK, Cleanup
  <2>3. CASE Last(r)
    <3>1. SignalDone(conn[r], {})
      BY <1>13, <2>3 DEF Cleanup
    <3>2. done' \in [Requests -> BOOLEAN] /\ owner' \in [Requests -> OwnerStates]
          /\ alive' \in [Requests -> BOOLEAN]
      BY <3>1, SignalDoneType
    <3>3. /\ registered' \in [Requests -> BOOLEAN]
          /\ hub' \in OptRequest
          /\ lastSeen' \in {"never", "connected", "disconnected"}
      BY <1>13, <2>3 DEF HubTypeOK, Cleanup, HubWithout, SeenAfterCleanup
    <3>4. dbRow' \in [Requests -> RowStates]
      BY <1>13, <2>3 DEF HubTypeOK, Cleanup, RowAfterCleanup
    <3> QED
      BY <1>13, <2>2, <3>2, <3>3, <3>4 DEF HubTypeOK, Cleanup
  <2>4. CASE ~Last(r)
    BY <1>13, <2>2, <2>4 DEF HubTypeOK, Cleanup
  <2> QED
    BY <2>3, <2>4
<1>14. ASSUME NEW r \in Requests, WireDrop(r) PROVE HubTypeOK'
  BY <1>14 DEF HubTypeOK, WireDrop
<1>15. ASSUME RotateAgentToken PROVE HubTypeOK'
  BY <1>15 DEF HubTypeOK, RotateAgentToken
<1>16. ASSUME RevokeRotated PROVE HubTypeOK'
  <2>1. /\ hub' \in OptRequest
        /\ registered' \in [Requests -> BOOLEAN]
        /\ done' \in [Requests -> BOOLEAN]
        /\ owner' \in [Requests -> OwnerStates]
        /\ alive' \in [Requests -> BOOLEAN]
    BY <1>16, RevokeType DEF RevokeRotated
  <2> QED
    BY <1>16, <2>1 DEF HubTypeOK, RevokeRotated
<1>17. ASSUME RevokeForUpdate PROVE HubTypeOK'
  <2>1. /\ hub' \in OptRequest
        /\ registered' \in [Requests -> BOOLEAN]
        /\ done' \in [Requests -> BOOLEAN]
        /\ owner' \in [Requests -> OwnerStates]
        /\ alive' \in [Requests -> BOOLEAN]
    BY <1>17, RevokeType DEF RevokeForUpdate
  <2> QED
    BY <1>17, <2>1 DEF HubTypeOK, RevokeForUpdate
<1>18. ASSUME UpdateAgent PROVE HubTypeOK'
  BY <1>18 DEF HubTypeOK, UpdateAgent
<1>19. ASSUME DeleteAgent PROVE HubTypeOK'
  BY <1>19 DEF HubTypeOK, DeleteAgent
<1>20. ASSUME NEW f \in BOOLEAN, NEW m \in BOOLEAN, Restart(f, m) PROVE HubTypeOK'
  <2>1. /\ tunnels' \in [Requests -> [Lanes -> OptRequest]]
        /\ owner' \in [Requests -> OwnerStates]
        /\ pc' \in [Requests -> Pcs]
        /\ dbRow' \in [Requests -> RowStates]
    BY <1>20 DEF HubTypeOK, Restart, RowAfterCleanup, NoLanes
  <2> QED
    BY <1>20, <2>1 DEF HubTypeOK, Restart
<1>21. CASE UNCHANGED hubVars
  BY <1>21 DEF HubTypeOK, hubVars
<1> QED
  BY <1>1, <1>2, <1>3, <1>4, <1>5, <1>6, <1>7, <1>8, <1>9, <1>10, <1>11,
     <1>12, <1>13, <1>14, <1>15, <1>16, <1>17, <1>18, <1>19, <1>20, <1>21
     DEF HubNext, Step

-----------------------------------------------------------------------------
(* The inductive invariant.                                                *)

(* Stages before a connection, under the auth lock, with an installed      *)
(* session, and once the hub has named the request's connection.           *)
Before    == {"idle", "authenticated"}
Locked    == {"owned", "attached", "register", "replace", "retire"}
Installed == {"commit", "register", "replace", "retire", "monitor"}
Published == {"retire", "monitor", "cleanup", "done"}

StartInv ==
    \A r \in Requests : pc[r] \in Before =>
        /\ conn[r] = None
        /\ ~alive[r]
        /\ owner[r] = "none"
        /\ ~registered[r]
        /\ dbRow[r] = "none"

(* The auth lock and the stage of a handler determine each other, except   *)
(* in a handoff, which may have released the lock.  Open sessions and live *)
(* owners belong to a handler or a monitor that still runs.                *)
HandlerInv ==
    \A r \in Requests :
        /\ pc[r] \notin Before \cup {"done"} => conn[r] \in Requests
        /\ pc[r] \in {"register", "replace", "retire"} => conn[r] = r
        /\ pc[r] \in Locked => authLock = r
        /\ authLock = r => pc[r] \in Locked \cup {"commit"}
        /\ alive[r] => pc[r] \in Installed \cup {"attached"}
        /\ Live(owner[r]) => Aggregated(r) /\ pc[r] \in Installed \cup {"owned", "attached"}

(* Only a bulk lane of an existing connection is handed off. *)
OfferInv ==
    \A r \in Requests :
        /\ conn[r] = r => req[r].lane = 0
        /\ pc[r] = "commit" => Retirement(r)
        /\ req[r].replaces # None => Retirement(r)

(* A connection that was joined, or that the hub names, was published by   *)
(* the request that created it.                                            *)
JoinInv ==
    /\ \A r \in Requests : conn[r] # None /\ conn[r] # r =>
          conn[conn[r]] = conn[r] /\ pc[conn[r]] \in Published
    /\ hub # None => conn[hub] = hub /\ pc[hub] \in Published

(* A lane names a session of its own connection and number. *)
LaneInv ==
    \A c \in Requests, l \in Lanes : tunnels[c][l] # None =>
        conn[tunnels[c][l]] = c /\ req[tunnels[c][l]].lane = l

(* The handler that holds the auth lock has the current credential. *)
TokenInv ==
    authLock \in Requests => row # "deleted" /\ req[authLock].token = token

(* A connection has no row and no hub entry before its lane is published,  *)
(* and between the two the row's insertion is the last event recorded.     *)
RecordInv ==
    \A r \in Requests :
        /\ pc[r] \in {"owned", "attached", "register"} /\ conn[r] = r => dbRow[r] = "none" /\ hub # r
        /\ pc[r] = "replace" /\ dbRow[r] = "open" => lastSeen = "connected"

(* What outlives a connection's sessions, and who cleans it up: a monitor, *)
(* or a handler that becomes one.  A handler of another request does not   *)
(* count while it holds the auth lock, because it may still fail.          *)
Residue(c) == hub = c \/ registered[c] \/ RowOpen(c)
Watching(x, c) == conn[x] = c /\ pc[x] \in Installed \cup {"cleanup"}

ResidueInv ==
    \A c \in Requests : Residue(c) =>
        /\ conn[c] = c
        /\ \/ unwatched[c]
           \/ pc[c] \in {"owned", "attached"}
           \/ \E x \in Requests : Watching(x, c) /\ (authLock = x => x = c)

HubInv ==
    /\ HubTypeOK
    /\ StartInv
    /\ HandlerInv
    /\ OfferInv
    /\ JoinInv
    /\ LaneInv
    /\ TokenInv
    /\ RecordInv
    /\ ResidueInv
    /\ CredentialsCurrent
    /\ ConnectedIsRecorded

(* The initial state satisfies the invariant. *)
LEMMA HubInvInit == HubInit => HubInv
<1> SUFFICES ASSUME HubInit PROVE HubInv
  OBVIOUS
<1>1. HubTypeOK
  BY TypeInit
<1>2. StartInv /\ HandlerInv /\ OfferInv
  BY NoneAssumption DEF HubInit, StartInv, HandlerInv, OfferInv, Before, Locked, Live, NoRequest
<1>3. JoinInv /\ LaneInv /\ TokenInv /\ RecordInv
  BY NoneAssumption DEF HubInit, JoinInv, LaneInv, TokenInv, RecordInv, NoLanes
<1>4. ResidueInv /\ CredentialsCurrent /\ ConnectedIsRecorded
  BY NoneAssumption DEF HubInit, ResidueInv, Residue, RowOpen, CredentialsCurrent, ConnectedIsRecorded
<1> QED
  BY <1>1, <1>2, <1>3, <1>4 DEF HubInv

(* Nothing exists of a request before its handler enters. *)
LEMMA StartNext ==
    HubTypeOK /\ StartInv /\ [HubNext]_hubVars => StartInv'
<1> SUFFICES ASSUME HubTypeOK, StartInv, [HubNext]_hubVars PROVE StartInv'
  OBVIOUS
<1> USE NoneAssumption, LaneAssumption, GroupAssumption, BoundAssumption
    DEF OptRequest, registryVars, entryVars, handlerVars, laneVars, connVars, boundVars, Before, Live, Owned
<1>1. ASSUME NEW r \in Requests, NEW g \in Groups, NEW l \in Lanes, NEW p \in OptRequest,
             Arrive(r, g, l, p)
      PROVE StartInv'
  BY <1>1 DEF StartInv, Arrive
<1>2. ASSUME NEW r \in Requests, Refuse(r) PROVE StartInv'
  BY <1>2 DEF StartInv, Refuse
<1>3. ASSUME NEW r \in Requests, NEW ok \in BOOLEAN, Enter(r, ok) PROVE StartInv'
  BY <1>3 DEF HubTypeOK, StartInv, Enter
<1>4. ASSUME NEW r \in Requests, Attach(r) PROVE StartInv'
  BY <1>4 DEF HubTypeOK, StartInv, Attach
<1>5. ASSUME NEW r \in Requests, Abort(r) PROVE StartInv'
  BY <1>5 DEF StartInv, Abort
<1>6. ASSUME NEW r \in Requests, Install(r) PROVE StartInv'
  BY <1>6 DEF HubTypeOK, StartInv, Install, Serving, Slot
<1>7. ASSUME NEW r \in Requests, Commit(r) PROVE StartInv'
  BY <1>7 DEF StartInv, Commit
<1>8. ASSUME NEW r \in Requests, CommitFails(r) PROVE StartInv'
  BY <1>8 DEF StartInv, CommitFails
<1>9. ASSUME NEW r \in Requests, NEW w \in {"none", "unmarked", "open"}, InsertRow(r, w) PROVE StartInv'
  BY <1>9 DEF StartInv, InsertRow
<1>10. ASSUME NEW r \in Requests, Replace(r) PROVE StartInv'
  BY <1>10 DEF StartInv, Replace
<1>11. ASSUME NEW r \in Requests, Retire(r) PROVE StartInv'
  BY <1>11 DEF HubTypeOK, StartInv, Retire, SignalDone
<1>12. ASSUME NEW r \in Requests, Monitor(r) PROVE StartInv'
  BY <1>12 DEF StartInv, Monitor
<1>13. ASSUME NEW r \in Requests, NEW f \in BOOLEAN, NEW m \in BOOLEAN, Cleanup(r, f, m) PROVE StartInv'
  <2>1. CASE Last(r)
    <3>1. SignalDone(conn[r], {}) /\ registered' = [registered EXCEPT ![conn[r]] = FALSE]
      BY <1>13, <2>1 DEF Cleanup
    <3>2. \A o \in Requests : (alive'[o] => alive[o]) /\ (owner[o] = "none" => owner'[o] = "none")
      BY <3>1 DEF SignalDone
    <3>3. \A o \in Requests : dbRow[o] = "none" => dbRow'[o] = "none"
      BY <1>13, <2>1 DEF HubTypeOK, Cleanup, RowAfterCleanup
    <3>4. \A o \in Requests : /\ pc'[o] \in Before => pc[o] \in Before /\ conn'[o] = conn[o]
                              /\ registered'[o] => registered[o]
      BY <1>13, <3>1 DEF HubTypeOK, Cleanup
    <3> QED
      BY <3>2, <3>3, <3>4 DEF StartInv
  <2>2. CASE ~Last(r)
    BY <1>13, <2>2 DEF StartInv, Cleanup
  <2> QED
    BY <2>1, <2>2
<1>14. ASSUME NEW r \in Requests, WireDrop(r) PROVE StartInv'
  BY <1>14 DEF StartInv, WireDrop
<1>15. ASSUME RotateAgentToken PROVE StartInv'
  BY <1>15 DEF StartInv, RotateAgentToken
<1>16. ASSUME RevokeRotated PROVE StartInv'
  <2>1. CASE hub = None
    BY <1>16, <2>1 DEF StartInv, RevokeRotated, Revoke
  <2>2. CASE hub # None
    <3>1. SignalDone(hub, {}) /\ registered' = [registered EXCEPT ![hub] = FALSE]
      BY <1>16, <2>2 DEF RevokeRotated, Revoke
    <3>2. \A o \in Requests : (alive'[o] => alive[o]) /\ (owner[o] = "none" => owner'[o] = "none")
      BY <3>1 DEF SignalDone
    <3> QED
      BY <1>16, <3>1, <3>2 DEF HubTypeOK, StartInv, RevokeRotated
  <2> QED
    BY <2>1, <2>2
<1>17. ASSUME RevokeForUpdate PROVE StartInv'
  <2>1. SignalDone(hub, {}) /\ registered' = [registered EXCEPT ![hub] = FALSE]
    BY <1>17 DEF RevokeForUpdate, Revoke
  <2>2. \A o \in Requests : (alive'[o] => alive[o]) /\ (owner[o] = "none" => owner'[o] = "none")
    BY <2>1 DEF SignalDone
  <2> QED
    BY <1>17, <2>1, <2>2 DEF StartInv, RevokeForUpdate
<1>18. ASSUME UpdateAgent PROVE StartInv'
  BY <1>18 DEF StartInv, UpdateAgent
<1>19. ASSUME DeleteAgent PROVE StartInv'
  BY <1>19 DEF StartInv, DeleteAgent
<1>20. ASSUME NEW f \in BOOLEAN, NEW m \in BOOLEAN, Restart(f, m) PROVE StartInv'
  BY <1>20 DEF StartInv, Restart, RowAfterCleanup
<1>21. CASE UNCHANGED hubVars
  BY <1>21 DEF StartInv, hubVars
<1> QED
  BY <1>1, <1>2, <1>3, <1>4, <1>5, <1>6, <1>7, <1>8, <1>9, <1>10, <1>11,
     <1>12, <1>13, <1>14, <1>15, <1>16, <1>17, <1>18, <1>19, <1>20, <1>21
     DEF HubNext, Step

(* Every step keeps the handlers' stages consistent with the auth lock,    *)
(* the sessions and the owners.                                            *)
LEMMA HandlerNext ==
    HubTypeOK /\ HandlerInv /\ StartInv /\ JoinInv /\ OfferInv /\ [HubNext]_hubVars => HandlerInv'
<1> SUFFICES ASSUME HubTypeOK, HandlerInv, StartInv, JoinInv, OfferInv, [HubNext]_hubVars PROVE HandlerInv'
  OBVIOUS
<1> USE NoneAssumption, LaneAssumption, GroupAssumption, BoundAssumption
    DEF OptRequest, registryVars, entryVars, handlerVars, laneVars, connVars, boundVars, Before, Locked, Installed, Published, Live, Owned, Aggregated, Retirement
<1>1. ASSUME NEW r \in Requests, NEW g \in Groups, NEW l \in Lanes, NEW p \in OptRequest,
             Arrive(r, g, l, p)
      PROVE HandlerInv'
  BY <1>1 DEF HandlerInv, Arrive
<1>2. ASSUME NEW r \in Requests, Refuse(r) PROVE HandlerInv'
  BY <1>2 DEF HandlerInv, Refuse
<1>3. ASSUME NEW r \in Requests, NEW ok \in BOOLEAN, Enter(r, ok) PROVE HandlerInv'
  <2>1. Joined(r) \in Requests
    BY DEF HubTypeOK, Joined
  <2>2. \A o \in Requests : alive'[o] => alive[o]
    BY <1>3 DEF Enter
  <2>3. \A o \in Requests \ {r} : Live(owner'[o]) => Live(owner[o])
    BY <1>3 DEF Enter
  <2>4. Live(owner'[r]) => ok /\ Aggregated(r)
    BY <1>3 DEF Enter, StartInv
  <2>5. CASE ok
    BY <1>3, <2>1, <2>2, <2>3, <2>4, <2>5 DEF HubTypeOK, HandlerInv, Enter
  <2>6. CASE ~ok
    BY <1>3, <2>2, <2>3, <2>4, <2>6 DEF HandlerInv, Enter
  <2> QED
    BY <2>5, <2>6
<1>4. ASSUME NEW r \in Requests, Attach(r) PROVE HandlerInv'
  BY <1>4 DEF HubTypeOK, HandlerInv, Attach
<1>5. ASSUME NEW r \in Requests, Abort(r) PROVE HandlerInv'
  BY <1>5 DEF HubTypeOK, HandlerInv, Abort
<1>6. ASSUME NEW r \in Requests, Install(r) PROVE HandlerInv'
  <2>1. \A o \in Requests : alive'[o] => alive[o]
    BY <1>6 DEF Install
  <2>2. \A o \in Requests : Live(owner'[o]) => Live(owner[o])
    BY <1>6 DEF Install, Serving, Slot
  <2>3. conn[r] \in Requests /\ authLock = r
    BY <1>6 DEF HandlerInv, Install
  <2>4. req[r].replaces # None => Retirement(r)
    BY DEF OfferInv
  <2>5. CASE Retirement(r)
    BY <1>6, <2>1, <2>2, <2>3, <2>5 DEF HubTypeOK, HandlerInv, Install
  <2>6. CASE ~Retirement(r)
    BY <1>6, <2>1, <2>2, <2>3, <2>4, <2>6 DEF HandlerInv, Install
  <2> QED
    BY <2>5, <2>6
<1>7. ASSUME NEW r \in Requests, Commit(r) PROVE HandlerInv'
  BY <1>7 DEF HandlerInv, Commit
<1>8. ASSUME NEW r \in Requests, CommitFails(r) PROVE HandlerInv'
  BY <1>8 DEF HubTypeOK, HandlerInv, CommitFails
<1>9. ASSUME NEW r \in Requests, NEW w \in {"none", "unmarked", "open"}, InsertRow(r, w) PROVE HandlerInv'
  BY <1>9 DEF HandlerInv, InsertRow
<1>10. ASSUME NEW r \in Requests, Replace(r) PROVE HandlerInv'
  BY <1>10 DEF HandlerInv, Replace
<1>11. ASSUME NEW r \in Requests, Retire(r) PROVE HandlerInv'
  BY <1>11 DEF HubTypeOK, HandlerInv, Retire, SignalDone
<1>12. ASSUME NEW r \in Requests, Monitor(r) PROVE HandlerInv'
  BY <1>12 DEF HubTypeOK, HandlerInv, Monitor
<1>13. ASSUME NEW r \in Requests, NEW f \in BOOLEAN, NEW m \in BOOLEAN, Cleanup(r, f, m) PROVE HandlerInv'
  BY <1>13 DEF HubTypeOK, HandlerInv, Cleanup, SignalDone
<1>14. ASSUME NEW r \in Requests, WireDrop(r) PROVE HandlerInv'
  BY <1>14 DEF HandlerInv, WireDrop
<1>15. ASSUME RotateAgentToken PROVE HandlerInv'
  BY <1>15 DEF HandlerInv, RotateAgentToken
<1>16. ASSUME RevokeRotated PROVE HandlerInv'
  BY <1>16 DEF HandlerInv, RevokeRotated, Revoke, SignalDone
<1>17. ASSUME RevokeForUpdate PROVE HandlerInv'
  <2>1. hub # None /\ SignalDone(hub, {})
    BY <1>17 DEF RevokeForUpdate, Revoke
  <2>2. \A o \in Requests : (alive'[o] => alive[o]) /\ (Live(owner'[o]) => Live(owner[o]))
    BY <2>1 DEF SignalDone
  <2> QED
    BY <1>17, <2>2 DEF HandlerInv, RevokeForUpdate
<1>18. ASSUME UpdateAgent PROVE HandlerInv'
  BY <1>18 DEF HandlerInv, UpdateAgent
<1>19. ASSUME DeleteAgent PROVE HandlerInv'
  BY <1>19 DEF HandlerInv, DeleteAgent
<1>20. ASSUME NEW f \in BOOLEAN, NEW m \in BOOLEAN, Restart(f, m) PROVE HandlerInv'
  BY <1>20 DEF HandlerInv, Restart
<1>21. CASE UNCHANGED hubVars
  BY <1>21 DEF HandlerInv, hubVars
<1> QED
  BY <1>1, <1>2, <1>3, <1>4, <1>5, <1>6, <1>7, <1>8, <1>9, <1>10, <1>11,
     <1>12, <1>13, <1>14, <1>15, <1>16, <1>17, <1>18, <1>19, <1>20, <1>21
     DEF HubNext, Step

(* Every step keeps the meaning of what a request offers. *)
LEMMA OfferNext ==
    HubTypeOK /\ OfferInv /\ StartInv /\ [HubNext]_hubVars => OfferInv'
<1> SUFFICES ASSUME HubTypeOK, OfferInv, StartInv, [HubNext]_hubVars PROVE OfferInv'
  OBVIOUS
<1> USE NoneAssumption, LaneAssumption, GroupAssumption, BoundAssumption
    DEF OptRequest, registryVars, entryVars, handlerVars, laneVars, connVars, boundVars, Before, Aggregated, Retirement
<1>1. ASSUME NEW r \in Requests, NEW g \in Groups, NEW l \in Lanes, NEW p \in OptRequest,
             Arrive(r, g, l, p)
      PROVE OfferInv'
  BY <1>1 DEF OfferInv, StartInv, Arrive
<1>2. ASSUME NEW r \in Requests, Refuse(r) PROVE OfferInv'
  BY <1>2 DEF OfferInv, Refuse
<1>3. ASSUME NEW r \in Requests, NEW ok \in BOOLEAN, Enter(r, ok) PROVE OfferInv'
  BY <1>3 DEF OfferInv, Enter
<1>4. ASSUME NEW r \in Requests, Attach(r) PROVE OfferInv'
  BY <1>4 DEF OfferInv, Attach
<1>5. ASSUME NEW r \in Requests, Abort(r) PROVE OfferInv'
  BY <1>5 DEF OfferInv, Abort
<1>6. ASSUME NEW r \in Requests, Install(r) PROVE OfferInv'
  BY <1>6 DEF OfferInv, Install
<1>7. ASSUME NEW r \in Requests, Commit(r) PROVE OfferInv'
  BY <1>7 DEF OfferInv, Commit
<1>8. ASSUME NEW r \in Requests, CommitFails(r) PROVE OfferInv'
  BY <1>8 DEF OfferInv, CommitFails
<1>9. ASSUME NEW r \in Requests, NEW w \in {"none", "unmarked", "open"}, InsertRow(r, w) PROVE OfferInv'
  BY <1>9 DEF OfferInv, InsertRow
<1>10. ASSUME NEW r \in Requests, Replace(r) PROVE OfferInv'
  BY <1>10 DEF OfferInv, Replace
<1>11. ASSUME NEW r \in Requests, Retire(r) PROVE OfferInv'
  BY <1>11 DEF OfferInv, Retire
<1>12. ASSUME NEW r \in Requests, Monitor(r) PROVE OfferInv'
  BY <1>12 DEF OfferInv, Monitor
<1>13. ASSUME NEW r \in Requests, NEW f \in BOOLEAN, NEW m \in BOOLEAN, Cleanup(r, f, m) PROVE OfferInv'
  BY <1>13 DEF OfferInv, Cleanup
<1>14. ASSUME NEW r \in Requests, WireDrop(r) PROVE OfferInv'
  BY <1>14 DEF OfferInv, WireDrop
<1>15. ASSUME RotateAgentToken PROVE OfferInv'
  BY <1>15 DEF OfferInv, RotateAgentToken
<1>16. ASSUME RevokeRotated PROVE OfferInv'
  BY <1>16 DEF OfferInv, RevokeRotated
<1>17. ASSUME RevokeForUpdate PROVE OfferInv'
  BY <1>17 DEF OfferInv, RevokeForUpdate
<1>18. ASSUME UpdateAgent PROVE OfferInv'
  BY <1>18 DEF OfferInv, UpdateAgent
<1>19. ASSUME DeleteAgent PROVE OfferInv'
  BY <1>19 DEF OfferInv, DeleteAgent
<1>20. ASSUME NEW f \in BOOLEAN, NEW m \in BOOLEAN, Restart(f, m) PROVE OfferInv'
  BY <1>20 DEF OfferInv, Restart
<1>21. CASE UNCHANGED hubVars
  BY <1>21 DEF OfferInv, hubVars
<1> QED
  BY <1>1, <1>2, <1>3, <1>4, <1>5, <1>6, <1>7, <1>8, <1>9, <1>10, <1>11,
     <1>12, <1>13, <1>14, <1>15, <1>16, <1>17, <1>18, <1>19, <1>20, <1>21
     DEF HubNext, Step

(* Every step keeps joined connections and the hub's connection published. *)
LEMMA JoinNext ==
    HubTypeOK /\ JoinInv /\ StartInv /\ HandlerInv /\ [HubNext]_hubVars => JoinInv'
<1> SUFFICES ASSUME HubTypeOK, JoinInv, StartInv, HandlerInv, [HubNext]_hubVars PROVE JoinInv'
  OBVIOUS
<1> USE NoneAssumption, LaneAssumption, GroupAssumption, BoundAssumption
    DEF OptRequest, registryVars, entryVars, handlerVars, laneVars, connVars, boundVars, Before, Published, Joined, Locked, Installed
<1>1. ASSUME NEW r \in Requests, NEW g \in Groups, NEW l \in Lanes, NEW p \in OptRequest,
             Arrive(r, g, l, p)
      PROVE JoinInv'
  BY <1>1 DEF JoinInv, Arrive
<1>2. ASSUME NEW r \in Requests, Refuse(r) PROVE JoinInv'
  BY <1>2 DEF JoinInv, Refuse
<1>3. ASSUME NEW r \in Requests, NEW ok \in BOOLEAN, Enter(r, ok) PROVE JoinInv'
  BY <1>3 DEF HubTypeOK, JoinInv, Enter
<1>4. ASSUME NEW r \in Requests, Attach(r) PROVE JoinInv'
  BY <1>4 DEF JoinInv, Attach
<1>5. ASSUME NEW r \in Requests, Abort(r) PROVE JoinInv'
  BY <1>5 DEF JoinInv, Abort
<1>6. ASSUME NEW r \in Requests, Install(r) PROVE JoinInv'
  BY <1>6 DEF JoinInv, Install
<1>7. ASSUME NEW r \in Requests, Commit(r) PROVE JoinInv'
  BY <1>7 DEF JoinInv, Commit
<1>8. ASSUME NEW r \in Requests, CommitFails(r) PROVE JoinInv'
  BY <1>8 DEF JoinInv, CommitFails
<1>9. ASSUME NEW r \in Requests, NEW w \in {"none", "unmarked", "open"}, InsertRow(r, w) PROVE JoinInv'
  BY <1>9 DEF JoinInv, InsertRow
<1>10. ASSUME NEW r \in Requests, Replace(r) PROVE JoinInv'
  BY <1>10 DEF HubTypeOK, JoinInv, HandlerInv, Replace
<1>11. ASSUME NEW r \in Requests, Retire(r) PROVE JoinInv'
  BY <1>11 DEF JoinInv, Retire
<1>12. ASSUME NEW r \in Requests, Monitor(r) PROVE JoinInv'
  BY <1>12 DEF JoinInv, Monitor
<1>13. ASSUME NEW r \in Requests, NEW f \in BOOLEAN, NEW m \in BOOLEAN, Cleanup(r, f, m) PROVE JoinInv'
  <2>1. CASE Last(r)
    BY <1>13, <2>1 DEF JoinInv, Cleanup, HubWithout
  <2>2. CASE ~Last(r)
    BY <1>13, <2>2 DEF JoinInv, Cleanup
  <2> QED
    BY <2>1, <2>2
<1>14. ASSUME NEW r \in Requests, WireDrop(r) PROVE JoinInv'
  BY <1>14 DEF JoinInv, WireDrop
<1>15. ASSUME RotateAgentToken PROVE JoinInv'
  BY <1>15 DEF JoinInv, RotateAgentToken
<1>16. ASSUME RevokeRotated PROVE JoinInv'
  BY <1>16 DEF JoinInv, RevokeRotated, Revoke
<1>17. ASSUME RevokeForUpdate PROVE JoinInv'
  BY <1>17 DEF JoinInv, RevokeForUpdate, Revoke
<1>18. ASSUME UpdateAgent PROVE JoinInv'
  BY <1>18 DEF JoinInv, UpdateAgent
<1>19. ASSUME DeleteAgent PROVE JoinInv'
  BY <1>19 DEF JoinInv, DeleteAgent
<1>20. ASSUME NEW f \in BOOLEAN, NEW m \in BOOLEAN, Restart(f, m) PROVE JoinInv'
  BY <1>20 DEF JoinInv, Restart
<1>21. CASE UNCHANGED hubVars
  BY <1>21 DEF JoinInv, hubVars
<1> QED
  BY <1>1, <1>2, <1>3, <1>4, <1>5, <1>6, <1>7, <1>8, <1>9, <1>10, <1>11,
     <1>12, <1>13, <1>14, <1>15, <1>16, <1>17, <1>18, <1>19, <1>20, <1>21
     DEF HubNext, Step

(* Every step keeps the lanes naming sessions of their own connection. *)
LEMMA LaneNext ==
    HubTypeOK /\ LaneInv /\ StartInv /\ HandlerInv /\ [HubNext]_hubVars => LaneInv'
<1> SUFFICES ASSUME HubTypeOK, LaneInv, StartInv, HandlerInv, [HubNext]_hubVars PROVE LaneInv'
  OBVIOUS
<1> USE NoneAssumption, LaneAssumption, GroupAssumption, BoundAssumption
    DEF OptRequest, registryVars, entryVars, handlerVars, laneVars, connVars, boundVars, Before
<1>1. ASSUME NEW r \in Requests, NEW g \in Groups, NEW l \in Lanes, NEW p \in OptRequest,
             Arrive(r, g, l, p)
      PROVE LaneInv'
  BY <1>1 DEF LaneInv, StartInv, Arrive
<1>2. ASSUME NEW r \in Requests, Refuse(r) PROVE LaneInv'
  BY <1>2 DEF LaneInv, Refuse
<1>3. ASSUME NEW r \in Requests, NEW ok \in BOOLEAN, Enter(r, ok) PROVE LaneInv'
  BY <1>3 DEF LaneInv, StartInv, Enter
<1>4. ASSUME NEW r \in Requests, Attach(r) PROVE LaneInv'
  BY <1>4 DEF LaneInv, Attach
<1>5. ASSUME NEW r \in Requests, Abort(r) PROVE LaneInv'
  BY <1>5 DEF LaneInv, Abort
<1>6. ASSUME NEW r \in Requests, Install(r) PROVE LaneInv'
  BY <1>6 DEF LaneInv, Install
<1>7. ASSUME NEW r \in Requests, Commit(r) PROVE LaneInv'
  BY <1>7 DEF LaneInv, Commit
<1>8. ASSUME NEW r \in Requests, CommitFails(r) PROVE LaneInv'
  BY <1>8 DEF LaneInv, CommitFails
<1>9. ASSUME NEW r \in Requests, NEW w \in {"none", "unmarked", "open"}, InsertRow(r, w) PROVE LaneInv'
  BY <1>9 DEF LaneInv, InsertRow
<1>10. ASSUME NEW r \in Requests, Replace(r) PROVE LaneInv'
  BY <1>10 DEF LaneInv, Replace
<1>11. ASSUME NEW r \in Requests, Retire(r) PROVE LaneInv'
  BY <1>11 DEF LaneInv, Retire
<1>12. ASSUME NEW r \in Requests, Monitor(r) PROVE LaneInv'
  BY <1>12 DEF LaneInv, Monitor
<1>13. ASSUME NEW r \in Requests, NEW f \in BOOLEAN, NEW m \in BOOLEAN, Cleanup(r, f, m) PROVE LaneInv'
  <2>1. conn[r] \in Requests /\ req[r].lane \in Lanes /\ tunnels[conn[r]] \in [Lanes -> OptRequest]
    BY <1>13 DEF HubTypeOK, HandlerInv, Cleanup
  <2>2. \A l \in Lanes : LanesWithout(r)[l] # None => LanesWithout(r)[l] = tunnels[conn[r]][l]
    BY <2>1 DEF LanesWithout
  <2>3. \A c \in Requests, l \in Lanes : tunnels'[c][l] # None => tunnels'[c][l] = tunnels[c][l]
    BY <1>13, <2>1, <2>2 DEF Cleanup
  <2> QED
    BY <1>13, <2>3 DEF LaneInv, Cleanup
<1>14. ASSUME NEW r \in Requests, WireDrop(r) PROVE LaneInv'
  BY <1>14 DEF LaneInv, WireDrop
<1>15. ASSUME RotateAgentToken PROVE LaneInv'
  BY <1>15 DEF LaneInv, RotateAgentToken
<1>16. ASSUME RevokeRotated PROVE LaneInv'
  BY <1>16 DEF LaneInv, RevokeRotated
<1>17. ASSUME RevokeForUpdate PROVE LaneInv'
  BY <1>17 DEF LaneInv, RevokeForUpdate
<1>18. ASSUME UpdateAgent PROVE LaneInv'
  BY <1>18 DEF LaneInv, UpdateAgent
<1>19. ASSUME DeleteAgent PROVE LaneInv'
  BY <1>19 DEF LaneInv, DeleteAgent
<1>20. ASSUME NEW f \in BOOLEAN, NEW m \in BOOLEAN, Restart(f, m) PROVE LaneInv'
  BY <1>20 DEF LaneInv, Restart, NoLanes
<1>21. CASE UNCHANGED hubVars
  BY <1>21 DEF LaneInv, hubVars
<1> QED
  BY <1>1, <1>2, <1>3, <1>4, <1>5, <1>6, <1>7, <1>8, <1>9, <1>10, <1>11,
     <1>12, <1>13, <1>14, <1>15, <1>16, <1>17, <1>18, <1>19, <1>20, <1>21
     DEF HubNext, Step

(* The credential of the handler that holds the auth lock does not age:    *)
(* rotation and deletion wait for the lock.                                *)
LEMMA TokenNext ==
    HubTypeOK /\ TokenInv /\ HandlerInv /\ [HubNext]_hubVars => TokenInv'
<1> SUFFICES ASSUME HubTypeOK, TokenInv, HandlerInv, [HubNext]_hubVars PROVE TokenInv'
  OBVIOUS
<1> USE NoneAssumption, LaneAssumption, GroupAssumption, BoundAssumption
    DEF OptRequest, registryVars, entryVars, handlerVars, laneVars, connVars, boundVars, Locked, Authenticates
<1>1. ASSUME NEW r \in Requests, NEW g \in Groups, NEW l \in Lanes, NEW p \in OptRequest,
             Arrive(r, g, l, p)
      PROVE TokenInv'
  BY <1>1 DEF TokenInv, Arrive
<1>2. ASSUME NEW r \in Requests, Refuse(r) PROVE TokenInv'
  BY <1>2 DEF TokenInv, Refuse
<1>3. ASSUME NEW r \in Requests, NEW ok \in BOOLEAN, Enter(r, ok) PROVE TokenInv'
  BY <1>3 DEF TokenInv, Enter
<1>4. ASSUME NEW r \in Requests, Attach(r) PROVE TokenInv'
  BY <1>4 DEF TokenInv, Attach
<1>5. ASSUME NEW r \in Requests, Abort(r) PROVE TokenInv'
  BY <1>5 DEF TokenInv, Abort
<1>6. ASSUME NEW r \in Requests, Install(r) PROVE TokenInv'
  BY <1>6 DEF TokenInv, HandlerInv, Install
<1>7. ASSUME NEW r \in Requests, Commit(r) PROVE TokenInv'
  BY <1>7 DEF TokenInv, Commit
<1>8. ASSUME NEW r \in Requests, CommitFails(r) PROVE TokenInv'
  BY <1>8 DEF TokenInv, CommitFails
<1>9. ASSUME NEW r \in Requests, NEW w \in {"none", "unmarked", "open"}, InsertRow(r, w) PROVE TokenInv'
  BY <1>9 DEF TokenInv, InsertRow
<1>10. ASSUME NEW r \in Requests, Replace(r) PROVE TokenInv'
  BY <1>10 DEF TokenInv, Replace
<1>11. ASSUME NEW r \in Requests, Retire(r) PROVE TokenInv'
  BY <1>11 DEF TokenInv, Retire
<1>12. ASSUME NEW r \in Requests, Monitor(r) PROVE TokenInv'
  BY <1>12 DEF TokenInv, Monitor
<1>13. ASSUME NEW r \in Requests, NEW f \in BOOLEAN, NEW m \in BOOLEAN, Cleanup(r, f, m) PROVE TokenInv'
  BY <1>13 DEF TokenInv, Cleanup
<1>14. ASSUME NEW r \in Requests, WireDrop(r) PROVE TokenInv'
  BY <1>14 DEF TokenInv, WireDrop
<1>15. ASSUME RotateAgentToken PROVE TokenInv'
  BY <1>15 DEF TokenInv, RotateAgentToken
<1>16. ASSUME RevokeRotated PROVE TokenInv'
  BY <1>16 DEF TokenInv, RevokeRotated
<1>17. ASSUME RevokeForUpdate PROVE TokenInv'
  BY <1>17 DEF TokenInv, RevokeForUpdate
<1>18. ASSUME UpdateAgent PROVE TokenInv'
  BY <1>18 DEF TokenInv, UpdateAgent
<1>19. ASSUME DeleteAgent PROVE TokenInv'
  BY <1>19 DEF TokenInv, DeleteAgent, Deletable
<1>20. ASSUME NEW f \in BOOLEAN, NEW m \in BOOLEAN, Restart(f, m) PROVE TokenInv'
  BY <1>20 DEF TokenInv, Restart
<1>21. CASE UNCHANGED hubVars
  BY <1>21 DEF TokenInv, hubVars
<1> QED
  BY <1>1, <1>2, <1>3, <1>4, <1>5, <1>6, <1>7, <1>8, <1>9, <1>10, <1>11,
     <1>12, <1>13, <1>14, <1>15, <1>16, <1>17, <1>18, <1>19, <1>20, <1>21
     DEF HubNext, Step

(* Every step keeps the database's view of a connection being published. *)
LEMMA RecordNext ==
    HubTypeOK /\ RecordInv /\ StartInv /\ HandlerInv /\ JoinInv /\ [HubNext]_hubVars => RecordInv'
<1> SUFFICES ASSUME HubTypeOK, RecordInv, StartInv, HandlerInv, JoinInv, [HubNext]_hubVars PROVE RecordInv'
  OBVIOUS
<1> USE NoneAssumption, LaneAssumption, GroupAssumption, BoundAssumption
    DEF OptRequest, registryVars, entryVars, handlerVars, laneVars, connVars, boundVars, Before, Locked, Published, SeenAfterCleanup, HubWithout
<1>1. ASSUME NEW r \in Requests, NEW g \in Groups, NEW l \in Lanes, NEW p \in OptRequest,
             Arrive(r, g, l, p)
      PROVE RecordInv'
  BY <1>1 DEF RecordInv, Arrive
<1>2. ASSUME NEW r \in Requests, Refuse(r) PROVE RecordInv'
  BY <1>2 DEF RecordInv, Refuse
<1>3. ASSUME NEW r \in Requests, NEW ok \in BOOLEAN, Enter(r, ok) PROVE RecordInv'
  BY <1>3 DEF RecordInv, StartInv, JoinInv, Enter
<1>4. ASSUME NEW r \in Requests, Attach(r) PROVE RecordInv'
  BY <1>4 DEF RecordInv, Attach
<1>5. ASSUME NEW r \in Requests, Abort(r) PROVE RecordInv'
  BY <1>5 DEF RecordInv, Abort
<1>6. ASSUME NEW r \in Requests, Install(r) PROVE RecordInv'
  BY <1>6 DEF RecordInv, Install
<1>7. ASSUME NEW r \in Requests, Commit(r) PROVE RecordInv'
  BY <1>7 DEF RecordInv, Commit
<1>8. ASSUME NEW r \in Requests, CommitFails(r) PROVE RecordInv'
  BY <1>8 DEF RecordInv, CommitFails
<1>9. ASSUME NEW r \in Requests, NEW w \in {"none", "unmarked", "open"}, InsertRow(r, w) PROVE RecordInv'
  BY <1>9 DEF HubTypeOK, RecordInv, InsertRow
<1>10. ASSUME NEW r \in Requests, Replace(r) PROVE RecordInv'
  BY <1>10 DEF RecordInv, Replace
<1>11. ASSUME NEW r \in Requests, Retire(r) PROVE RecordInv'
  BY <1>11 DEF RecordInv, Retire
<1>12. ASSUME NEW r \in Requests, Monitor(r) PROVE RecordInv'
  BY <1>12 DEF RecordInv, Monitor
<1>13. ASSUME NEW r \in Requests, NEW f \in BOOLEAN, NEW m \in BOOLEAN, Cleanup(r, f, m) PROVE RecordInv'
  BY <1>13 DEF RecordInv, HandlerInv, Cleanup
<1>14. ASSUME NEW r \in Requests, WireDrop(r) PROVE RecordInv'
  BY <1>14 DEF RecordInv, WireDrop
<1>15. ASSUME RotateAgentToken PROVE RecordInv'
  BY <1>15 DEF RecordInv, RotateAgentToken
<1>16. ASSUME RevokeRotated PROVE RecordInv'
  BY <1>16 DEF RecordInv, HandlerInv, RevokeRotated
<1>17. ASSUME RevokeForUpdate PROVE RecordInv'
  BY <1>17 DEF RecordInv, RevokeForUpdate, Revoke
<1>18. ASSUME UpdateAgent PROVE RecordInv'
  BY <1>18 DEF RecordInv, UpdateAgent
<1>19. ASSUME DeleteAgent PROVE RecordInv'
  BY <1>19 DEF RecordInv, DeleteAgent
<1>20. ASSUME NEW f \in BOOLEAN, NEW m \in BOOLEAN, Restart(f, m) PROVE RecordInv'
  BY <1>20 DEF RecordInv, Restart, RowAfterCleanup
<1>21. CASE UNCHANGED hubVars
  BY <1>21 DEF RecordInv, hubVars
<1> QED
  BY <1>1, <1>2, <1>3, <1>4, <1>5, <1>6, <1>7, <1>8, <1>9, <1>10, <1>11,
     <1>12, <1>13, <1>14, <1>15, <1>16, <1>17, <1>18, <1>19, <1>20, <1>21
     DEF HubNext, Step

(* Every step leaves what remains of a connection to somebody who will     *)
(* clean it up, or marks the connection unwatched.                         *)
LEMMA ResidueNext ==
    HubTypeOK /\ ResidueInv /\ StartInv /\ HandlerInv /\ OfferInv /\ JoinInv /\ LaneInv /\ RecordInv /\ [HubNext]_hubVars => ResidueInv'
<1> SUFFICES ASSUME HubTypeOK, ResidueInv, StartInv, HandlerInv, OfferInv, JoinInv, LaneInv, RecordInv, [HubNext]_hubVars PROVE ResidueInv'
  OBVIOUS
<1> USE NoneAssumption, LaneAssumption, GroupAssumption, BoundAssumption
    DEF OptRequest, registryVars, entryVars, handlerVars, laneVars, connVars, boundVars, Before, Locked, Published, Installed, Residue, RowOpen, Watching
<1>1. ASSUME NEW r \in Requests, NEW g \in Groups, NEW l \in Lanes, NEW p \in OptRequest,
             Arrive(r, g, l, p)
      PROVE ResidueInv'
  BY <1>1 DEF ResidueInv, StartInv, Arrive
<1>2. ASSUME NEW r \in Requests, Refuse(r) PROVE ResidueInv'
  BY <1>2 DEF ResidueInv, Refuse
<1>3. ASSUME NEW r \in Requests, NEW ok \in BOOLEAN, Enter(r, ok) PROVE ResidueInv'
  <2>1. pc[r] = "authenticated" /\ UNCHANGED <<hub, registered, dbRow, unwatched>>
    BY <1>3 DEF Enter
  <2>2. authLock' \in {r, None} /\ \A o \in Requests \ {r} : pc'[o] = pc[o] /\ conn'[o] = conn[o]
    BY <1>3 DEF Enter
  <2>3. ~Residue(r)
    BY <2>1 DEF StartInv, JoinInv
  <2> SUFFICES ASSUME NEW c \in Requests, Residue(c), c # r, ~unwatched[c],
                      pc[c] \notin {"owned", "attached"}
               PROVE  conn'[c] = c /\ \E x \in Requests : Watching(x, c)' /\ (authLock' = x => x = c)
    BY <2>1, <2>2, <2>3 DEF ResidueInv
  <2>4. PICK x \in Requests : Watching(x, c)
    BY DEF ResidueInv
  <2>5. x # r
    BY <2>1, <2>4
  <2> QED
    BY <2>2, <2>4, <2>5 DEF ResidueInv
<1>4. ASSUME NEW r \in Requests, Attach(r) PROVE ResidueInv'
  BY <1>4 DEF HubTypeOK, ResidueInv, HandlerInv, Attach
<1>5. ASSUME NEW r \in Requests, Abort(r) PROVE ResidueInv'
  BY <1>5 DEF HubTypeOK, ResidueInv, HandlerInv, RecordInv, Abort
<1>6. ASSUME NEW r \in Requests, Install(r) PROVE ResidueInv'
  BY <1>6 DEF ResidueInv, LaneInv, RecordInv, Install
<1>7. ASSUME NEW r \in Requests, Commit(r) PROVE ResidueInv'
  <2>1. UNCHANGED <<hub, registered, dbRow, conn, unwatched>> /\ pc[r] = "commit"
    BY <1>7 DEF Commit
  <2>2. /\ authLock' \in {authLock, None}
        /\ pc'[r] = "monitor" /\ \A o \in Requests \ {r} : pc'[o] = pc[o]
    BY <1>7 DEF HubTypeOK, Commit
  <2>3. \A x, c \in Requests : Watching(x, c) /\ (authLock = x => x = c) =>
            Watching(x, c)' /\ (authLock' = x => x = c)
    BY <2>1, <2>2
  <2> QED
    BY <2>1, <2>2, <2>3 DEF ResidueInv
<1>8. ASSUME NEW r \in Requests, CommitFails(r) PROVE ResidueInv'
  <2>1. UNCHANGED <<hub, registered, dbRow, conn>> /\ pc[r] = "commit" /\ conn[r] \in Requests
    BY <1>8 DEF CommitFails, HandlerInv
  <2>2. /\ \A o \in Requests \ {r} : pc'[o] = pc[o]
        /\ \A c \in Requests : unwatched'[c] = (unwatched[c] \/ (c = conn[r] /\ authLock # r))
        /\ authLock' = IF authLock = r THEN None ELSE authLock
    BY <1>8, <2>1 DEF HubTypeOK, CommitFails
  <2>3. conn[r] # r
    BY <2>1 DEF OfferInv, Retirement
  <2> SUFFICES ASSUME NEW c \in Requests, Residue(c), ~unwatched'[c],
                      pc[c] \notin {"owned", "attached"}
               PROVE  \E x \in Requests : Watching(x, c)' /\ (authLock' = x => x = c)
    BY <2>1, <2>2 DEF ResidueInv
  <2>4. PICK x \in Requests : Watching(x, c) /\ (authLock = x => x = c)
    BY <2>2 DEF ResidueInv
  <2>5. x # r
    <3> SUFFICES ASSUME x = r PROVE FALSE
      OBVIOUS
    <3>1. c = conn[r] /\ authLock # r
      BY <2>3, <2>4
    <3> QED
      BY <2>2, <3>1
  <2> QED
    BY <2>1, <2>2, <2>4, <2>5
<1>9. ASSUME NEW r \in Requests, NEW w \in {"none", "unmarked", "open"}, InsertRow(r, w) PROVE ResidueInv'
  BY <1>9 DEF ResidueInv, HandlerInv, InsertRow
<1>10. ASSUME NEW r \in Requests, Replace(r) PROVE ResidueInv'
  BY <1>10 DEF ResidueInv, HandlerInv, Replace
<1>11. ASSUME NEW r \in Requests, Retire(r) PROVE ResidueInv'
  <2>1. /\ pc[r] = "retire" /\ pc' = [pc EXCEPT ![r] = "monitor"] /\ authLock' = None
        /\ UNCHANGED <<hub, conn, dbRow, unwatched>>
    BY <1>11 DEF Retire
  <2>2. \A c \in Requests : registered'[c] => registered[c]
    BY <1>11 DEF HubTypeOK, Retire
  <2>3. \A c \in Requests : Residue(c)' => Residue(c)
    BY <2>1, <2>2
  <2>4. \A x, c \in Requests : Watching(x, c) => Watching(x, c)' /\ authLock' # x
    BY <2>1 DEF HubTypeOK
  <2>5. \A c \in Requests : pc[c] \in {"owned", "attached"} => pc'[c] \in {"owned", "attached"}
    BY <2>1 DEF HubTypeOK
  <2> HIDE DEF Residue, Watching
  <2> QED
    BY <2>1, <2>3, <2>4, <2>5 DEF ResidueInv
<1>12. ASSUME NEW r \in Requests, Monitor(r) PROVE ResidueInv'
  BY <1>12 DEF ResidueInv, Monitor
<1>13. ASSUME NEW r \in Requests, NEW f \in BOOLEAN, NEW m \in BOOLEAN, Cleanup(r, f, m) PROVE ResidueInv'
  <2>0. PICK d \in Requests : d = conn[r]
    BY <1>13 DEF Cleanup, HandlerInv
  <2>1. /\ pc[r] = "cleanup" /\ authLock = None
        /\ \A o \in Requests \ {r} : pc'[o] = pc[o]
        /\ UNCHANGED <<authLock, conn, unwatched>>
    BY <1>13 DEF Cleanup
  <2>2. ASSUME NEW c \in Requests, Residue(c), c # d
        PROVE  /\ conn'[c] = c
               /\ \/ unwatched'[c]
                  \/ pc'[c] \in {"owned", "attached"}
                  \/ \E x \in Requests : Watching(x, c)' /\ (authLock' = x => x = c)
    <3>1. conn[c] = c /\ (unwatched[c] \/ \E x \in Requests : Watching(x, c))
      BY <2>1, <2>2 DEF ResidueInv, HandlerInv, HandlerInv
    <3>2. \A x \in Requests : Watching(x, c) => Watching(x, c)'
      BY <2>0, <2>1, <2>2
    <3> QED
      BY <2>1, <3>1, <3>2
  <2>3. CASE Last(r)
    <3>1. /\ hub' = HubWithout(d)
          /\ registered' = [registered EXCEPT ![d] = FALSE]
          /\ ~RowOpen(d)' /\ \A c \in Requests \ {d} : dbRow'[c] = dbRow[c]
      BY <1>13, <2>0, <2>3 DEF HubTypeOK, Cleanup, RowAfterCleanup
    <3>2. ~Residue(d)'
      BY <2>1, <3>1 DEF HubTypeOK, HubWithout
    <3>3. \A c \in Requests : Residue(c)' => Residue(c)
      BY <2>1, <3>1, <3>2 DEF HubWithout
    <3> HIDE DEF Residue, Watching
    <3> QED
      BY <2>2, <3>2, <3>3 DEF ResidueInv
  <2>4. CASE ~Last(r)
    <3>1. UNCHANGED <<hub, registered, dbRow>>
      BY <1>13, <2>4 DEF Cleanup
    <3>2. PICK x \in Requests : conn[x] = d /\ (alive[x] \/ Live(owner[x]))
      <4>1. CASE Owned(d) # {}
        BY <4>1 DEF Owned
      <4>2. CASE Owned(d) = {}
        <5>1. PICK l \in Lanes : LanesWithout(r)[l] # None /\ alive[LanesWithout(r)[l]]
          BY <2>0, <2>4, <4>2 DEF Last
        <5>2. tunnels[d] \in [Lanes -> OptRequest] /\ req[r].lane \in Lanes
          BY <2>0 DEF HubTypeOK
        <5>3. tunnels[d][l] = LanesWithout(r)[l] /\ tunnels[d][l] \in Requests
          BY <2>0, <5>1, <5>2 DEF LanesWithout
        <5>4. conn[tunnels[d][l]] = d
          BY <2>1, <5>1, <5>3 DEF LaneInv
        <5> QED
          BY <5>1, <5>3, <5>4
      <4> QED
        BY <4>1, <4>2
    <3>3. pc[x] \in Installed
      BY <2>1, <3>2 DEF HandlerInv
    <3>4. x # r /\ Watching(x, d)' /\ authLock' # x
      BY <2>1, <3>2, <3>3
    <3>5. Residue(d) => conn[d] = d
      BY <2>1 DEF ResidueInv
    <3>6. \A c \in Requests : Residue(c)' <=> Residue(c)
      BY <3>1
    <3>7. ASSUME NEW c \in Requests, Residue(c)
          PROVE  /\ conn'[c] = c
                 /\ \/ unwatched'[c]
                    \/ pc'[c] \in {"owned", "attached"}
                    \/ \E y \in Requests : Watching(y, c)' /\ (authLock' = y => y = c)
      <4>1. CASE c = d
        BY <2>1, <3>4, <3>5, <3>7, <4>1
      <4>2. CASE c # d
        BY <2>2, <3>7, <4>2
      <4> QED
        BY <4>1, <4>2
    <3> HIDE DEF Residue, Watching
    <3> QED
      BY <3>6, <3>7 DEF ResidueInv
  <2> QED
    BY <2>3, <2>4
<1>14. ASSUME NEW r \in Requests, WireDrop(r) PROVE ResidueInv'
  BY <1>14 DEF ResidueInv, WireDrop
<1>15. ASSUME RotateAgentToken PROVE ResidueInv'
  BY <1>15 DEF ResidueInv, RotateAgentToken
<1>16. ASSUME RevokeRotated PROVE ResidueInv'
  BY <1>16 DEF HubTypeOK, ResidueInv, RevokeRotated, Revoke
<1>17. ASSUME RevokeForUpdate PROVE ResidueInv'
  BY <1>17 DEF HubTypeOK, ResidueInv, RevokeForUpdate, Revoke
<1>18. ASSUME UpdateAgent PROVE ResidueInv'
  BY <1>18 DEF ResidueInv, UpdateAgent
<1>19. ASSUME DeleteAgent PROVE ResidueInv'
  BY <1>19 DEF ResidueInv, DeleteAgent
<1>20. ASSUME NEW f \in BOOLEAN, NEW m \in BOOLEAN, Restart(f, m) PROVE ResidueInv'
  BY <1>20 DEF ResidueInv, Restart, RowAfterCleanup
<1>21. CASE UNCHANGED hubVars
  BY <1>21 DEF ResidueInv, hubVars
<1> QED
  BY <1>1, <1>2, <1>3, <1>4, <1>5, <1>6, <1>7, <1>8, <1>9, <1>10, <1>11,
     <1>12, <1>13, <1>14, <1>15, <1>16, <1>17, <1>18, <1>19, <1>20, <1>21
     DEF HubNext, Step

(* Every step keeps CredentialsCurrent. *)
LEMMA CredentialsNext ==
    HubTypeOK /\ CredentialsCurrent /\ HandlerInv /\ JoinInv /\ LaneInv /\ TokenInv /\ [HubNext]_hubVars => CredentialsCurrent'
<1> SUFFICES ASSUME HubTypeOK, CredentialsCurrent, HandlerInv, JoinInv, LaneInv, TokenInv, [HubNext]_hubVars PROVE CredentialsCurrent'
  OBVIOUS
<1> USE NoneAssumption, LaneAssumption, GroupAssumption, BoundAssumption
    DEF OptRequest, registryVars, entryVars, handlerVars, laneVars, connVars, boundVars, Published, Locked
<1>1. ASSUME NEW r \in Requests, NEW g \in Groups, NEW l \in Lanes, NEW p \in OptRequest,
             Arrive(r, g, l, p)
      PROVE CredentialsCurrent'
  BY <1>1 DEF HubTypeOK, CredentialsCurrent, Arrive
<1>2. ASSUME NEW r \in Requests, Refuse(r) PROVE CredentialsCurrent'
  BY <1>2 DEF CredentialsCurrent, Refuse
<1>3. ASSUME NEW r \in Requests, NEW ok \in BOOLEAN, Enter(r, ok) PROVE CredentialsCurrent'
  BY <1>3 DEF CredentialsCurrent, Enter
<1>4. ASSUME NEW r \in Requests, Attach(r) PROVE CredentialsCurrent'
  BY <1>4 DEF CredentialsCurrent, Attach
<1>5. ASSUME NEW r \in Requests, Abort(r) PROVE CredentialsCurrent'
  BY <1>5 DEF CredentialsCurrent, HandlerInv, Abort
<1>6. ASSUME NEW r \in Requests, Install(r) PROVE CredentialsCurrent'
  BY <1>6 DEF CredentialsCurrent, HandlerInv, TokenInv, Install
<1>7. ASSUME NEW r \in Requests, Commit(r) PROVE CredentialsCurrent'
  BY <1>7 DEF CredentialsCurrent, Commit
<1>8. ASSUME NEW r \in Requests, CommitFails(r) PROVE CredentialsCurrent'
  BY <1>8 DEF CredentialsCurrent, CommitFails
<1>9. ASSUME NEW r \in Requests, NEW w \in {"none", "unmarked", "open"}, InsertRow(r, w) PROVE CredentialsCurrent'
  BY <1>9 DEF CredentialsCurrent, InsertRow
<1>10. ASSUME NEW r \in Requests, Replace(r) PROVE CredentialsCurrent'
  <2>1. hub' = r /\ pc[r] = "replace" /\ UNCHANGED <<row, token, req, tunnels>>
    BY <1>10 DEF Replace
  <2>2. authLock = r /\ row # "deleted" /\ req[r].token = token
    BY <2>1 DEF HandlerInv, TokenInv
  <2>3. ASSUME NEW l \in Lanes, tunnels[r][l] # None PROVE tunnels[r][l] = r
    <3>1. tunnels[r][l] \in Requests /\ conn[tunnels[r][l]] = r
      BY <2>3 DEF HubTypeOK, LaneInv
    <3> QED
      BY <2>1, <3>1 DEF JoinInv
  <2> QED
    BY <2>1, <2>2, <2>3 DEF CredentialsCurrent
<1>11. ASSUME NEW r \in Requests, Retire(r) PROVE CredentialsCurrent'
  BY <1>11 DEF CredentialsCurrent, HandlerInv, Retire
<1>12. ASSUME NEW r \in Requests, Monitor(r) PROVE CredentialsCurrent'
  BY <1>12 DEF CredentialsCurrent, Monitor
<1>13. ASSUME NEW r \in Requests, NEW f \in BOOLEAN, NEW m \in BOOLEAN, Cleanup(r, f, m) PROVE CredentialsCurrent'
  <2>1. /\ hub' \in {hub, None}
        /\ UNCHANGED <<row, token, req, authLock>>
        /\ tunnels' = [tunnels EXCEPT ![conn[r]] = LanesWithout(r)]
        /\ conn[r] \in Requests
    BY <1>13 DEF Cleanup, HubWithout, HandlerInv, Before
  <2>2. tunnels[conn[r]] \in [Lanes -> OptRequest] /\ req[r].lane \in Lanes
    BY <2>1 DEF HubTypeOK
  <2>3. \A l \in Lanes : LanesWithout(r)[l] # None => LanesWithout(r)[l] = tunnels[conn[r]][l]
    BY <2>2 DEF LanesWithout
  <2>4. \A c \in Requests, l \in Lanes : tunnels'[c][l] # None => tunnels'[c][l] = tunnels[c][l]
    BY <2>1, <2>3
  <2> QED
    BY <2>1, <2>4 DEF HubTypeOK, CredentialsCurrent
<1>14. ASSUME NEW r \in Requests, WireDrop(r) PROVE CredentialsCurrent'
  BY <1>14 DEF CredentialsCurrent, WireDrop
<1>15. ASSUME RotateAgentToken PROVE CredentialsCurrent'
  BY <1>15 DEF CredentialsCurrent, RotateAgentToken
<1>16. ASSUME RevokeRotated PROVE CredentialsCurrent'
  BY <1>16 DEF CredentialsCurrent, RevokeRotated, Revoke
<1>17. ASSUME RevokeForUpdate PROVE CredentialsCurrent'
  BY <1>17 DEF CredentialsCurrent, RevokeForUpdate, Revoke
<1>18. ASSUME UpdateAgent PROVE CredentialsCurrent'
  BY <1>18 DEF CredentialsCurrent, UpdateAgent
<1>19. ASSUME DeleteAgent PROVE CredentialsCurrent'
  BY <1>19 DEF CredentialsCurrent, DeleteAgent, Deletable
<1>20. ASSUME NEW f \in BOOLEAN, NEW m \in BOOLEAN, Restart(f, m) PROVE CredentialsCurrent'
  BY <1>20 DEF CredentialsCurrent, Restart
<1>21. CASE UNCHANGED hubVars
  BY <1>21 DEF CredentialsCurrent, hubVars
<1> QED
  BY <1>1, <1>2, <1>3, <1>4, <1>5, <1>6, <1>7, <1>8, <1>9, <1>10, <1>11,
     <1>12, <1>13, <1>14, <1>15, <1>16, <1>17, <1>18, <1>19, <1>20, <1>21
     DEF HubNext, Step

(* Every step keeps ConnectedIsRecorded. *)
LEMMA RecordedNext ==
    HubTypeOK /\ ConnectedIsRecorded /\ RecordInv /\ HandlerInv /\ JoinInv /\ [HubNext]_hubVars => ConnectedIsRecorded'
<1> SUFFICES ASSUME HubTypeOK, ConnectedIsRecorded, RecordInv, HandlerInv, JoinInv, [HubNext]_hubVars PROVE ConnectedIsRecorded'
  OBVIOUS
<1> USE NoneAssumption, LaneAssumption, GroupAssumption, BoundAssumption
    DEF OptRequest, registryVars, entryVars, handlerVars, laneVars, connVars, boundVars, Locked, HubWithout, SeenAfterCleanup
<1>1. ASSUME NEW r \in Requests, NEW g \in Groups, NEW l \in Lanes, NEW p \in OptRequest,
             Arrive(r, g, l, p)
      PROVE ConnectedIsRecorded'
  BY <1>1 DEF ConnectedIsRecorded, Arrive
<1>2. ASSUME NEW r \in Requests, Refuse(r) PROVE ConnectedIsRecorded'
  BY <1>2 DEF ConnectedIsRecorded, Refuse
<1>3. ASSUME NEW r \in Requests, NEW ok \in BOOLEAN, Enter(r, ok) PROVE ConnectedIsRecorded'
  BY <1>3 DEF ConnectedIsRecorded, Enter
<1>4. ASSUME NEW r \in Requests, Attach(r) PROVE ConnectedIsRecorded'
  BY <1>4 DEF ConnectedIsRecorded, Attach
<1>5. ASSUME NEW r \in Requests, Abort(r) PROVE ConnectedIsRecorded'
  BY <1>5 DEF ConnectedIsRecorded, Abort
<1>6. ASSUME NEW r \in Requests, Install(r) PROVE ConnectedIsRecorded'
  BY <1>6 DEF ConnectedIsRecorded, Install
<1>7. ASSUME NEW r \in Requests, Commit(r) PROVE ConnectedIsRecorded'
  BY <1>7 DEF ConnectedIsRecorded, Commit
<1>8. ASSUME NEW r \in Requests, CommitFails(r) PROVE ConnectedIsRecorded'
  BY <1>8 DEF ConnectedIsRecorded, CommitFails
<1>9. ASSUME NEW r \in Requests, NEW w \in {"none", "unmarked", "open"}, InsertRow(r, w) PROVE ConnectedIsRecorded'
  BY <1>9 DEF ConnectedIsRecorded, InsertRow
<1>10. ASSUME NEW r \in Requests, Replace(r) PROVE ConnectedIsRecorded'
  BY <1>10 DEF ConnectedIsRecorded, RecordInv, Replace
<1>11. ASSUME NEW r \in Requests, Retire(r) PROVE ConnectedIsRecorded'
  BY <1>11 DEF ConnectedIsRecorded, Retire
<1>12. ASSUME NEW r \in Requests, Monitor(r) PROVE ConnectedIsRecorded'
  BY <1>12 DEF ConnectedIsRecorded, Monitor
<1>13. ASSUME NEW r \in Requests, NEW f \in BOOLEAN, NEW m \in BOOLEAN, Cleanup(r, f, m) PROVE ConnectedIsRecorded'
  BY <1>13 DEF HubTypeOK, ConnectedIsRecorded, Cleanup
<1>14. ASSUME NEW r \in Requests, WireDrop(r) PROVE ConnectedIsRecorded'
  BY <1>14 DEF ConnectedIsRecorded, WireDrop
<1>15. ASSUME RotateAgentToken PROVE ConnectedIsRecorded'
  BY <1>15 DEF ConnectedIsRecorded, RotateAgentToken
<1>16. ASSUME RevokeRotated PROVE ConnectedIsRecorded'
  BY <1>16 DEF ConnectedIsRecorded, RevokeRotated, Revoke
<1>17. ASSUME RevokeForUpdate PROVE ConnectedIsRecorded'
  BY <1>17 DEF ConnectedIsRecorded, RevokeForUpdate, Revoke
<1>18. ASSUME UpdateAgent PROVE ConnectedIsRecorded'
  BY <1>18 DEF ConnectedIsRecorded, UpdateAgent
<1>19. ASSUME DeleteAgent PROVE ConnectedIsRecorded'
  BY <1>19 DEF ConnectedIsRecorded, DeleteAgent
<1>20. ASSUME NEW f \in BOOLEAN, NEW m \in BOOLEAN, Restart(f, m) PROVE ConnectedIsRecorded'
  BY <1>20 DEF ConnectedIsRecorded, Restart
<1>21. CASE UNCHANGED hubVars
  BY <1>21 DEF ConnectedIsRecorded, hubVars
<1> QED
  BY <1>1, <1>2, <1>3, <1>4, <1>5, <1>6, <1>7, <1>8, <1>9, <1>10, <1>11,
     <1>12, <1>13, <1>14, <1>15, <1>16, <1>17, <1>18, <1>19, <1>20, <1>21
     DEF HubNext, Step


(* Every step keeps the invariant. *)
LEMMA HubInvNext == HubInv /\ [HubNext]_hubVars => HubInv'
  BY TypeNext, StartNext, HandlerNext, OfferNext, JoinNext, LaneNext, TokenNext, RecordNext,
     ResidueNext, CredentialsNext, RecordedNext
     DEF HubInv

-----------------------------------------------------------------------------
(* Theorems.                                                               *)

(* The inductive invariant holds throughout. *)
THEOREM HubInvHolds == HubSpec => []HubInv
  BY HubInvInit, HubInvNext, PTL DEF HubSpec

(* The handler, the hub, the lanes and the database rows stay well formed. *)
THEOREM HubTypeCorrect == HubSpec => []HubTypeOK
<1>1. HubInv => HubTypeOK
  BY DEF HubInv
<1> QED
  BY <1>1, HubInvHolds, PTL

(* No interleaving of upgrades with rotations, deletions and revocations   *)
(* puts a connection or a lane of an old credential into the hub.          *)
THEOREM HubCredentialsCurrent == HubSpec => []CredentialsCurrent
<1>1. HubInv => CredentialsCurrent
  BY DEF HubInv
<1> QED
  BY <1>1, HubInvHolds, PTL

(* The side effects of a displaced connection's end are never recorded     *)
(* after its successor's connection.                                       *)
THEOREM HubConnectedIsRecorded == HubSpec => []ConnectedIsRecorded
<1>1. HubInv => ConnectedIsRecorded
  BY DEF HubInv
<1> QED
  BY <1>1, HubInvHolds, PTL

(* A connection whose handlers and monitors have all ended leaves no hub   *)
(* entry, registration, open row, session or owner, unless a handoff       *)
(* failed after it released the auth lock.                                 *)
THEOREM HubNothingLeftBehind == HubSpec => []NothingLeftBehind
<1>1. HubInv => NothingLeftBehind
  <2> SUFFICES ASSUME HubInv,
                      NEW c \in Requests, Idle(c), ~unwatched[c]
               PROVE  /\ ~Residue(c)
                      /\ \A r \in Requests : conn[r] = c => ~alive[r] /\ ~Live(owner[r])
    BY DEF NothingLeftBehind, Residue
  <2>1. \A r \in Requests : conn[r] = c => pc[r] = "done"
    BY DEF Idle
  <2>2. ~Residue(c)
    BY <2>1 DEF HubInv, ResidueInv, Watching, Installed
  <2>3. \A r \in Requests : conn[r] = c => ~alive[r] /\ ~Live(owner[r])
    BY <2>1 DEF HubInv, HandlerInv, Installed
  <2> QED
    BY <2>2, <2>3
<1> QED
  BY <1>1, HubInvHolds, PTL

(* The hub loses an entry without a successor only when the connection it  *)
(* named is done, or the server restarts.                                  *)
THEOREM HubLeavesWhenDone == HubSpec => LeavesHubWhenDone
<1> DEFINE Leaves == hub # None /\ hub' = None => done'[hub] \/ restarts' # restarts
<1>1. HubInv /\ [HubNext]_hubVars => [Leaves]_hubVars
  <2> SUFFICES ASSUME HubInv, HubNext, hub # None, hub' = None
               PROVE  done'[hub] \/ restarts' # restarts
    OBVIOUS
  <2> USE DEF registryVars, entryVars, handlerVars, laneVars, connVars, boundVars
  <2>0. hub \in Requests /\ done \in [Requests -> BOOLEAN] /\ restarts \in Nat
    BY BoundAssumption DEF HubInv, HubTypeOK, OptRequest
  <2>1. ASSUME NEW r \in Requests, NEW f \in BOOLEAN, NEW m \in BOOLEAN, Cleanup(r, f, m) PROVE done'[hub]
    <3>1. Last(r) /\ hub = conn[r]
      BY <2>1 DEF Cleanup, HubWithout
    <3> QED
      BY <2>0, <2>1, <3>1 DEF Cleanup, SignalDone
  <2>2. ASSUME NEW r \in Requests, Replace(r) PROVE FALSE
    BY <2>2, NoneAssumption DEF Replace
  <2>3. CASE RevokeRotated
    BY <2>0, <2>3 DEF RevokeRotated, Revoke, SignalDone
  <2>4. CASE RevokeForUpdate
    BY <2>0, <2>4 DEF RevokeForUpdate, Revoke, SignalDone
  <2>5. ASSUME NEW f \in BOOLEAN, NEW m \in BOOLEAN, Restart(f, m) PROVE restarts' # restarts
    BY <2>0, <2>5 DEF Restart
  <2>6. ASSUME NEW r \in Requests,
               \/ Refuse(r) \/ Attach(r) \/ Abort(r) \/ Install(r) \/ Commit(r) \/ CommitFails(r)
               \/ Retire(r) \/ Monitor(r) \/ WireDrop(r)
        PROVE  FALSE
    BY <2>6 DEF Refuse, Attach, Abort, Install, Commit, CommitFails, Retire, Monitor, WireDrop
  <2>7. ASSUME NEW r \in Requests, NEW ok \in BOOLEAN, Enter(r, ok) PROVE FALSE
    BY <2>7 DEF Enter
  <2>10. ASSUME NEW r \in Requests, NEW w \in {"none", "unmarked", "open"}, InsertRow(r, w) PROVE FALSE
    BY <2>10 DEF InsertRow
  <2>8. ASSUME NEW r \in Requests, NEW g \in Groups, NEW l \in Lanes, NEW p \in OptRequest,
               Arrive(r, g, l, p)
        PROVE  FALSE
    BY <2>8 DEF Arrive
  <2>9. CASE RotateAgentToken \/ UpdateAgent \/ DeleteAgent
    BY <2>9 DEF RotateAgentToken, UpdateAgent, DeleteAgent
  <2> QED
    BY <2>1, <2>2, <2>3, <2>4, <2>5, <2>6, <2>7, <2>8, <2>9, <2>10 DEF HubNext, Step
<1> QED
  BY <1>1, HubInvHolds, PTL DEF HubSpec, LeavesHubWhenDone
=============================================================================
