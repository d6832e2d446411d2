---------------------------- MODULE MCConnections ---------------------------
(***************************************************************************)
(* The agent's connection, the handoff of a lane and the health of a       *)
(* target in one run.  A behaviour is a behaviour of one of them, chosen   *)
(* in the initial state; the others stay as they began.                    *)
(***************************************************************************)
EXTENDS AgentHub, TargetHealth, LaneHandoff, TLC

CONSTANTS r1, r2, r3, ga, gl, a1, h1, h2, h3

VARIABLE part

serverVars == <<part, hubVars, healthVars, handoffVars>>

TwoRequests   == {r1, r2}
ThreeRequests == {r1, r2, r3}
TwoGroups     == {ga, gl}
OneGroup      == {ga}
TwoLanes      == {0, 1}
ThreeAttempts == {h1, h2, h3}

HealthConfig(checked, agents, n) ==
    [enabled |-> TRUE, checked |-> checked, viaAgent |-> agents # {},
     agents |-> agents, origin |-> n]

(* Two direct origins, an agent backend with and without checks. *)
HealthConfigs ==
    {HealthConfig(TRUE, {}, 1), HealthConfig(TRUE, {}, 2),
     HealthConfig(TRUE, {a1}, 1), HealthConfig(FALSE, {a1}, 1)}

(* A row that shows a failed database write, one at a time, comes in place *)
(* of the revocation.                                                      *)
FailedWrites == {r \in Requests : dbRow[r] \in {"unmarked", "stale"}}
WriteBudget == Cardinality(FailedWrites) + revokes <= 1

ServerInit ==
    /\ part \in {"hub", "health", "handoff"}
    /\ HubInit /\ HealthInit /\ HandoffInit

ServerNext ==
    \/ /\ part = "hub" /\ HubNext /\ WriteBudget'
       /\ UNCHANGED <<part, healthVars, handoffVars>>
    \/ part = "health" /\ HealthNext /\ UNCHANGED <<part, hubVars, handoffVars>>
    \/ part = "handoff" /\ HandoffNext /\ UNCHANGED <<part, hubVars, healthVars>>

ServerSpec == ServerInit /\ [][ServerNext]_serverVars

(* Requests are interchangeable. *)
Symmetry == Permutations(Requests)
=============================================================================
