---------------------------- MODULE TargetHealth ----------------------------
(***************************************************************************)
(* The health of one proxy target on the server                            *)
(* (internal/server/public_target_health.go): the goroutines that probe    *)
(* it, directly or through each assigned agent, the streaks, verdicts and  *)
(* passive cooldowns they keep, and the configuration refreshes, proxy     *)
(* stops, agent connections and failed requests that race with them.  The  *)
(* monitor's mutex makes every record and every reconcile one step; the    *)
(* probes run outside it.                                                  *)
(***************************************************************************)
EXTENDS Naturals, FiniteSets, FiniteSetsExt

CONSTANTS
    Agents,              \* agents the target's selector may match
    Direct,              \* the path of a target without agents
    NoConfig,            \* no such target: an absent state or a nil snapshot
    Configs,             \* configurations of the target
    Slots,               \* goroutines per path, old ones included
    HealthyThreshold,
    UnhealthyThreshold,
    Answers,             \* how the origin may answer: of "up", "down", "busy"
    Cordonable,          \* agents that update campaigns reach
    MaxConnections,      \* bound on connection events
    MaxReconciles        \* bound on refreshes, starts and stops

Paths == Agents \cup {Direct}

(* publicRouteTargetHealthConfig, as far as the monitor branches on it:    *)
(* the target is enabled, its checks are enabled, its transport is "agent",*)
(* the agents its selector matches, and everything that is only compared.  *)
ASSUME ConfigAssumption ==
    /\ Configs \subseteq [enabled : BOOLEAN, checked : BOOLEAN, viaAgent : BOOLEAN,
                          agents : SUBSET Agents, origin : Nat]
    /\ NoConfig \notin Configs
    /\ Direct \notin Agents
    /\ Answers \subseteq {"up", "down", "busy"}
    /\ Cordonable \subseteq Agents
ASSUME SlotAssumption == Slots \subseteq Nat \ {0} /\ IsFiniteSet(Slots)
ASSUME HealthBoundAssumption == MaxConnections \in Nat /\ MaxReconciles \in Nat
ASSUME ThresholdAssumption == /\ HealthyThreshold \in Nat \ {0}
                              /\ UnhealthyThreshold \in Nat \ {0}

VARIABLES
    target,       \* state.target; NoConfig while states has no entry
    path,         \* the direct state and agentStates
    loops,        \* the health loop goroutines of each path
    origin,       \* how the origin answers: "up", "down" or "busy"
    cordoned,     \* agents an update campaign keeps out of routing
    connected,    \* agents the hub has a connection of
    pending,      \* hub event whose recordAgent...ForAll is still to come
    active,       \* proxyServiceActive
    refreshing,   \* the refresh or start under publicConfigRefreshMu
    stopping,     \* stopProxy is shutting the listeners down
    connections,  \* bound counter of MaxConnections
    reconciles    \* bound counter of MaxReconciles

monitorVars == <<target, path>>
worldVars   == <<origin, cordoned>>
hubState    == <<connected, pending, connections>>
proxyVars   == <<active, refreshing, stopping, reconciles>>
healthVars  == <<monitorVars, loops, worldVars, hubState, proxyVars>>

-----------------------------------------------------------------------------

(* unknownPublicRouteTargetCheckState.  The streaks stop at the threshold  *)
(* they are compared with.                                                 *)
Unknown == [status |-> "unknown", up |-> 0, down |-> 0, cooling |-> FALSE]

NoPath == [exists |-> FALSE, connected |-> FALSE, running |-> FALSE, cancel |-> 0,
           generation |-> 0, check |-> Unknown]
NoLoop == [stage |-> "free", generation |-> 0, cancelled |-> FALSE, orphan |-> FALSE,
           seen |-> NoConfig, result |-> "none"]
(* The state beginRequest creates for a target the monitor does not have.  *)
BareConfig == [enabled |-> TRUE, checked |-> FALSE, viaAgent |-> FALSE,
               agents |-> {}, origin |-> 0]
NotRefreshing == [busy |-> FALSE, config |-> NoConfig, active |-> FALSE]

Targets    == Configs \cup {NoConfig, BareConfig}
Checks     == [status : {"unknown", "healthy", "unhealthy"}, up : 0..HealthyThreshold,
               down : 0..UnhealthyThreshold, cooling : BOOLEAN]
PathStates == [exists : BOOLEAN, connected : BOOLEAN, running : BOOLEAN, cancel : Slots \cup {0},
               generation : Nat, check : Checks]
LoopStages == {"free", "check", "absent", "cordoned", "present", "probe", "record", "wait"}
LoopStates == [stage : LoopStages, generation : Nat, cancelled : BOOLEAN, orphan : BOOLEAN,
               seen : Targets, result : {"none", "ok", "fail", "skip"}]

HealthTypeOK ==
    /\ target \in Targets
    /\ path \in [Paths -> PathStates]
    /\ loops \in [Paths -> [Slots -> LoopStates]]
    /\ origin \in Answers
    /\ cordoned \subseteq Cordonable
    /\ connected \subseteq Agents
    /\ pending \in [Agents -> {"none", "connected", "disconnected"}]
    /\ active \in BOOLEAN
    /\ refreshing \in [busy : BOOLEAN, config : Configs \cup {NoConfig}, active : BOOLEAN]
    /\ stopping \in BOOLEAN
    /\ connections \in 0..MaxConnections
    /\ reconciles \in 0..MaxReconciles

HealthInit ==
    /\ target = NoConfig
    /\ path = [p \in Paths |-> NoPath]
    /\ loops = [p \in Paths |-> [i \in Slots |-> NoLoop]]
    /\ origin \in Answers
    /\ cordoned = {}
    /\ connected = {}
    /\ pending = [a \in Agents |-> "none"]
    /\ active = FALSE
    /\ refreshing = NotRefreshing
    /\ stopping = FALSE
    /\ connections = 0
    /\ reconciles = 0

-----------------------------------------------------------------------------
(* reconcile *)

(* The paths that a configuration has loops for. *)
Desired(c, on) ==
    IF ~(on /\ c.enabled /\ c.checked) THEN {}
    ELSE IF c.viaAgent THEN c.agents ELSE {Direct}

(* Variant: the loop of an agent that is no longer assigned goes on. *)
StoppedDirect(c, on) ==
    {p \in {Direct} : path[p].running /\ (p \notin Desired(c, on) \/ c # target)}

(* The running loops that a reconcile stops: of a direct target whose      *)
(* configuration changed, and of every path that is no longer desired.     *)
Stopped(c, on) ==
    {p \in Paths : path[p].running /\ (p \notin Desired(c, on) \/ (p = Direct /\ c # target))}

(* The paths that get a new loop. *)
Started(c, on) == {p \in Desired(c, on) : ~path[p].running \/ p \in Stopped(c, on)}

FreeSlots(p) == {i \in Slots : loops[p][i].stage = "free"}
NewSlot(p) == CHOOSE i \in FreeSlots(p) : TRUE

(* What the monitor keeps of path p. *)
Reconciled(c, on, p) ==
    IF p = Direct
    THEN [path[p] EXCEPT
            !.exists = TRUE,
            !.running = p \in Desired(c, on),
            !.cancel = IF p \in Started(c, on) THEN NewSlot(p)
                       ELSE IF p \in Stopped(c, on) THEN 0 ELSE @,
            !.generation = @ + Cardinality({p} \cap Stopped(c, on))
                             + Cardinality({p} \cap Started(c, on)),
            !.check = IF c.checked THEN @ ELSE Unknown]
    ELSE IF p \in Desired(c, on)
    THEN [path[p] EXCEPT !.exists = TRUE, !.running = TRUE,
                         !.cancel = IF p \in Started(c, on) THEN NewSlot(p) ELSE @]
    ELSE NoPath

(* The loops of path p once those in its cancel function are stopped and a *)
(* new one is started.                                                     *)
ReconciledLoops(c, on, p) ==
    [i \in Slots |->
        IF p \in Started(c, on) /\ i = NewSlot(p)
        THEN [NoLoop EXCEPT !.stage = "check", !.generation = Reconciled(c, on, p).generation]
        ELSE [loops[p][i] EXCEPT !.cancelled = @ \/ (p \in Stopped(c, on) /\ path[p].cancel = i)]]

(* reconcile with a snapshot that has the target. *)
ReconcileTarget(c, on) ==
    /\ \A p \in Started(c, on) : FreeSlots(p) # {}
    /\ target' = c
    /\ path' = [p \in Paths |-> Reconciled(c, on, p)]
    /\ loops' = [p \in Paths |-> ReconciledLoops(c, on, p)]

(* reconcile without a snapshot, or with one that lacks the target.  The   *)
(* mark "orphan" is history: the state the loop was started for is gone.   *)
Forget ==
    /\ target' = NoConfig
    /\ path' = [p \in Paths |-> NoPath]
    /\ loops' = [p \in Paths |-> [i \in Slots |->
                    [loops[p][i] EXCEPT !.cancelled = @ \/ path[p].cancel = i,
                                        !.orphan = loops[p][i].stage # "free"]]]

-----------------------------------------------------------------------------
(* The health loops. *)

(* The loop of path p in slot i returns. *)
Exits(p, i) == loops' = [loops EXCEPT ![p][i] = NoLoop]

Goes(p, i, stage) == loops' = [loops EXCEPT ![p][i].stage = stage]

(* directCheckForGeneration *)
CheckDirect(i) ==
    LET l == loops[Direct][i]
    IN  /\ l.stage = "check"
        /\ IF path[Direct].running /\ path[Direct].generation = l.generation
           THEN loops' = [loops EXCEPT ![Direct][i] = [l EXCEPT !.seen = target, !.stage = "probe"]]
           ELSE Exits(Direct, i)
        /\ UNCHANGED <<monitorVars, worldVars, hubState, proxyVars>>

(* Variant: the loop of a cordoned agent ends. *)
StageOfUncordoned(a) ==
    IF a \in cordoned THEN "free" ELSE IF a \in connected THEN "present" ELSE "absent"

(* What the loop of agent a reads of the cordon and of the hub. *)
StageOf(a) ==
    IF a \in cordoned THEN "cordoned" ELSE IF a \in connected THEN "present" ELSE "absent"

(* backendForAgentCheck, isAgentUpdateCordoned and connectedByID *)
CheckAgent(a, i) ==
    /\ loops[a][i].stage = "check"
    /\ IF path[a].running
       THEN Goes(a, i, StageOf(a))
       ELSE Exits(a, i)
    /\ UNCHANGED <<monitorVars, worldVars, hubState, proxyVars>>

(* recordAgentConnectedLocked: a new connection starts from unknown. *)
Connected(s) == [s EXCEPT !.exists = TRUE, !.connected = TRUE,
                          !.check = IF s.connected THEN @ ELSE Unknown]

(* recordAgentDisconnectedLocked: the cooldown stays. *)
Disconnected(s) == [s EXCEPT !.exists = TRUE, !.connected = FALSE,
                             !.check = [Unknown EXCEPT !.cooling = s.check.cooling]]

(* Wait for the interval, unless the loop is cancelled. *)
Waits(p, i) ==
    IF loops[p][i].cancelled THEN Exits(p, i)
    ELSE loops' = [loops EXCEPT ![p][i] =
                      [@ EXCEPT !.stage = "wait", !.seen = NoConfig, !.result = "none"]]

(* recordAgentConnected, recordAgentDisconnected and                       *)
(* recordAgentActiveCheckSkipped; each makes an agent state if need be.    *)
Observe(a, i) ==
    LET stage == loops[a][i].stage
    IN  /\ stage \in {"cordoned", "absent", "present"}
        /\ path' = IF target = NoConfig THEN path
                   ELSE [path EXCEPT ![a] = CASE stage = "present" -> Connected(@)
                                              [] stage = "absent" -> Disconnected(@)
                                              [] OTHER -> [@ EXCEPT !.exists = TRUE]]
        /\ IF stage = "present" THEN Goes(a, i, "probe") ELSE Waits(a, i)
        /\ UNCHANGED <<target, worldVars, hubState, proxyVars>>

(* The probe ends: success, failure, or inconclusive because of admission  *)
(* pressure on the agent or because the loop was cancelled meanwhile.      *)
Results(p, i) ==
    LET answer == CASE p # Direct /\ p \notin connected -> "fail"
                    [] origin = "up" -> "ok"
                    [] origin = "busy" /\ p # Direct -> "skip"
                    [] OTHER -> "fail"
    IN  {answer} \cup (IF loops[p][i].cancelled THEN {"skip"} ELSE {})

Probe(p, i, r) ==
    /\ loops[p][i].stage = "probe"
    /\ r \in Results(p, i)
    /\ loops' = [loops EXCEPT ![p][i].result = r, ![p][i].stage = "record"]
    /\ UNCHANGED <<monitorVars, worldVars, hubState, proxyVars>>

(* recordPublicRouteTargetCheckResult; a skipped attempt leaves a trace    *)
(* only.                                                                   *)
CheckResult(check, r) ==
    LET up   == Min({HealthyThreshold, check.up + 1})
        down == Min({UnhealthyThreshold, check.down + 1})
    IN  CASE r = "ok" ->
               [status |-> IF up = HealthyThreshold THEN "healthy" ELSE check.status,
                up |-> up, down |-> 0, cooling |-> FALSE]
          [] r = "fail" ->
               [status |-> IF down = UnhealthyThreshold THEN "unhealthy" ELSE check.status,
                up |-> 0, down |-> down, cooling |-> check.cooling]
          [] OTHER -> check

(* Variant: the result counts while any direct loop runs. *)
CountsWhileRunning(i) == path[Direct].running

(* recordDirectExplicitCheckForGeneration *)
CountsForGeneration(i) ==
    path[Direct].running /\ path[Direct].generation = loops[Direct][i].generation

(* recordDirectExplicitCheckForGeneration or recordAgentExplicitCheck,     *)
(* which makes an agent state if need be, and the wait that follows.       *)
Record(p, i) ==
    LET counts == IF p = Direct THEN CountsForGeneration(i) ELSE target # NoConfig
    IN  /\ loops[p][i].stage = "record"
        /\ path' = IF ~counts THEN path
                   ELSE [path EXCEPT ![p].exists = TRUE,
                                     ![p].check = CheckResult(@, loops[p][i].result)]
        /\ Waits(p, i)
        /\ UNCHANGED <<target, worldVars, hubState, proxyVars>>

(* waitPublicTargetHealthInterval: a cancellation that comes with the      *)
(* timer may lose.                                                         *)
Tick(p, i) ==
    /\ loops[p][i].stage = "wait"
    /\ Goes(p, i, "check")
    /\ UNCHANGED <<monitorVars, worldVars, hubState, proxyVars>>

WaitCancelled(p, i) ==
    /\ loops[p][i].stage = "wait"
    /\ loops[p][i].cancelled
    /\ Exits(p, i)
    /\ UNCHANGED <<monitorVars, worldVars, hubState, proxyVars>>

-----------------------------------------------------------------------------
(* Requests, the hub, the operator. *)

(* beginRequest of a request routed before the state was removed. *)
BeginRequest ==
    /\ target = NoConfig
    /\ reconciles > 0
    /\ target' = BareConfig
    /\ path' = [path EXCEPT ![Direct].exists = TRUE]
    /\ UNCHANGED <<loops, worldVars, hubState, proxyVars>>

(* markPassiveFailure and markAgentPassiveFailure, by a request that was   *)
(* routed with this or an earlier configuration.                           *)
MarkPassive(p) ==
    /\ target # NoConfig
    /\ path' = [path EXCEPT ![p] =
                    IF target.checked THEN [@ EXCEPT !.exists = TRUE, !.check.cooling = TRUE]
                                      ELSE [@ EXCEPT !.check = Unknown]]
    /\ UNCHANGED <<target, loops, worldVars, hubState, proxyVars>>

(* publicRouteTargetPassiveUnhealthyCooldown has passed. *)
CooldownEnds(p) ==
    /\ path[p].check.cooling
    /\ path' = [path EXCEPT ![p].check.cooling = FALSE]
    /\ UNCHANGED <<target, loops, worldVars, hubState, proxyVars>>

(* AgentHub: the entry changes under the agent's auth lock, which is held  *)
(* until the monitor is told.                                              *)
HubChanges(a, e) ==
    /\ connections < MaxConnections
    /\ pending[a] = "none"
    /\ e = "disconnected" => a \in connected
    /\ connections' = connections + 1
    /\ connected' = IF e = "connected" THEN connected \cup {a} ELSE connected \ {a}
    /\ pending' = [pending EXCEPT ![a] = e]
    /\ UNCHANGED <<monitorVars, loops, worldVars, proxyVars>>

(* recordAgentConnectedForAll, recordAgentDisconnectedForAll *)
Notify(a) ==
    /\ pending[a] # "none"
    /\ pending' = [pending EXCEPT ![a] = "none"]
    /\ path' = IF target = NoConfig \/ a \notin target.agents THEN path
               ELSE [path EXCEPT ![a] = IF pending[a] = "connected" THEN Connected(@)
                                        ELSE Disconnected(@)]
    /\ UNCHANGED <<target, loops, worldVars, connected, connections, proxyVars>>

(* applyPublicProxySnapshot and startProxy, both under                     *)
(* publicConfigRefreshMu: the service flag is read or set, then the        *)
(* monitor reconciled with the loaded configuration.                       *)
Refresh(c, start) ==
    /\ reconciles < MaxReconciles
    /\ ~refreshing.busy
    /\ reconciles' = reconciles + 1
    /\ active' = (active \/ start)
    /\ refreshing' = [busy |-> TRUE, config |-> c, active |-> active']
    /\ UNCHANGED <<monitorVars, loops, worldVars, hubState, stopping>>

ReconcileHealth ==
    /\ refreshing.busy
    /\ IF refreshing.config = NoConfig THEN Forget
       ELSE ReconcileTarget(refreshing.config, refreshing.active)
    /\ refreshing' = NotRefreshing
    /\ UNCHANGED <<worldVars, hubState, active, stopping, reconciles>>

(* stopProxy, which does not take publicConfigRefreshMu. *)
StopProxy ==
    /\ active
    /\ ~stopping
    /\ active' = FALSE
    /\ stopping' = TRUE
    /\ UNCHANGED <<monitorVars, loops, worldVars, hubState, refreshing, reconciles>>

StopMonitor ==
    /\ stopping
    /\ stopping' = FALSE
    /\ Forget
    /\ UNCHANGED <<worldVars, hubState, active, refreshing, reconciles>>

(* The origin and the update campaigns. *)
World ==
    /\ \/ origin' \in Answers /\ UNCHANGED cordoned
       \/ cordoned' \in SUBSET Cordonable /\ UNCHANGED origin
    /\ UNCHANGED <<monitorVars, loops, hubState, proxyVars>>

-----------------------------------------------------------------------------

Loop(p, i) ==
    \/ p = Direct /\ CheckDirect(i)
    \/ p # Direct /\ CheckAgent(p, i)
    \/ p # Direct /\ Observe(p, i)
    \/ \E r \in {"ok", "fail", "skip"} : Probe(p, i, r)
    \/ Record(p, i)
    \/ Tick(p, i)
    \/ WaitCancelled(p, i)

HealthNext ==
    \/ \E p \in Paths, i \in Slots : Loop(p, i)
    \/ BeginRequest
    \/ \E p \in Paths : MarkPassive(p) \/ CooldownEnds(p)
    \/ \E a \in Agents, e \in {"connected", "disconnected"} : HubChanges(a, e)
    \/ \E a \in Agents : Notify(a)
    \/ \E c \in Configs \cup {NoConfig}, start \in BOOLEAN : Refresh(c, start)
    \/ ReconcileHealth
    \/ StopProxy
    \/ StopMonitor
    \/ World

HealthSpec == HealthInit /\ [][HealthNext]_healthVars

(* The loops are goroutines whose probes have a timeout and whose waits    *)
(* end; a hub event and a reconcile that were begun are completed.         *)
HealthFairness ==
    /\ \A p \in Paths, i \in Slots : WF_healthVars(Loop(p, i))
    /\ \A a \in Agents : WF_healthVars(Notify(a))
    /\ WF_healthVars(ReconcileHealth)
    /\ WF_healthVars(StopMonitor)

-----------------------------------------------------------------------------
(* Every path the monitor means to probe is probed by exactly one loop     *)
(* that is not cancelled, and no other path by any: a configuration        *)
(* change, an agent that is unassigned and assigned again, or a stop       *)
(* racing a refresh does not leave two loops, whose failures would count   *)
(* twice against the threshold, or none (reconcile, stopLocked,            *)
(* recordAgentExplicitCheck's re-created states).                          *)
OneLoopPerPath ==
    \A p \in Paths :
        {i \in Slots : loops[p][i].stage # "free" /\ ~loops[p][i].cancelled}
            = (IF path[p].running THEN {path[p].cancel} ELSE {})

(* Loop i's direct result changes the verdict. *)
CountedDirect(i) ==
    /\ loops[Direct][i].stage = "record"
    /\ loops'[Direct][i].stage # "record"
    /\ path'[Direct].check # path[Direct].check

(* A result obtained with an earlier configuration of the target does not  *)
(* count for the current one, as long as the state is the same             *)
(* (directGeneration).                                                     *)
StaleResultDropped ==
    [][\A i \in Slots : CountedDirect(i) =>
          loops[Direct][i].seen = target \/ loops[Direct][i].orphan]_healthVars

(* A result obtained with an earlier configuration never counts            *)
(* (TestDirectHealthGenerationPreventsStaleTransportResurrection, "stale   *)
(* result changed current health snapshot").                               *)
StaleResultNeverCounts ==
    [][\A i \in Slots : CountedDirect(i) => loops[Direct][i].seen = target]_healthVars

(* The path is probed, its agent connected and not cordoned, its origin up.*)
Sound(p) == /\ path[p].running
            /\ origin = "up"
            /\ p # Direct => p \in connected /\ p \notin cordoned

(* checkStateAvailable *)
PathAvailable(p) == ~path[p].check.cooling /\ path[p].check.status # "unhealthy"

(* A path that stays sound comes back into routing, whatever the checks,   *)
(* the cordons, the disconnections and the configuration changes before    *)
(* left in its state: its loop is still there and its results count        *)
(* (agentHealthLoop, directHealthLoop, recordPublicRouteTargetCheckResult).*)
SoundPathReturns ==
    HealthFairness => \A p \in Paths : <>[]Sound(p) => []<>PathAvailable(p)
=============================================================================
