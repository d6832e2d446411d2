--------------------------- MODULE UpdateCampaign ---------------------------
(***************************************************************************)
(* Update campaigns (internal/server/agent_updates.go).  A campaign brings *)
(* one release to its agents cohort by cohort.  An agent is fenced off     *)
(* from public requests and drained before its host gets a signed command, *)
(* and comes back once a signed receipt and a tunnel made after it show    *)
(* what the host now runs.                                                 *)
(*                                                                         *)
(* A handler's database work is one transaction or is done under           *)
(* agentUpdatesMu, and requests are admitted under the fence's own lock,   *)
(* so a handler is one step, and CheckAgentUpdate, which takes the lock    *)
(* three times, is three.  A maintenance pass keeps the lock over many     *)
(* transactions: each is a step, and requests, connections and hosts, which*)
(* do not take the lock, move between them.                                *)
(* Deadlines pass at any time (late, dwelt).  A stale campaign generation  *)
(* only makes an administrator's call fail and is left out, and so is the  *)
(* state "activating", which no code sets.                                 *)
(***************************************************************************)
EXTENDS Integers, FiniteSets, Sequences

CONSTANTS
    Agents,
    Campaigns,          \* 1 .. n; the release of campaign c is build c
    members,            \* the agents of each campaign in rollout order
    CanaryCount, WaveSize, MaxUnavailable,
    MinimumEligible,    \* minimum_eligible_agents_per_route, one route for all agents
    MaxGeneration,      \* bound: generations of an assignment
    MaxSequence,        \* bound: commands signed for an agent
    MaxActive           \* bound: public requests at an agent

Members(c) == {members[c][i] : i \in DOMAIN members[c]}

ASSUME CampaignAssumption ==
    /\ IsFiniteSet(Agents) /\ Campaigns \subseteq Nat \ {0}
    /\ members \in [Campaigns -> Seq(Agents)]
    /\ \A c \in Campaigns : \A i, j \in DOMAIN members[c] :
         members[c][i] = members[c][j] => i = j
    /\ {CanaryCount, WaveSize, MaxUnavailable, MaxGeneration} \subseteq Nat \ {0}
    /\ {MinimumEligible, MaxSequence, MaxActive} \subseteq Nat

VARIABLES
    srv,    \* the server: its tables, fence, connections and running requests
    host,   \* the hosts: what they run, the commands they hold, what they have to report
    pass    \* the maintenance pass: whether it has the lock, and what it has left to do

campaignVars == <<srv, host, pass>>

NoBuild == -1
Bootstrap == 0
Builds == {Bootstrap} \cup Campaigns

(* An assignment.  result is what the receipt of its command attests,      *)
(* NoBuild while there is none (root_action_completed_at is NULL);         *)
(* reported: it is blocked by the worker's own report (failure_code).      *)
States == {"none", "pending", "staging", "staged", "cordoned", "awaiting_tunnel",
           "healthy_dwell", "blocked", "failed", "succeeded", "cancelled"}
Row == [state : States, action : {"none", "stage", "activate", "rollback"},
        generation : 0 .. MaxGeneration, cordoned : BOOLEAN,
        authorization : {"none", "activate", "rollback"}, sequence : 0 .. MaxSequence,
        unexpired : BOOLEAN, activated : BOOLEAN, healthy : BOOLEAN,
        reported : BOOLEAN, result : Builds \cup {NoBuild}]

NoRow == [state |-> "none", action |-> "none", generation |-> 0, cordoned |-> FALSE,
          authorization |-> "none", sequence |-> 0, unexpired |-> FALSE,
          activated |-> FALSE, healthy |-> FALSE, reported |-> FALSE, result |-> NoBuild]

(* An agent's connection: made before the receipt of its active assignment *)
(* or without one ("old"), after it ("new"), and recorded as the fresh     *)
(* tunnel ("fresh", fresh_tunnel_at = ConnectedAt).                        *)
Connection == [phase : {"none", "old", "new", "fresh"}, build : Builds]
NoConnection == [phase |-> "none", build |-> Bootstrap]

Command == [campaign : Campaigns, generation : 0 .. MaxGeneration,
            action : {"activate", "rollback"}, sequence : 1 .. MaxSequence]
(* What the worker of a host has to report, from the activator's files.    *)
Outcome == [kind : {"done", "failed", "healthy"}, campaign : Campaigns,
            generation : 0 .. MaxGeneration, action : {"activate", "rollback"},
            sequence : 1 .. MaxSequence, result : Builds]

Server == [campaign : [Campaigns -> {"new", "running", "paused", "cancelled", "completed"}],
           row : [Campaigns -> [Agents -> Row]], fence : SUBSET Agents,
           sequence : [Agents -> 0 .. MaxSequence], conn : [Agents -> Connection],
           active : [Agents -> 0 .. MaxActive]]

Host == [build : Builds, previous : Builds, floor : 0 .. MaxSequence,
         commands : SUBSET Command, mail : SUBSET Command, outcome : SUBSET Outcome]

(* What a pass does with a row, and the campaigns it releases cohorts of,  *)
(* each with the agent of its last row.                                    *)
Item == [campaign : Campaigns, agent : Agents, step : {"advance", "reconcile", "block"}]
Release == [campaign : Campaigns, agent : Agents]
Idle == [busy |-> FALSE, items |-> {}, releases |-> {}]

CampaignTypeOK ==
    /\ srv \in Server
    /\ host \in [Agents -> Host]
    /\ pass \in [busy : BOOLEAN, items : SUBSET Item, releases : SUBSET Release]

CampaignInit ==
    /\ srv = [campaign |-> [c \in Campaigns |-> "new"],
              row |-> [c \in Campaigns |-> [a \in Agents |-> NoRow]],
              fence |-> {}, sequence |-> [a \in Agents |-> 0],
              conn |-> [a \in Agents |-> [phase |-> "old", build |-> Bootstrap]],
              active |-> [a \in Agents |-> 0]]
    /\ host = [a \in Agents |-> [build |-> Bootstrap, previous |-> Bootstrap, floor |-> 0,
                                 commands |-> {}, mail |-> {}, outcome |-> {}]]
    /\ pass = Idle

(***************************************************************************)
(* The tables                                                              *)
(***************************************************************************)
IsActive(x) ==
    \/ x.state \notin {"none", "succeeded", "failed", "cancelled"}
    \/ x.state = "failed" /\ x.action = "rollback"

(* activeAgentUpdateAssignmentQuery; a unique index keeps it to one.       *)
ActiveIn(s, a) == {c \in Campaigns : IsActive(s.row[c][a])}

Put(s, c, a, x) == [s EXCEPT !.row[c][a] = x]
SetFence(s, a) == [s EXCEPT !.fence = @ \cup {a}]
ClearFence(s, a) == [s EXCEPT !.fence = @ \ {a}]

PauseRunning(s, c) ==
    IF s.campaign[c] = "running" THEN [s EXCEPT !.campaign[c] = "paused"] ELSE s

Blocked(x) == [x EXCEPT !.state = "blocked", !.action = "none"]
Block(s, c, a) == PauseRunning(Put(s, c, a, Blocked(s.row[c][a])), c)

(* A new rollback command is wanted: the receipt and its evidence are      *)
(* dropped (agentUpdateResetRootEvidenceSQL), and no connection is newer   *)
(* than a receipt any more.                                                *)
RollbackWanted(x, state) ==
    [x EXCEPT !.state = state, !.action = "rollback", !.generation = @ + 1,
              !.cordoned = TRUE, !.authorization = "none", !.sequence = 0,
              !.unexpired = FALSE, !.result = NoBuild, !.healthy = FALSE,
              !.reported = FALSE]
OldConnection(k) == [k EXCEPT !.phase = IF @ = "none" THEN @ ELSE "old"]

(***************************************************************************)
(* Cohorts: the canaries, then waves in rollout order.                     *)
(***************************************************************************)
Ordinal(c, a) == CHOOSE i \in DOMAIN members[c] : members[c][i] = a

(* Variant: the first wave is counted with the canaries. *)
CohortNoLate(i) == IF i <= CanaryCount + 1 THEN 0 ELSE 1 + (i - CanaryCount - 2) \div WaveSize

CohortNo(i) == IF i <= CanaryCount THEN 0 ELSE 1 + (i - CanaryCount - 1) \div WaveSize

Cohort(c, a) == {b \in Members(c) : CohortNo(Ordinal(c, b)) = CohortNo(Ordinal(c, a))}
Earlier(c, a) == {b \in Members(c) : CohortNo(Ordinal(c, b)) < CohortNo(Ordinal(c, a))}

Spoiled(x) == x.state \in {"failed", "blocked", "cancelled"}

(* The members agentUpdateCohortEligibleQuery stops at; the first decides. *)
Hindrances(s, c, a) ==
    {b \in Earlier(c, a) : s.row[c][b].state # "succeeded"}
    \cup {b \in Cohort(c, a) : Spoiled(s.row[c][b]) \/ s.row[c][b].state \in {"pending", "staging"}}

FirstOf(c, S) == CHOOSE b \in S : \A d \in S : Ordinal(c, b) <= Ordinal(c, d)

CohortFailed(s, c, a) ==
    LET H == Hindrances(s, c, a) IN H # {} /\ Spoiled(s.row[c][FirstOf(c, H)])

Unavailable(s, c) ==
    {b \in Members(c) : s.row[c][b].cordoned
                        \/ s.row[c][b].state \in {"awaiting_tunnel", "healthy_dwell"}}
InFlightLimit(c, a) ==
    LET n == Cardinality(Cohort(c, a)) IN IF n < MaxUnavailable THEN n ELSE MaxUnavailable

(* releaseNextAgentUpdateStageCohortLocked *)
ReleaseNextCohort(s, c) ==
    LET open == {b \in Members(c) : s.row[c][b].state # "succeeded"} IN
    IF s.campaign[c] # "running" \/ open = {} THEN s
    ELSE [s EXCEPT !.row[c] =
            [b \in Agents |->
               IF /\ b \in Cohort(c, FirstOf(c, open))
                  /\ @[b].state = "pending" /\ @[b].action = "none"
               THEN [@[b] EXCEPT !.action = "stage"] ELSE @[b]]]

(* finalizeCompletedAgentUpdateCampaignsLocked *)
Finalize(s) ==
    [s EXCEPT !.campaign =
       [c \in Campaigns |->
          IF @[c] = "running" /\ \A a \in Members(c) : ~IsActive(s.row[c][a])
          THEN "completed" ELSE @[c]]]

(***************************************************************************)
(* Fencing, draining and authorizing                                       *)
(***************************************************************************)
Connected(s, a) == s.conn[a].phase # "none"

(* Requests on a lost connection fail with it.                             *)
Dropped(s, a) == [s EXCEPT !.conn[a] = NoConnection, !.active[a] = 0]

(* agentUpdateRouteBlockersForAgents; up are the agents that target health *)
(* has available for the route.                                            *)
RouteBlocked(s, a, up) ==
    Cardinality({b \in up \ {a} : b \notin s.fence /\ Connected(s, b)}) < MinimumEligible

(* Target health is read again before a command is signed, and probes do   *)
(* not wait for the handler in between.                                    *)
Readings == [{"advance", "sign"} -> SUBSET Agents]

(* agentUpdateAgentDrained: nothing of the agent's connection is in use.   *)
Drained(s, a) == Connected(s, a) /\ s.active[a] = 0

(* issueAssignmentAuthorizationTx; a used up sequence is an error.         *)
Issue(s, c, a, action) ==
    IF s.sequence[a] = MaxSequence THEN s
    ELSE [Put(s, c, a, [s.row[c][a] EXCEPT !.action = action, !.authorization = action,
                                           !.sequence = s.sequence[a] + 1,
                                           !.unexpired = TRUE])
            EXCEPT !.sequence[a] = @ + 1]

(* The known-good tunnel gets its traffic back.                            *)
Returned(x, state) == [x EXCEPT !.state = state, !.action = "none", !.cordoned = FALSE]
Unfence(s, c, a, state) == ClearFence(Put(s, c, a, Returned(s.row[c][a], state)), a)

Draining(x) == x.state = "cordoned" /\ x.cordoned /\ x.action = "none"

(* tryAuthorizeDrainedAgentUpdateAssignmentLocked *)
AuthorizeDrained(s, c, a, late, up) ==
    IF ~Draining(s.row[c][a]) \/ s.campaign[c] # "running" THEN s
    ELSE IF late THEN PauseRunning(Unfence(s, c, a, "blocked"), c)
    ELSE IF ~Drained(s, a) THEN s
    ELSE IF RouteBlocked(s, a, up.sign) THEN PauseRunning(Unfence(s, c, a, "staged"), c)
    ELSE Issue(s, c, a, "activate")

Cordoned(x) == [x EXCEPT !.state = "cordoned", !.action = "none", !.cordoned = TRUE,
                         !.authorization = "none", !.sequence = 0, !.unexpired = FALSE]

(* tryAdvanceAgentUpdateAssignmentLocked.  The fence is set before the row *)
(* is written and taken back when the write fails.                         *)
TryAdvance(s, c, a, late, up) ==
    IF s.campaign[c] # "running" THEN s
    ELSE IF Draining(s.row[c][a]) THEN AuthorizeDrained(s, c, a, late, up)
    ELSE IF s.row[c][a].state # "staged" \/ RouteBlocked(s, a, up.advance) THEN s
    ELSE IF CohortFailed(s, c, a) THEN PauseRunning(s, c)
    ELSE IF \/ Hindrances(s, c, a) # {}
            \/ Cardinality(Unavailable(s, c)) >= InFlightLimit(c, a) THEN s
    ELSE AuthorizeDrained(SetFence(Put(s, c, a, Cordoned(s.row[c][a])), a), c, a, FALSE,
                          up)

(***************************************************************************)
(* Evidence                                                                *)
(***************************************************************************)
AwaitsEvidence(x) ==
    x.cordoned /\ x.result # NoBuild /\ x.state \in {"awaiting_tunnel", "healthy_dwell"}

(* Variant: the build the agent last reported counts, connected or not. *)
EvidenceOfBuild(s, c, a) ==
    s.row[c][a].result # NoBuild /\ s.conn[a].build = s.row[c][a].result

EvidenceComplete(s, c, a) ==
    /\ s.conn[a].phase = "fresh"
    /\ s.row[c][a].result # NoBuild
    /\ s.conn[a].build = s.row[c][a].result

RequiredEvidence(s, c, a) ==
    /\ EvidenceComplete(s, c, a)
    /\ s.row[c][a].authorization = "rollback" \/ s.row[c][a].healthy

(* The assignment is over: its connection is an ordinary one again.        *)
Settle(s, c, a, state) ==
    [Unfence(s, c, a, state) EXCEPT !.conn[a] = OldConnection(@)]

Succeeds(s, c, a, dwelt) ==
    LET x == s.row[c][a] IN
    /\ s.campaign[c] = "running" /\ x.authorization = "activate"
    /\ x.state = "healthy_dwell" /\ x.activated /\ x.healthy /\ x.result = c
    /\ EvidenceComplete(s, c, a) /\ x.cordoned /\ dwelt

(* reconcileAgentUpdateSuccessLocked *)
ReconcileRow(s, c, a, late, dwelt) ==
    LET x == s.row[c][a] IN
    IF x.action # "none" THEN s
    ELSE IF AwaitsEvidence(x) /\ ~RequiredEvidence(s, c, a) /\ late THEN Block(s, c, a)
    ELSE IF /\ x.authorization = "rollback" /\ x.state = "awaiting_tunnel" /\ x.cordoned
            /\ EvidenceComplete(s, c, a)
         THEN Settle(s, c, a, "failed")
    ELSE IF Succeeds(s, c, a, dwelt)
         THEN Finalize(ReleaseNextCohort(Settle(s, c, a, "succeeded"), c))
    ELSE s

(* The active assignment of an agent, if it has one.                       *)
ReconcileAgent(s, a, late, dwelt) ==
    IF ActiveIn(s, a) = {} THEN s
    ELSE ReconcileRow(s, CHOOSE c \in ActiveIn(s, a) : TRUE, a, late, dwelt)

(***************************************************************************)
(* Administrators                                                          *)
(***************************************************************************)
(* Campaigns are numbered as they are created; it does not take the lock.  *)
CreateAgentUpdateCampaign(c, up) ==
    /\ srv.campaign[c] = "new" /\ \A d \in Campaigns : d < c => srv.campaign[d] # "new"
    /\ \A a \in Members(c) :
         /\ Connected(srv, a) /\ srv.conn[a].build # c
         /\ ActiveIn(srv, a) = {} /\ ~RouteBlocked(srv, a, up)
    /\ srv' = [srv EXCEPT
         !.campaign[c] = "running",
         !.row[c] = [a \in Agents |->
            IF a \notin Members(c) THEN @[a]
            ELSE [NoRow EXCEPT !.state = "pending", !.generation = 1,
                    !.action = IF Ordinal(c, a) <= CanaryCount THEN "stage" ELSE "none"]]]
    /\ UNCHANGED <<host, pass>>

(* Pause and cancel publish the fence of every row of the campaign.        *)
PublishCordons(s, c) ==
    [s EXCEPT !.fence = {a \in Agents : IF a \in Members(c) THEN s.row[c][a].cordoned
                                                            ELSE a \in @}]

(* What takes the lock waits for a pass to end.                            *)
Locked == ~pass.busy /\ UNCHANGED pass

Changeable(c) == Locked /\ srv.campaign[c] \in {"running", "paused"}

(* A drain without an authorization is undone.                             *)
PauseAgentUpdateCampaign(c) ==
    /\ Changeable(c)
    /\ srv' = PublishCordons(
         [srv EXCEPT
            !.campaign[c] = "paused",
            !.row[c] = [a \in Agents |->
               IF Draining(@[a]) /\ @[a].authorization = "none"
               THEN [@[a] EXCEPT !.state = "staged", !.cordoned = FALSE] ELSE @[a]]], c)
    /\ UNCHANGED host

ResumeAgentUpdateCampaign(c) ==
    /\ Changeable(c)
    /\ \A a \in Members(c) :
         srv.row[c][a].state \in {"failed", "blocked"} =>
           srv.row[c][a].cordoned /\ srv.row[c][a].action = "rollback"
    /\ srv' = [srv EXCEPT !.campaign[c] = "running"]
    /\ UNCHANGED host

(* Variant: what has not been activated is released at once. *)
ReleasableBeforeActivation(x) == ~x.activated /\ (~x.cordoned \/ x.state = "cordoned")

(* What no command has escaped for is released at once.                    *)
Releasable(x) ==
    /\ ~x.activated /\ x.authorization = "none" /\ x.action \notin {"activate", "rollback"}
    /\ ~x.cordoned \/ x.state = "cordoned"

RollbackProven(x) ==
    /\ x.state = "awaiting_tunnel" /\ x.action = "none"
    /\ x.authorization = "rollback" /\ x.result # NoBuild

CancelRow(x) ==
    IF x.state \in {"none", "succeeded", "failed", "cancelled"} \/ RollbackProven(x) THEN x
    ELSE IF Releasable(x) THEN [Returned(x, "cancelled") EXCEPT !.generation = @ + 1]
    ELSE RollbackWanted(x, x.state)

(* Forgetting a receipt makes the connection an ordinary one.              *)
CancelAgentUpdateCampaign(c) ==
    /\ Changeable(c)
    /\ \A a \in Members(c) : srv.row[c][a].generation < MaxGeneration
    /\ srv' = PublishCordons(
         [srv EXCEPT
            !.campaign[c] = "cancelled",
            !.row[c] = [a \in Agents |-> CancelRow(@[a])],
            !.conn = [a \in Agents |->
               IF CancelRow(srv.row[c][a]).action = "rollback"
                    /\ srv.row[c][a] # CancelRow(srv.row[c][a])
               THEN OldConnection(@[a]) ELSE @[a]]], c)
    /\ UNCHANGED host

(* RetryAgentUpdateAssignments, one assignment a call.                     *)
RetryRollback(c, a) ==
    LET x == srv.row[c][a] IN
    /\ Locked /\ srv.campaign[c] \in {"running", "paused", "cancelled"}
    /\ x.state = "blocked" /\ x.cordoned /\ x.generation < MaxGeneration
    /\ srv' = SetFence([Put(srv, c, a, RollbackWanted(x, "failed"))
                           EXCEPT !.conn[a] = OldConnection(@)], a)
    /\ UNCHANGED host

RetryStage(c, a) ==
    LET x == srv.row[c][a] IN
    /\ Changeable(c)
    /\ ~x.cordoned /\ x.generation < MaxGeneration
    /\ x.state \in {"blocked", "cancelled"} \/ (x.state = "failed" /\ x.action = "none")
    /\ ActiveIn(srv, a) \subseteq {c}
    /\ srv' = ClearFence(Put(srv, c, a, [NoRow EXCEPT !.state = "pending",
                                                      !.generation = x.generation + 1]), a)
    /\ UNCHANGED host

(***************************************************************************)
(* The worker's calls                                                      *)
(***************************************************************************)
(* campaignAllowsAgentUpdateAuthorization *)
Allows(state, action) ==
    \/ action = "activate" /\ state = "running"
    \/ action = "rollback" /\ state \in {"running", "cancelled"}

(* ensureAgentUpdateAssignmentAuthorization *)
EnsureAuthorization(s, c, a) ==
    LET x == s.row[c][a] IN
    IF x.authorization = x.action /\ x.unexpired THEN s ELSE Issue(s, c, a, x.action)

(* CheckAgentUpdate, by a worker with nothing to report: it takes the lock *)
(* anew to reconcile the agent's assignment, to advance it and to sign the *)
(* answer.  An answer to an earlier call does not come any more.           *)
Asks(a) ==
    /\ Locked
    /\ host[a].outcome = {} /\ ActiveIn(srv, a) # {}
    /\ host' = [host EXCEPT ![a].mail = {}]

CheckReconcile(a, late, dwelt) ==
    /\ Asks(a)
    /\ srv' = ReconcileAgent(srv, a, late, dwelt)

CheckAdvance(a, late, up) ==
    /\ Asks(a)
    /\ \E c \in ActiveIn(srv, a) : srv' = TryAdvance(srv, c, a, late, up)

CheckAnswer(a) ==
    /\ Locked
    /\ host[a].outcome = {}
    /\ \E c \in ActiveIn(srv, a) :
         /\ Allows(srv.campaign[c], srv.row[c][a].action)
         /\ srv' = EnsureAuthorization(srv, c, a)
         /\ LET x == srv'.row[c][a] IN
            /\ x.authorization = x.action /\ x.unexpired
            /\ host' = [host EXCEPT ![a].mail =
                 {[campaign |-> c, generation |-> x.generation,
                   action |-> x.action, sequence |-> x.sequence]}]

(* Staging reports, of a worker that was told to stage; the campaign may   *)
(* have been paused since.                                                 *)
Staging(c, a) ==
    /\ Locked
    /\ srv.row[c][a].action = "stage" /\ srv.row[c][a].state \in {"pending", "staging"}
    /\ host[a].outcome = {}
    /\ host' = [host EXCEPT ![a].mail = {}]

Reported(s, c, a, state, action) ==
    LET t == Put(s, c, a, [s.row[c][a] EXCEPT !.state = state, !.action = action])
    IN  IF s.row[c][a].cordoned THEN t ELSE ClearFence(t, a)

ReportDownloading(c, a) ==
    /\ Staging(c, a)
    /\ srv' = Reported(srv, c, a, "staging", "stage")

ReportStaged(c, a, up) ==
    /\ Staging(c, a)
    /\ srv' = TryAdvance(Reported(srv, c, a, "staged", "none"), c, a, FALSE, up)

ReportStageFailed(c, a) ==
    /\ Staging(c, a)
    /\ ~srv.row[c][a].cordoned
    /\ srv' = PauseRunning(Reported(srv, c, a, "failed", "none"), c)

(* ReportAgentUpdate for the outcome o of a command.  One of a superseded  *)
(* generation is only acknowledged, and so is one already committed.       *)
IsCurrent(a, o) ==
    /\ ActiveIn(srv, a) = {o.campaign}
    /\ srv.row[o.campaign][a].generation = o.generation

Committed(x, o) ==
    /\ x.result # NoBuild
    /\ CASE o.kind = "done"    -> x.authorization = o.action /\ x.sequence = o.sequence
         [] o.kind = "failed"  -> /\ x.action = "none" /\ x.authorization = o.action
                                  /\ x.state \in {"awaiting_tunnel", "healthy_dwell", "blocked"}
         [] o.kind = "healthy" -> x.state = "blocked"

RolledBackFrom == {"failed", "blocked", "cordoned", "awaiting_tunnel", "healthy_dwell"}

(* verifyAgentUpdateRootActionReceipt and the phase it is expected in.     *)
ReceiptAccepted(x, o) ==
    /\ x.authorization = o.action /\ x.sequence = o.sequence /\ x.cordoned
    /\ x.action = o.action
    /\ IF o.action = "activate" THEN o.result = o.campaign /\ x.state = "cordoned"
                                ELSE o.result # o.campaign /\ x.state \in RolledBackFrom

(* The connection is revoked, so that only one made from now on counts.    *)
ApplyReceipt(s, a, o) ==
    Dropped(Put(s, o.campaign, a,
                [s.row[o.campaign][a] EXCEPT
                   !.state = "awaiting_tunnel", !.action = "none", !.result = o.result,
                   !.healthy = FALSE, !.activated = @ \/ o.action = "activate"]), a)

FailureAccepted(x) ==
    /\ x.cordoned
    /\ \/ x.action = "activate" /\ x.state = "cordoned"
       \/ x.action = "none" /\ x.activated /\ x.state \in {"awaiting_tunnel", "healthy_dwell"}
       \/ x.action = "rollback" /\ x.state \in RolledBackFrom

HealthAccepted(x, o) ==
    /\ x.activated /\ x.result = o.result /\ x.result # Bootstrap
    /\ x.state \in {"awaiting_tunnel", "healthy_dwell"}

ApplyHealth(s, a, o) ==
    Put(s, o.campaign, a,
        [s.row[o.campaign][a] EXCEPT !.state = "healthy_dwell", !.healthy = TRUE])

(* The worker drops what is acknowledged; an activation is followed by a   *)
(* health report unless the assignment has moved on.                       *)
Acknowledged(a, o, lost) ==
    /\ Locked
    /\ host' = [host EXCEPT ![a].mail = {},
         ![a].outcome =
           IF lost THEN @
           ELSE IF /\ o.kind = "done" /\ o.action = "activate" /\ IsCurrent(a, o)
                   /\ srv'.row[o.campaign][a].state \in {"awaiting_tunnel", "healthy_dwell"}
                THEN {[o EXCEPT !.kind = "healthy"]}
           ELSE {}]

(* The answer may be lost, and the report comes again.                     *)
AcknowledgeOnly(a, o, lost) ==
    /\ IsCurrent(a, o) => Committed(srv.row[o.campaign][a], o)
    /\ UNCHANGED srv
    /\ Acknowledged(a, o, lost)

ReportRootAction(a, o, lost) ==
    LET x == srv.row[o.campaign][a] IN
    /\ o.kind = "done" /\ IsCurrent(a, o) /\ ~Committed(x, o) /\ ReceiptAccepted(x, o)
    /\ srv' = ApplyReceipt(srv, a, o)
    /\ Acknowledged(a, o, lost)

ReportFailed(a, o, lost) ==
    LET x == srv.row[o.campaign][a] IN
    /\ o.kind = "failed" /\ IsCurrent(a, o) /\ ~Committed(x, o)
    /\ FailureAccepted(x) \/ (x.state = "blocked" /\ x.action = "none" /\ x.reported)
    /\ srv' = IF FailureAccepted(x)
               THEN PauseRunning(Put(srv, o.campaign, a,
                                     [Blocked(x) EXCEPT !.reported = TRUE]), o.campaign)
               ELSE srv
    /\ Acknowledged(a, o, lost)

ReportHealthy(a, o, late, dwelt, lost) ==
    LET x == srv.row[o.campaign][a] IN
    /\ o.kind = "healthy" /\ IsCurrent(a, o) /\ ~Committed(x, o) /\ HealthAccepted(x, o)
    /\ dwelt => x.healthy
    /\ srv' = ReconcileRow(ApplyHealth(srv, a, o), o.campaign, a, late, dwelt)
    /\ Acknowledged(a, o, lost)

(***************************************************************************)
(* Maintenance, connections and public requests                            *)
(***************************************************************************)
(* reconcileAgentUpdateMaintenance reads the active rows and decides what  *)
(* to do with each; late are the agents whose deadline for staging or for  *)
(* a command is over at that moment.                                       *)
Advances(c, x) ==
    \/ x.state = "cordoned" /\ x.action = "none"
    \/ srv.campaign[c] = "running" /\ ~x.cordoned /\ x.state = "staged" /\ x.action = "none"

Reconciles(x) ==
    x.action = "none" /\ x.result # NoBuild /\ x.state \in {"awaiting_tunnel", "healthy_dwell"}

StageWaits(x) == ~x.cordoned /\ x.action = "stage" /\ x.state \in {"pending", "staging"}
CommandWaits(x) == x.cordoned /\ x.action \in {"activate", "rollback"}

StepFor(c, x, step) ==
    \/ step = "advance" /\ Advances(c, x)
    \/ step = "reconcile" /\ Reconciles(x)
    \/ step = "block" /\ srv.campaign[c] = "running" /\ StageWaits(x)
    \/ step = "block" /\ CommandWaits(x)

ActiveMembers(s, c) == {a \in Members(c) : IsActive(s.row[c][a])}

BeginPass(late) ==
    /\ ~pass.busy
    /\ pass' = [busy |-> TRUE,
         items |-> {i \in Item : /\ i.agent \in ActiveMembers(srv, i.campaign)
                                 /\ StepFor(i.campaign, srv.row[i.campaign][i.agent], i.step)
                                 /\ i.step = "block" => i.agent \in late},
         releases |-> {r \in Release :
            /\ r.agent \in ActiveMembers(srv, r.campaign)
            /\ \A b \in ActiveMembers(srv, r.campaign) :
                 Ordinal(r.campaign, b) <= Ordinal(r.campaign, r.agent)}]
    /\ UNCHANGED <<srv, host>>

(* The rows come in the order of their creation.                           *)
NextItem(i, step) ==
    /\ i \in pass.items /\ i.step = step
    /\ \A j \in pass.items :
         \/ i.campaign < j.campaign
         \/ /\ i.campaign = j.campaign
            /\ Ordinal(i.campaign, i.agent) <= Ordinal(j.campaign, j.agent)
    /\ pass' = [pass EXCEPT !.items = @ \ {i}]
    /\ UNCHANGED host

PassAdvance(i, late, up) ==
    /\ NextItem(i, "advance")
    /\ srv' = IF ActiveIn(srv, i.agent) = {i.campaign}
              THEN TryAdvance(srv, i.campaign, i.agent, late, up) ELSE srv

PassReconcile(i, late, dwelt) ==
    /\ NextItem(i, "reconcile")
    /\ srv' = ReconcileAgent(srv, i.agent, late, dwelt)

(* blockTimedOutAgentUpdateStageLocked, blockTimedOutAgentUpdateRootActionLocked *)
PassBlock(i) ==
    LET x == srv.row[i.campaign][i.agent] IN
    /\ NextItem(i, "block")
    /\ srv' = IF StageWaits(x) \/ CommandWaits(x)
              THEN Block(srv, i.campaign, i.agent) ELSE srv

(* The campaign is at hand when a row of it was advanced, and is otherwise *)
(* looked up as the one its last agent is in now.                          *)
PassRelease(r, atHand) ==
    /\ pass.items = {} /\ r \in pass.releases
    /\ pass' = [pass EXCEPT !.releases = @ \ {r}]
    /\ srv' = IF atHand \/ \E c \in ActiveIn(srv, r.agent) : srv.campaign[c] = "running"
              THEN ReleaseNextCohort(srv, r.campaign) ELSE srv
    /\ UNCHANGED host

EndPass ==
    /\ pass.busy /\ pass.items = {} /\ pass.releases = {}
    /\ pass' = Idle
    /\ srv' = Finalize(srv)
    /\ UNCHANGED host

(* beginAgentUpdateProtectedRequest *)
BeginRequest(a) ==
    /\ Connected(srv, a) /\ a \notin srv.fence /\ srv.active[a] < MaxActive
    /\ srv' = [srv EXCEPT !.active[a] = @ + 1]
    /\ UNCHANGED <<host, pass>>

EndRequest(a) ==
    /\ srv.active[a] > 0
    /\ srv' = [srv EXCEPT !.active[a] = @ - 1]
    /\ UNCHANGED <<host, pass>>

(* The agent connects; a connection it still has is closed and its         *)
(* requests with it (retireDisplacedAgentConnection).                      *)
Connect(a) ==
    /\ srv' = [Dropped(srv, a) EXCEPT !.conn[a] =
         [phase |-> IF \E c \in ActiveIn(srv, a) : srv.row[c][a].result # NoBuild
                    THEN "new" ELSE "old",
          build |-> host[a].build]]
    /\ UNCHANGED <<host, pass>>

Disconnect(a) ==
    /\ Connected(srv, a)
    /\ srv' = Dropped(srv, a)
    /\ UNCHANGED <<host, pass>>

(* recordAgentUpdateFreshTunnel after a connect, or the next build report  *)
(* (recordAgentUpdateObservedBuild).                                       *)
RecordFreshTunnel(a, late) ==
    /\ Locked
    /\ a \in srv.fence /\ srv.conn[a].phase = "new"
    /\ \E c \in ActiveIn(srv, a) :
         /\ srv.row[c][a].action = "none" /\ AwaitsEvidence(srv.row[c][a])
         /\ srv' = ReconcileRow([srv EXCEPT !.conn[a].phase = "fresh"], c, a, late, FALSE)
    /\ UNCHANGED host

(* The process starts again: reloadAgentUpdateCordons.                     *)
Restart ==
    /\ srv' = [srv EXCEPT
         !.fence = {a \in Agents : \E c \in ActiveIn(srv, a) : srv.row[c][a].cordoned},
         !.conn = [a \in Agents |-> NoConnection],
         !.active = [a \in Agents |-> 0]]
    /\ pass' = Idle
    /\ UNCHANGED host

(***************************************************************************)
(* The hosts, as the commands and reports of internal/updater show them.   *)
(* A command is executed once, and none after a later one.                 *)
(***************************************************************************)
Outstanding(a) ==
    {k \in host[a].commands \cup host[a].mail : k.sequence > host[a].floor}

Deliver(a) ==
    /\ host[a].mail # {}
    /\ host' = [host EXCEPT ![a].commands = @ \cup host[a].mail, ![a].mail = {}]
    /\ UNCHANGED <<srv, pass>>

OutcomeOf(k, kind, result) ==
    [kind |-> kind, campaign |-> k.campaign, generation |-> k.generation,
     action |-> k.action, sequence |-> k.sequence, result |-> result]

(* The agent is restarted and its connection with it.                      *)
Execute(a, k) ==
    /\ k \in host[a].commands /\ k.sequence > host[a].floor
    /\ LET switches == k.action = "activate" \/ host[a].build = k.campaign
           build == IF k.action = "activate" THEN k.campaign
                    ELSE IF switches THEN host[a].previous ELSE host[a].build
       IN  host' = [host EXCEPT
             ![a].build = build,
             ![a].previous = IF switches THEN host[a].build ELSE @,
             ![a].floor = k.sequence,
             ![a].commands = {l \in @ : l.sequence > k.sequence},
             ![a].outcome = {OutcomeOf(k, "done", build)}]
    /\ srv' = Dropped(srv, a)
    /\ UNCHANGED pass

(* It fails, or gives up a command that another attempt may still execute. *)
Fail(a, k) ==
    /\ k \in host[a].commands /\ k.sequence > host[a].floor
    /\ \E kept \in BOOLEAN :
         host' = [host EXCEPT ![a].outcome = {OutcomeOf(k, "failed", host[a].build)},
                              ![a].commands = IF kept THEN @ ELSE @ \ {k}]
    /\ UNCHANGED <<srv, pass>>

(* A command runs out, at the server and at the host.                      *)
ExpireCommand(a, k) ==
    /\ k \in Outstanding(a)
    /\ host' = [host EXCEPT ![a].commands = @ \ {k}, ![a].mail = @ \ {k}]
    /\ srv' = Put(srv, k.campaign, a,
                  [srv.row[k.campaign][a] EXCEPT
                     !.unexpired = @ /\ srv.row[k.campaign][a].sequence # k.sequence])
    /\ UNCHANGED pass

(***************************************************************************)
(* The specification                                                       *)
(***************************************************************************)
Administrator ==
    \E c \in Campaigns :
        \/ \E up \in SUBSET Agents : CreateAgentUpdateCampaign(c, up)
        \/ PauseAgentUpdateCampaign(c)
        \/ ResumeAgentUpdateCampaign(c)
        \/ CancelAgentUpdateCampaign(c)
        \/ \E a \in Members(c) : RetryRollback(c, a) \/ RetryStage(c, a)

Worker ==
    \E a \in Agents :
        \/ \E late, dwelt \in BOOLEAN : CheckReconcile(a, late, dwelt)
        \/ \E late \in BOOLEAN, up \in Readings : CheckAdvance(a, late, up)
        \/ CheckAnswer(a)
        \/ \E c \in Campaigns : \/ ReportDownloading(c, a)
                                \/ \E up \in Readings : ReportStaged(c, a, up)
                                \/ ReportStageFailed(c, a)
        \/ \E o \in host[a].outcome, lost \in BOOLEAN :
              \/ AcknowledgeOnly(a, o, lost)
              \/ ReportRootAction(a, o, lost)
              \/ ReportFailed(a, o, lost)
              \/ \E late, dwelt \in BOOLEAN : ReportHealthy(a, o, late, dwelt, lost)

Maintenance ==
    \/ \E late \in SUBSET Agents : BeginPass(late)
    \/ \E i \in pass.items :
          \/ \E late \in BOOLEAN, up \in Readings : PassAdvance(i, late, up)
          \/ \E late, dwelt \in BOOLEAN : PassReconcile(i, late, dwelt)
          \/ PassBlock(i)
    \/ \E r \in pass.releases, atHand \in BOOLEAN : PassRelease(r, atHand)
    \/ EndPass

Traffic ==
    \/ Restart
    \/ \E a \in Agents :
          \/ BeginRequest(a)
          \/ EndRequest(a)
          \/ Connect(a)
          \/ Disconnect(a)
          \/ \E late \in BOOLEAN : RecordFreshTunnel(a, late)

Hosts ==
    \E a \in Agents :
        \/ Deliver(a)
        \/ \E k \in host[a].commands : Execute(a, k) \/ Fail(a, k)
        \/ \E k \in Outstanding(a) : ExpireCommand(a, k)

CampaignNext == Administrator \/ Worker \/ Maintenance \/ Traffic \/ Hosts

CampaignSpec == CampaignInit /\ [][CampaignNext]_campaignVars

(***************************************************************************)
(* Properties                                                              *)
(***************************************************************************)
(* While a host holds a command, or one is on its way, that it may still   *)
(* execute, its agent is fenced and serves no public request: the fence is *)
(* kept through pauses, cancellations, retries, timeouts and restarts      *)
(* (tryAdvanceAgentUpdateAssignmentLocked and everything after it).        *)
QuarantinedWhileCommanded ==
    \A a \in Agents : Outstanding(a) # {} => a \in srv.fence /\ srv.active[a] = 0

(* The fence and the tables agree: what routing skips is what a restart    *)
(* would skip (reloadAgentUpdateCordons).                                  *)
FenceMatchesRows ==
    srv.fence = {a \in Agents : \E c \in ActiveIn(srv, a) : srv.row[c][a].cordoned}

Separate ==
    \A c, d \in Campaigns : c # d => Members(c) \cap Members(d) = {}

(* With an agent in at most one campaign, routing skips exactly the agents *)
(* the tables cordon, before and after a restart, and among them every     *)
(* agent whose host may still execute a command                            *)
(* (setAgentUpdateCordon, clearAgentUpdateCordon).                         *)
FenceSound == Separate => QuarantinedWhileCommanded /\ FenceMatchesRows

(* No more agents are out of service than the policy allows, none beyond  *)
(* the canaries before every canary has succeeded, and agents of different *)
(* waves never together, whatever was paused, retried or restarted on the  *)
(* way (agentUpdateCohortEligibleQuery,                                    *)
(* releaseNextAgentUpdateStageCohortLocked).                               *)
RolloutBounded ==
    \A c \in Campaigns :
        LET out == {a \in Members(c) : srv.row[c][a].cordoned} IN
        /\ Cardinality(out) <= MaxUnavailable
        /\ \A a \in out, b \in Members(c) :
             /\ Ordinal(c, a) > CanaryCount /\ Ordinal(c, b) <= CanaryCount
                  => srv.row[c][b].state = "succeeded"
             /\ b \in out => CohortNo(Ordinal(c, a)) = CohortNo(Ordinal(c, b))

(* An agent that had a command comes back into service only with a live    *)
(* connection of the build its host runs, the release on success and not   *)
(* the release after a rollback, and with no command left to execute       *)
(* (reconcileAgentUpdateSuccessLocked).                                    *)
ReturnsProven ==
    [][\A c \in Campaigns, a \in Agents :
         (/\ srv.row[c][a].cordoned /\ ~srv'.row[c][a].cordoned
          /\ srv.row[c][a].authorization # "none") =>
           /\ srv'.conn[a].phase # "none" /\ srv'.conn[a].build = host'[a].build
           /\ (host'[a].build = c) <=> (srv'.row[c][a].state = "succeeded")
           /\ Outstanding(a)' = {}]_campaignVars
=============================================================================
