# Formal models of p2pstream

p2pstream is a reverse proxy. A *server* terminates public traffic, chooses a
route and a target, and carries the request either directly to the target or
through a tunnel to an *agent* that an operator runs inside another network.
This directory holds TLA+ models of the parts of it whose correctness depends
on the order of events, TLC configurations that check them on small instances,
and TLAPS proofs of the most important properties for every instance.

`PROJECT.json` is the index: components, runs, which source lines each
definition models (`map`), a faulty variant for every property (`mutants`),
the hazards the properties are aimed at, and the theorems.

## 1. Inventory

| component | state it keeps | operations | what is hard | correct when | module |
|---|---|---|---|---|---|
| Lane ownership (`internal/tunnel/lane_owners.go`) | per lane: owners, serving pointer, prepaid baseline, growth; per owner: session, opens in flight, streams, idle epoch | acquire, attach, publish, open, register, grow, close | handlers, dialers, monitors and the generation's close interleave; the idle check is made outside the lock | memory is never refunded while a stream can still use it; only idle lanes are replaced | `LaneOwners` |
| Stream capacity (`internal/server/agent_stream_capacity.go`) | budgets in use, per-session counters, queues of waiters, resource sample, external reservations | acquire, tryAcquire, dispatch, mark live or closing, release, register, sample, reserve | expiry races grants; samples complete out of order; limits depend on the queue | counters equal the leases; no waiter is left that could go; turns are fair | `StreamCapacity` |
| Lane handoff (`tunnel/lane_retirement.go`, `agent/lane_retirement.go`) | the two wires of a lane and how far their handshake is | prepare, publish, fence, commit, accept | loss of a wire between the steps | no stream is cut by a handoff; both ends agree again | `LaneHandoff` |
| Agent hub and tunnel lifecycle (`server.go`, `agent_hub.go`, `agent_registry.go`, `agent_tunnels.go`) | connected generation of an agent, its lanes, its database row, its token | connect, join a group, displace, revoke, rotate, delete, clean up | two connections of one agent overlap; the auth lock is given up half way | one connection per agent, with the current token; whoever ends last takes everything back | `AgentHub` |
| Target health (`public_target_health.go`) | loops, streaks, verdicts, cooldowns, generations | reconcile, probe, record, mark, agent events | probes of an old configuration complete late | one loop per path; a stale probe changes nothing; a sound path returns | `TargetHealth` |
| Response cache (`public_cache.go`) | rows, body files, index, memory copies, counters, generation | look up, open, fill, commit, purge, clean up, reconfigure | all responses of a key share one path; purges race fills | headers and body belong together; what was purged stays purged; counters are exact | `ResponseCache` |
| Host updater (`internal/updater`) | files: journal, slots, current link, counters, receipts | stage, activate, recover, roll back, prune | crash between any two file operations | always a bootable current slot; authorizations used once | `Updater`, `RootActions` |
| Update campaigns (`server/agent_updates.go`) | campaigns, assignments, fence, signed commands | create, pause, resume, cancel, retry, check, report, maintain | signed commands outlive the state that issued them; reports come late, twice or never | a host that may restart gets no requests; cohorts go one by one; agents come back on proof | `UpdateCampaign` |
| Transport pools (`agent_transport_pool.go`, `agent_request_limiter.go`) | idle and busy pooled connections | dial, return, reclaim, close a lane | reclaim races reuse | a lease is released when its stream is | - |
| Agent (`internal/agent`) | lanes, backoff, its own admission | connect, reconnect, accept a stream, relay, retire a lane | half-open streams and shutdown | relays end with their stream | `LaneHandoff` (lanes) |
| Routing, retries, load balancing | attempt, replayable body, weights | match, dial, select, retry | what was sent before a failure | no request with side effects is sent twice | - |
| Rate limits, waiting room, login throttle | bounded tables, buckets | admit, refund, evict | clocks | bounds hold | - |
| Listeners and configuration, management TLS | running listeners, certificates, generations | reload, rotate, stop | restart between two steps | old and new overlap only as allowed | parts in `TargetHealth`, `ResponseCache` |
| Management API, access, dashboard, observability, database | rows | CRUD | - | transactions of the database | - |

Interactions: the tunnel handler of the server acquires a lane owner, whose
baseline and growth are external reservations of the capacity ledger; it
registers the agent generation as a session of that ledger. The dialer selects
a lane, takes a lease of the ledger, pins the lane's owner while it opens the
stream, marks the lease live, and returns both when the stream is closed.
Closing the generation wakes the monitors, which join the sessions and return
everything to the ledger. A hub event tells the health monitor that an agent
came or went; a campaign's fence keeps an agent out of routing and out of the
health verdicts; a receipt of the updater makes the server revoke the agent's
connection, and the tunnel that follows is the campaign's evidence. Where one
module needs another component it keeps that component's observable state only:
`AgentHub` and `LaneHandoff` have the states of the lane owners, `UpdateCampaign`
has the hosts' commands and results, `TargetHealth` has the hub's events.

## 2. Order of the work

What protects memory and requests on the hot path first, then what survives
restarts, then the policies: `LaneOwners` with its proofs, `StreamCapacity`,
`Updater` with `RootActions`, `AgentHub`, `LaneHandoff`, `TargetHealth`,
`ResponseCache`, `UpdateCampaign`. All of these are modelled and checked.

Every invariant and every action property that a passing run checks is proved as
well (section 5); what is left to TLC is liveness.

## 3. Modules and how they correspond to the code

### LaneOwners

One step is one critical section of `LaneOwners.mu`, or one call made outside
it (`Session.Close`, `OpenStream`, `openings.Wait`, the endpoint's `release`).

| code | model |
|---|---|
| `laneOwnerSlot` | `slotOwners`, `serving`, `reserved`, `release`, `slotGrowth` |
| `LaneOwner.state`, `closed`, `session`, `once` | `state`, `closed`, `session`, `closePc` |
| `activity` (compared for equality only) | `obs[o]`: the reading of a replacement becomes outdated whenever the code increments the epoch |
| `idleSince`, wall clock | `idleSince` in ticks, saturating at `Quiet`; `Tick` |
| `openings`, `openingCount` | `Pins(o)`: the openers between `BeginOpen` and the end of `FinishOpen` |
| `application`, Yamux's stream map | `application`, `wire` |
| the tunnel handler's locals | `pred`, `obs`, `expected`; `Probe`, `Acquire`, `Attach`, `Publish...`, `Commit`, `CloseOwner` |
| the monitor goroutine | `monitor`; `MonitorStop`, `MonitorClose` |
| the endpoint's memory ledger | `ledger` (baseline tokens), `grown` |

`CloseOwner` covers the three callers of `LaneOwner.Close` besides the
monitor: a handler that fails (its deferred `releaseSessionResource`), the
break-before-make of a peer without retirement, and the close of the
generation. `SessionEnd`, `WireDone` and `ReceiveOwnersDrained` are what the
registry sees of a Yamux session (`third_party/yamux`). A unit of growth is
returned in the code's two halves, the endpoint's ledger first (`Repay`) and the
counters in a critical section of their own afterwards (`Uncount`); `grown` is
what an owner still holds in the ledger, `counted` its share in the counters, and
whoever called `Release` goes on when nothing is left (`Returned`). `quietFor` is a history variable, used only by `IdleHandoff`.

### StreamCapacity

One step is one critical section of `agentStreamCapacityManager.mu` up to its
`dispatchLocked`; the dispatcher then runs with the lock held (`mu =
"dispatch"`), one pass of its outer loop per step, because contexts expire
between the passes. `pc` is the progress of a dial
(`dialViaAgentWithCapacity`): the pooled class tries first and waits for the
three constraints that pass by themselves (`Waitable`), the others wait at
once. A session key stands for a connected generation: it is registered once,
with its first lane, and unregistered at its cleanup.

A pass of the dispatcher (`Dispatch`) looks for the first queue from the cursor
with a waiter it can act on (`FirstActionable`), and cancels or grants it
(`CancelWaiter`, `GrantWaiter`); when there is none, it ends (`DispatchEnds`).
`passed` is a history variable: for a queued waiter, the queues that were served
since its own was, as long as each of them stayed non-empty and every pass could
have granted the waiter. `FairTurn` says that no queue in it is served again.

Abstractions: memory bytes and descriptors are counted in stream charges, so a
snapshot is a generation and a limit, and `RejectNew` is a limit of 0; the
sensors yield any limit of `SampledLimits`; a sample is due whenever it may be;
metrics, identifiers and error wrapping are left out. `validateInvariants` of
the code is `Accounting` and `QueueConsistent`.

### Updater and RootActions

`RootActions` is what the privileged half of the updater promises the server:
signed commands are accepted one at a time in the order of their sequence
numbers, each at most once; an accepted command either commits, which appends
one receipt, or aborts; the slot in effect changes with a receipt only. The one
exception (`FallBack`) is the code's: the journal that reinstalls the active
release names that release's recovery slot as the previous one, so an
interrupted reinstallation takes the host back to the recovery slot, although
`docs/operations/managed-agent-updates.md:222` speaks of "the prior slot".

`Updater` is the host. `root` and `staging` are the files of the two
directories, the only state that survives a kill or a reboot; a file with a
command is the command's sequence number, a file with a journal or a receipt is
a `Journal`.

| code | model |
|---|---|
| `activation.json`, `rollback-journal.json` | `root.journal`, `root.rollbackJournal`; phases prepared, switched, done |
| `activation-command.json`, `rollback-command.json` | `root.activationClaim`, `root.rollbackClaim` |
| `management-command-floor.json`, `floor.json`, `root-action-counter.json` | `root.commandFloor`, `root.releaseFloor`, `root.counter` |
| `current`, `current-slot.json`, `previous.json`, slots | `root.current`, `root.meta`, `root.previous`, `root.slots`; `root.husks` are slot directories an interrupted prune has emptied |
| `runActivator` and what it calls | `pc`: one label per durable write, read-only checks belong to the step they guard |
| `worker.lock` | `worker # Idle` |
| systemd's path unit | `PathExists` in `runActivator` |
| `systemctl restart` and `is-active` | `Restart(healthy)`, any outcome |

Every error return is a step to `fail` (`QuarantineActivationFailure`).
`CallFails` lets any file operation fail, including the two places where the
code has an error path of its own; `Kill` and `Reboot` stop the activator
anywhere. Reports may be lost, acknowledged and lost, or repeated
(`WorkerReportAgain`, which also stands for the first of the two reports of an
activation). `clearStaged` is one step although it removes four files: it holds
the worker's lock, and a crash in its middle leaves a candidate that is staged
again. A write that fails has not happened: an error of the `fsync` after a
rename is not modelled. Sequence numbers, releases and slots are their own
identity, so a digest or signature never mismatches; clock skew and the
rotation of the authority are left out.

The refinement mapping of `ImplementsRootActions`: `used` is the command floor;
`open` holds while a journal that is prepared or switched belongs to that
command; `slot` is the result of a journal that is done and not yet persisted,
else the metadata; `recovery` is where the latest activation came from;
`ledger` is a history variable that grows with the journal write that makes a
receipt durable.

### AgentHub

One agent: its auth lock, its hub entry and its database rows are all per
agent. An upgrade request is handled once; the connection it creates, its
session, its lane owner and its monitor are named by it.

| code | model |
|---|---|
| `agentTunnelHandler` | `pc[r]`: authenticated, owned, attached, commit, register, replace, retire |
| the monitor goroutine | `pc[r]`: monitor, cleanup |
| `lockAgentAuth` | `authLock` |
| `agentHub.byID`, `byPublicID` | `hub` |
| `AgentConn.tunnels`, `Done`, capacity session | `tunnels`, `done`, `registered` |
| `agents` and `agent_connections` rows | `row`, `token`, `dbRow`, `lastSeen` |
| `RotateAgentToken`, `UpdateAgent`, `DeleteAgent`, the revocation of an update report | actions of these names |

A database write that fails is logged and not repeated: a row may be missing,
open without the agent having been recorded as connected ("unmarked"), or still
open after the one attempt to close it ("stale"); the next start closes those
(`Restart`, whose own writes may fail as well).

`unwatched` is a history variable: a handoff of the connection failed after it
gave up the auth lock, which is the one way a connection is left behind
(finding `hub_ghost`).

### LaneHandoff

Both ends of one bulk lane. An attempt is an upgrade request with everything
either end makes for it; `peer` and `host` are its progress at the agent and at
the server, `link` and `mail` the wire between them, `supervisor` the agent's
`serveRetiringTunnelLane` with its timer and its backoff, `streams` the
application streams, of which one whose SYN is on its way is told apart from one
the agent knows. A wire, a request or a handshake can fail at any point, up to
`MaxFaults` times.

### TargetHealth

One target with its direct path and a path per agent. `path` is the check state
of a path, `loops` the goroutines that probe it; probes run outside the
monitor's mutex, so a loop is at "check", "probe" or "record" while anything
else happens. A refresh loads its configuration under `publicConfigRefreshMu`
and reconciles later; a stop does not take that lock. Streaks stop at their
threshold, and a cooldown is a flag that time takes away.

### ResponseCache

One rule and the digests of one lookup key. A stored response is a token; its
row, its body file, its index entry and its memory copy each hold the token of
the response they belong to, which is what `BodyMatchesHeaders` compares. A
request passes through `stage`: the capture of generation and snapshot, cleanup,
lookup in index or database, open, or fetch, rename, upsert and publication of a
new response. The key's stripe and the store gate are `Fenced` and `gate`.
Purges, rule edits and deletions, settings, refreshes, expiry and a crash race
with it. When the upsert of a store fails, the old body is put back, or the path
is emptied, or, when both file operations fail, the new body stays
(`UpsertFails`). `boundary`, `begun`, `cascaded` and `strays`, the bodies that
stayed in this way, are history.

### UpdateCampaign

`srv` is the server (tables, fence, connections, running requests), `host` the
hosts (the build they run, the commands they hold or that are on their way, what
they have to report). A handler is one step, since its database work is a
transaction or is done under `agentUpdatesMu`; `CheckAgentUpdate` takes the lock
three times and is three steps. A maintenance pass keeps the lock over many
transactions, and `pass` is what it has left to do: `BeginPass` reads the rows and
decides what to do with each, `PassAdvance`, `PassReconcile` and `PassBlock` take
them in order, each looking at its row again, `PassRelease` releases cohorts and
`EndPass` completes campaigns. Whatever takes the lock waits (`Locked`); requests,
connections, hosts and the creation of a campaign do not, so a pass acts on
decisions that may be outdated.

| code | model |
|---|---|
| `agent_update_assignments` | `Row`; digests, nonces and counters are the command they identify |
| `agentUpdateCordoned` | `srv.fence`, read by `BeginRequest` |
| `fresh_tunnel_at`, `ConnectedAt` | `conn.phase`: made before the receipt, after it, recorded |
| `agentUpdateCohortEligibleQuery` | `CohortNo`, `Cohort`, `Hindrances` |
| deadlines and the healthy dwell | parameters `late` and `dwelt` of the steps that look at the clock |
| `reconcileAgentUpdateMaintenance` | `pass` and the six actions above; `late` is the set of agents whose deadline is over when the rows are read |
| `ReportAgentUpdate` | one action per kind of report; a lost answer repeats the report |
| the updater of a host | `Deliver`, `Execute`, `Fail`, `ExpireCommand`; its steps are in `Updater` |
| `TargetHealth.agentAvailable` | parameter `up`, any set of agents; `Readings`: a handler may read it twice |
| `agentHub.replace`, `retireDisplacedAgentConnection` | `Connect`, also over a connection that still lives |

The state "activating", which no code sets, and the failure of an
administrator's call with an old campaign generation are left out; so is the
window in which a fence is set before the transaction that justifies it, which
only adds to the fence.

### Modules for TLC

Several components share a run where their state spaces are small enough:
`MCConnections`, `MCLiveness`, `MCServices` and `MCStreamCapacity` have a
variable (`part`, `scenario`) that chooses in the initial state which component
or configuration a behaviour is of; the others stay as they began, so a run's
states are the sum of its parts'.

## 4. Runs

| run | instance | shows |
|---|---|---|
| `lanes` | 1 lane, 2 owners, 1 opener, quiet of 1 tick, 1 unit of growth, fair | `TypeOK`, `BaselineCovered`, `SlotConsistent`, `DrainingIsIdle`, `GrowthBalanced`, `IdleHandoff`, `GrowthDiscipline`, `GenerationRefunded`, `DrainEnds` |
| `capacity_safety` | budgets: 4 dials of 3 classes, 2 sessions, 3 keys, every budget binding; queues: 4 one-shot dials, 2 keys, 1 stream; adaptive: 3 dials, of which one can be replaced by a second controller, limits of 1 and 2, a forced sampler, an external owner | `Accounting`, `HealthReserve`, `NoLeak`, `NoLostWakeup`, `QueueConsistent`, `QueuesFairTurn`, `AdaptiveAdmission` |
| `updater_safety` | 2 releases, 2 commands that may expire, troubles as below | `SettledIsHealthy`, `ReceiptsAreNumbered`, `RecoverySlotsPresent`, `ImplementsRootActions` |
| `updater_liveness` | 1 release, 2 commands that may expire, 1 fault, fair | `ActivationIsDecided`, `RollbackIsDecided`, `ClaimIsDecided` |
| `connections_safety` | hub: 3 upgrade requests, 2 groups, 2 lanes, a rotation, a revocation; health: 4 configurations, 2 loops a path, 3 refreshes; handoff: 3 attempts, 2 streams, 3 faults | `CredentialsCurrent`, `NothingLeftBehind`, `ConnectedIsRecorded`, `LeavesHubWhenDone`, `OneLoopPerPath`, `StaleResultDropped`, `HandoffTruncatesNothing` |
| `services` | cache: 2 clients, 1 key, 2 responses, budgets that evict, 2 operations; campaign: a canary and a wave of one agent each, 2 commands and 2 generations per agent | `BodyMatchesHeaders`, `PurgedStaysPurged`, `UsageExact`, `FenceSound`, `RolloutBounded`, `ReturnsProven` |
| `liveness` | hub: 2 requests, a restart; health: 1 agent path, 3 answers, cordons; handoff: 3 attempts, 2 faults; capacity: 2 dials, a sampler, an external owner | `RowCloses`, `SoundPathReturns`, `LaneIsAgreed`, `AdmissionEnds` |
| `updater_expiry` | 1 command that may expire, 1 fault, fair | violates `RollbackJournalRecovers` |
| `updater_failure` | 1 command, 1 fault | violates `FailureIsSettled` |
| `hub_ghost` | 3 requests | violates `LostAgentLeavesHub` |
| `health_stale` | 1 direct target, 2 origins, fair | violates `StaleResultNeverCounts` |
| `campaign_fence` | 1 agent in 2 campaigns | violates `QuarantinedWhileCommanded` |

### Where the code and its comments, docs or tests disagree

* `updater_expiry`. `rollbackFromPath` writes the prepared journal before
  `continueRollback` records the authorization as used. If the activator stops
  in between and the authorization expires, `ensureAuthorizationConsumed` fails
  on every later run; the journal stays, and because journals are served first,
  no later command is executed, a claimed one included (`ClaimIsDecided` names this
  as the one exception, `RollbackStuck`). The prepared journal of an activation does not
  have this problem, since recovery rolls it back without looking at the
  authorization (`ActivationIsDecided` holds). `runtime.go:395`: "Durable
  journals always recover before a newly published command."
* `updater_failure`. A command that fails before its journal exists leaves
  `failure.json`; published again, it is executed with that report pending, and
  the FAILED report precedes its receipt, which is what the comment at
  `failure.go:65` sets out to prevent.
* `hub_ghost`. A handoff gives up the auth lock before its barrier. If the
  barrier fails after the other sessions ended, the handler undoes its lane and
  returns; the monitors that ran before counted its owner, so none of them was
  the last, and the connection stays in the hub without a session.
* `health_stale`. The generation of a target's state starts again at zero when
  the target is removed and configured anew, so a probe of the previous life
  counts for the new one.
* `campaign_fence`. Pausing or cancelling a campaign publishes the cordon of
  every row it ever had. An agent that failed there and was taken up by a newer
  campaign loses the fence of that campaign while its command is outstanding; a
  restart, a pause of the newer campaign or a retried rollback puts it back.
  With an agent in one campaign the fence is sound (`FenceSound`, `services`).

### Observed while modelling, without a run

* Capacity. "Dispatch remains round-robin across keys"
  (`agent_stream_capacity_runtime.go:53`) is true of grants that nothing
  disturbs only. Taking out an expired waiter sets the cursor back to that
  waiter's queue (`popQueueEntryLocked(index, i, false)`), so a queue may be
  served twice while another one, blocked for a single pass, waits; a grant moves the cursor past queues that were blocked; and a queue that
  empties and fills again joins at the end of the order, which may come before
  older queues as seen from the cursor. `FairTurn` states the turns that are
  kept: a queue that stayed non-empty is not served again while another one
  could have been served at every pass.
* Cache. If the upsert of a replacement fails and neither the old body can be
  renamed back nor the new one removed, a hit that found the old row just before it
  expired is served the new body under the old headers (`strays` excepts such a body
  from `BodyMatchesHeaders`); `commit` only logs the second failure. The cascade of `DeletePublicCacheRule` takes rows stored after the
  rule's purge: the counters drift and the body file is orphaned (`cascaded`
  excepts this case from `UsageExact`). A refresh that loaded the configuration
  before a rule edit may reconcile the old fingerprint after the edit's
  invalidation. The eviction loop of `maybeCleanup` holds the store gate and
  does not end while its deletes keep failing.
* Hub. A failed write of `cleanupAgentConnectionLocked` is logged and never tried
  again: the row of a connection that is gone stays open until the server starts
  again (`dbRow` "stale", which `NothingLeftBehind` and `RowCloses` allow). A failed
  `MarkAgentConnected` leaves a connected agent without the time it connected.
  `ReportAgentUpdate` revokes the connection without the auth lock, and
  `MarkAgentDisconnected` is not called after a rotation or such a revocation.
* Health. `recordAgentExplicitCheck` re-creates the state of an agent that was
  removed, and a probe begun on an agent's old connection counts for its new one.
* Handoff. After the routing switch, a timeout of the fence or of the commit
  closes the new session with its streams, and the draining predecessor is
  closed when quiescent; the lane recovers (`LaneIsAgreed`), but it was not
  preserved.
* Campaigns. A campaign paused by a failure leaves the drains of its other
  agents, for which nothing was signed yet, fenced without a deadline
  (`MaxUnavailable` of 2 or more). A receipt or a FAILED report that arrives
  after the deadline blocked its assignment is refused until an administrator
  retries.

### Bounds

Two owners of a lane are a serving one and its replacement, and a slot never has
more; the theorems of section 5 carry the safety results to any number of
replacements. One opener is enough to break an idle interval, to hold a stream
and to race a close, since openers do not interact except through the counters.
One tick of quiet separates "just became idle" from "idle for the interval".
Four dials fill two queues, exceed every bound of the queue and leave one to
overtake. Two samples of a controller complete out of order, and with two limits
the later one may raise or lower what the earlier one found; a second controller
takes the place of the second public dial (`ControllerBudget`).

For the updater, one release has two slots, which is enough for activation,
reinstallation, rollback and replay; two releases are needed for a slot to
become obsolete and for a candidate to be replaced. `FaultBudget` spends the
faults where they matter: with one release two troubles (a crash and another one
during its recovery, or an expiry of either command), with two releases one fault if the first
command is for the first release. Two commands are enough for one to be
superseded, replayed after the other, or undone by it. In `updater_liveness` an
authorization expires only while its command is in a file and not yet recorded as
used (`Noticed`): before that it is as if the worker had never published it, and
afterwards only the worker looks at it, of which nothing is assumed.

Three upgrade requests are a connection, one that displaces it or joins it, and
a handler in between; two groups tell a join from a displacement, and lane 1 is
handed over while lane 0 is not; a failed database write comes in place of the
revocation (`WriteBudget`). Three attempts of a handoff are a predecessor,
a replacement and a retry. Two loops a path are an old, cancelled one and its
successor. One cache key with two responses is a response and its replacement;
budgets of one body make cleanup evict; `OperationBudget` allows two purges,
edits, refreshes, crashes, expiries or bodies that could not be taken back, or one
that deletes the rule or changes the settings. Purges of several keys at once are
left to the theorem; a crash between a rule edit and the purge that follows it is
in the model, but `PurgedStaysPurged` speaks only of a purge that was completed. Two agents are a canary and a wave; two commands are an
activation and the rollback that supersedes it; two generations are one retry
or cancellation.

Deadlock is not checked: a closed generation, a set of one-shot dials that have
all ended, requests that are each handled once, and a host without commands
really stop.

### Fairness

Lanes: a handler's steps have ten second deadlines, so it commits or gives its
owner up; an `Open` returns at the latest when its session is shut down;
monitors tick every 100 ms; a `Close` that began goes on; Yamux forgets a stream
nobody holds. No fairness on requests giving up their stream, on sessions
failing or on lanes being replaced. Capacity: samples and dispatches finish;
every `acquire` has a context with a timeout; strong fairness of a dial's own
steps, because Go's mutex does not starve a goroutine that competes for it and
its guard may be raised and lowered in between. Updater: the path unit starts
the activator while one of its files exists, and systemd restarts it 30 s after
a failure, so its steps are weakly fair; the start limit of five failures in ten
minutes is taken to be lifted in the end, by time or by an operator. A restart
of a known good slot, tried again and again, comes up in the end (strong
fairness of the healthy outcome of `restartPrevious` and `restartTarget`); the
candidate may fail for ever. Nothing is assumed of the worker and the server.
Hub: handlers and monitors run until they return, the auth lock does not starve
its waiters, and a rotation that began revokes. Health: a loop's probe has a
timeout and its waits end; events and reconciles that began are completed.
Handoff: both programs run on, requests are answered, streams end, and timeouts
come with the bounded faults only.

In the `liveness` run each property has its component's fairness as a premise
(`HubFairness => ...`), because a behaviour is of one component only and the
others' actions are disabled in it.

## 5. Proofs

Each `..._proofs` module extends the module it is about and proves, for every
value of its constants that satisfies the named assumptions, the safety
properties that the runs check on small instances. The bounds of the models
(`MaxCommand`, `MaxFaults`, `MaxRotations`, ...) are arbitrary naturals in the
theorems, so the results do not depend on the instances of section 4. The
assumptions are: types of the constants, null values that are not members, and
for `StreamCapacity` what `validateAgentStreamCapacityConfig` demands. Nothing is
assumed of timing, and the sets of requests, agents or sessions need not be
finite except for the attempts of a lane, the goroutine slots of a target, the
keys of the cache and the agents of a campaign.

Every proof has the same shape: an inductive invariant, one lemma per action (or
per effect that several actions share), and the properties as consequences. TLC
checked each inductive invariant on the runs' instances first.

### LaneOwners

`TypeCorrect`, `Invariance` (the inductive invariant `Inv`), `BaselineIsCovered`,
`SlotsAreConsistent`, `DrainingOwnersAreIdle`, `GrowthIsBalanced`, and the action
properties `HandoffIsIdle` and `GrowthIsDisciplined`. None of these invariants is inductive by itself. `Inv` adds: what
each stage of an owner's `Close` has already done (`OwnerInv`: a session that is
shut down, no pins after the join); that a slot's payment is outstanding exactly
while it has owners and a refund about to be made is nobody else's payment
(`SlotInv`, `RefundInv`); which pairs of states two owners of one slot may be in
(`PairInv`); that a pinned open or a held stream belongs to an owner still in its
slot (`OpenInv`); and that a fresh idle observation implies that nothing was
begun on the observed owner since (`QuietInv`). The last part is what makes
`DrainingIsIdle` survive `PublishIdle`: the epoch, not the counters, carries the
fact over the unlocked window. `GrowthIsDisciplined` adds `GrowthInv`: where the
monitor or `Close` is about to return growth, the session is shut down and nothing
is left on its wire, and streams are only on owners that were published.

`GrowthIsBalanced` is about sums over owners, stated as cardinalities of the sets
of the units that the owners hold (`Units`), so that one unit more or less is one
element more or less and no induction over the owners is needed. Ledger and
counters differ between the two halves of a return, so `BalanceInv` has the exact
equation for the owners' shares in the counters (`counted`), and relates these to
the ledger owner by owner: what an owner holds is its share, or one less while its
return is between the halves. That an owner which has passed the release in its
`Close` has no share left keeps a slot from being dropped with growth counted in it.

### StreamCapacity

`CapacityAccounting`, `CapacityNoLeak`, `CapacityQueuesConsistent`,
`CapacityNoLostWakeup`, `CapacityHealthReserve`, `CapacitySampleCurrent` and
`CapacityTypeCorrect` follow from `CapacityInvHolds`; `CapacityReserveKept` and `CapacityFairTurn` are action
properties. `CapacityInv` is the types, `CountInv` (each of the eight counters is
the cardinality of the leases it stands for), `BudgetInv` (no budget is
exceeded), `DialInv` (a lease is active exactly while a dial holds it or has been
granted it, and only waiting dials are queued), `QueueInv`, `SampleInv` (the
sampling guard is the number of announced samples of the current controller) and
`NoLostWakeup`.

An action is first reduced to its *footprint*: one request granted, returned, or
out of the opening stage, or no lease changed; one waiter enqueued or taken out;
one sample announced or ended. The parts of the invariant are proved for the
footprints, not for each of the actions. A counter changes by the weight of one
request, which needs cardinalities of sets with one member more or less but no
induction. `NoLostWakeup` is preserved because whatever does not dispatch leaves
every waiter as blocked as it was: for each step that ends with the lock free it
is shown that no budget was freed, no limit raised and no competing waiter
taken away.

`ReserveKept` uses that what is withheld for health probes shrinks by no more
than the control streams grow. `CapacitySampleCurrent` needs `CurrentInv`: nothing
is newer than the controller's latest sample, which is in force or carried by a
sampler that has yet to publish it. `FairTurn` needs `TurnInv`: for a waiter that
could have gone at every pass, the scan from the cursor comes to its queue before
it comes to any queue served since. Removals, appends and cursor moves keep that
order (`RemovalKeepsTurns`, `MoveKeepsTurns`: arithmetic on places of a ring).

### Updater

`UpdaterInvHolds`, `UpdaterTypeCorrect`, `UpdaterSettledIsHealthy`,
`UpdaterReceiptsAreNumbered`, `UpdaterRecoverySlotsPresent` and the refinement
`UpdaterImplementsRootActions`, through any number of kills, reboots and failed
calls. The invariant says what a recovery may rely on at every label of the
activator: which journal is open and in which phase (`ControlInv`); that the
command of an undecided journal is the newest used one and has no receipt
(`FloorInv`); that every receipt in a file is an entry of the ledger
(`ReceiptInv`); that the stored counter is the length of the ledger or one behind
it while the latest receipt's journal is open (`CounterInv`); how far the writes
of a healthy activation have come (`PersistInv`); where link, metadata and agent
are (`PlaceInv`); that the slots a journal may lead to are installed and not about
to be pruned (`SlotInv`); and that a journal leads only between the slot in effect
and the recovery slot of the latest activation (`TargetInv`). Since a kill
changes nothing but the activator's label and memory, it preserves the parts
about files by their statement; that is why those parts speak of journals in
files and not only of the label.

In the refinement, `consumeAssignmentAuthorization` and
`ensureAuthorizationConsumed` are `Accept`; `attestActivation` and
`attestRollback`, which make the journal with the receipt durable, commit;
removing the journal of a failed command aborts it; restoring the metadata is a
stutter, or `FallBack` when the journal reinstalled the active release; every
other step is a stutter.

### AgentHub

`HubInvHolds`, `HubTypeCorrect`, `HubCredentialsCurrent`,
`HubConnectedIsRecorded`, `HubNothingLeftBehind` and the action property
`HubLeavesWhenDone`. `HandlerInv` ties the auth lock to the stage of the handler
that holds it, `TokenInv` gives that handler the current credential, and
`JoinInv` and `LaneInv` say which connection a lane's session belongs to.
`CredentialsCurrent` needs all of them, because a handler authenticates, gives
the lock up, and takes it again before it installs. `RecordInv` orders the rows:
between the insertion of a row and its entry in the hub no other event is
recorded, and a row that was never marked claims nothing. `ResidueInv` names, for everything that outlives the sessions of a
connection, the handler or monitor that will clean it up; the exception in it is
the finding `hub_ghost`.

### LaneHandoff

`HandoffInvHolds`, `HandoffTypeCorrect` and the action property
`HandoffIsLossless`. `ProgressInv` bounds how far the two ends of an attempt can be
apart, `WireInv` says what may be in flight, and `FenceInv` that a replacement
which is fenced, or whose agent has or may get the commit, has a predecessor that
is out of routing with no opening on its way. `SupervisorInv` carries this over to
the attempt the agent drains, which it closes when it knows of no stream.

### TargetHealth

`HealthInvHolds`, `HealthTypeCorrect`, `HealthOneLoopPerPath` and the action
property `HealthStaleResultDropped`. `OneLoopPerPath` is inductive with the types;
the other needs `GenerationInv`: a loop's generation is at most the path's, and a
probe of the current generation uses the current configuration. The case of the
finding `health_stale` is excepted by the property, as its comment says.

### ResponseCache

`CacheInvHolds`, `CacheTypeCorrect`, `CacheBodyMatchesHeaders`,
`CachePurgedStaysPurged` and `CacheUsageExact`. `FenceInv`: a store excludes purges and other stores of
its digest. `BodyInv`: outside a store, the file under a digest is the body of its
row or a stray one, or the row is one that no lookup can find any more; within a store the row is
gone or expired, and what a failed store puts back is in order. `PurgeInv`: the
response of a store in flight was not begun before the last purge of its digest.

`CacheUsageExact` is again a sum, and `Bytes` is the cardinality of the set of all
bytes of the stored bodies (`Octets`). Stores of different keys overlap, each with
its row written and its counters not yet adjusted, so the counters need not be
those of the rows. `UsageInv` says whose they are: of the table in which each such
store still has the row it replaces. An adjustment moves that table one key
further, a cleanup or purge removes keys from both, and with no store in between
the two tables are the same.

### UpdateCampaign

`CampaignInvariant`, `CampaignTypes`, `FenceIsSound`, `RolloutIsBounded` and the
action property `ReturnsAreProven`. The only assumptions are types, a finite set
of agents, and that a campaign lists an agent once; that an agent is in one
campaign only (`Separate`) is a premise of `FenceSound`, since the fence is not
sound otherwise (finding `campaign_fence`).

The handlers are operators on the server's state that call each other, so the
invariant is stated of a server and its hosts, `Good(s, h)`, and each operator is
shown to keep it. Its parts:

* `RowsOK`: what the state of an assignment says of its cordon, its command and its
  receipt; a row that only drains has no command, and a receipt of a rollback never
  attests the release it leaves.
* `SeqsOK`: the command of a cordoned row is the last one signed for its agent, and
  with a receipt the host is past it, so nothing signed can be executed any more.
* `UniqueOK`: an agent has at most one active assignment.
* `HostsOK`: a host has only signed commands, reports only what it executed, and is
  connected as the build it runs.
* `CohortsOK`: the agents out of service are within the policy, and every cohort
  before theirs has succeeded. `TryAdvance` looks at both, but at its moment only;
  that success is final and that a retry begins uncordoned keeps them.
* `FencesOK`, with `Separate`: the fence is the cordon; an agent whose row is past
  draining serves no request; and every command that may still be executed belongs
  to such a row. The last part is what a pause, a cancellation or a timeout must
  not lose, because the signed command outlives the state that issued it.

Frame lemmas (`CampaignChange`, `RowChange`) reduce a step to the rows it writes.
For `ReturnsAreProven` it is shown of every operator but `Settle` that a row with a
command which it finds cordoned stays cordoned; `Settle` is reached with complete
evidence only, and `SeqsOK` and `HostsOK` give the rest. A pass in progress needs
no invariant beyond its type: each of its steps looks at the row again, so what
was decided when the rows were read need not hold any more.

### Only model-checked

All liveness properties (`GenerationRefunded`, `DrainEnds`, `ActivationIsDecided`,
`RollbackIsDecided`, `ClaimIsDecided`, `RowCloses`, `SoundPathReturns`,
`LaneIsAgreed`, `AdmissionEnds`): the prover does not handle fairness. The five
runs that expect a violation are counterexamples, which TLC finds and nothing
proves.

## 6. Not modelled

The components with status `not_modelled` in `PROJECT.json`, each with its
reason: generated queries, evaluation of data without
protocol state (rules, manifests, header negotiation, route matching), buckets
and tables behind one mutex whose correctness is arithmetic over the clock,
handlers that are one transaction, the user interface and reporting. Of the vendored
Yamux only what the tunnel code sees of it is modelled. Within the
modelled components: metrics and snapshots, the rate measurement that decides
when a window grows, the sensors behind a resource sample, the test hooks of the
tunnel handler, weighted selection, key digests and TTL evaluation of the cache,
and enrollment, identity keys and the network client of the updater.

The generated protobuf and query code and the management API are most of the
repository's lines; the models cover the code that keeps state over time.
