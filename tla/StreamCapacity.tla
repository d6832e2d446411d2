--------------------------- MODULE StreamCapacity ---------------------------
(***************************************************************************)
(* The server's admission of agent streams                                 *)
(* (internal/server/agent_stream_capacity.go) as the dialer uses it        *)
(* (internal/server/public_routing.go): a stream needs a lease on the      *)
(* total, public, pooled or control budget and on its session's limits; a  *)
(* request that cannot have one waits, bounded, in the queue of its key,   *)
(* and the queues are served round robin.  The same ledger holds the       *)
(* external owners of memory, and a sampler lowers the total when the host *)
(* is under pressure.                                                      *)
(*                                                                         *)
(* agentStreamCapacityManager.mu is `mu`.  A step is a critical section up *)
(* to its dispatchLocked, which then runs, with the lock held, one pass of *)
(* its outer loop per step; contexts may expire between the passes.        *)
(* Resources are counted in stream charges, so an admission limit and the  *)
(* external owners have one unit, and a snapshot that rejects new work is  *)
(* one with limit 0: both refuse every grant and every reservation.        *)
(***************************************************************************)
EXTENDS Integers, FiniteSets, SequencesExt

CONSTANTS
    Requests,     \* dials, each asking for one lease
    Sessions,     \* session keys: authenticated agent generations
    Keys,         \* queue keys: class and target
    class,        \* the class of each request
    queueKey,     \* its queue key
    sessionKey,   \* its session key
    Refreshers,   \* goroutines that force a resource sample
    Reservers,    \* external owners, each of one stream charge
    Total, Public, Pooled, Control,     \* the budgets of the configuration
    MaxWaiters, MaxWaitersPerKey, MaxOpeningPerSession,
    ReservedPublicForOtherSessions,
    DefaultControl,  \* defaultAgentStreamCapacityControlStreams
    NegotiatedLimits,\* the limits sessions register with
    SampledLimits,   \* the admission limits a sample may yield
    MaxGeneration,   \* bound on the samples of one controller
    MaxController    \* bound on the adaptive controllers ever enabled

Classes == {"pooled", "oneshot", "health"}

(* validateAgentStreamCapacityConfig.                                      *)
ASSUME ConfigAssumption ==
    /\ Total \in Nat /\ Public \in Nat /\ Pooled \in Nat /\ Control \in Nat
    /\ Total >= 1 /\ Pooled <= Public /\ Public + Control <= Total
    /\ MaxWaiters \in Nat /\ MaxWaitersPerKey \in 0..MaxWaiters
    /\ MaxWaiters > 0 => MaxWaitersPerKey > 0
    /\ MaxOpeningPerSession \in Nat /\ MaxOpeningPerSession >= 1
    /\ ReservedPublicForOtherSessions \in Nat
    /\ Public > 0 => ReservedPublicForOtherSessions < Public

ASSUME RequestAssumption ==
    /\ class \in [Requests -> Classes]
    /\ queueKey \in [Requests -> Keys]
    /\ sessionKey \in [Requests -> Sessions]
    /\ Requests \cap Refreshers = {}

ASSUME LimitAssumption ==
    /\ NegotiatedLimits \subseteq 1..Total
    /\ SampledLimits \subseteq Nat
    /\ DefaultControl \in Nat /\ MaxGeneration \in Nat /\ MaxController \in Nat

VARIABLES
    mu,          \* "free", or "dispatch" while dispatchLocked runs
    pc,          \* progress of each dial
    ctxDone,     \* requests whose wait context has ended
    status,      \* agentStreamCapacityWaiter.status, "none" for no waiter
    lease,       \* agentStreamCapacityLease.state, "none" for no lease
    usedTotal, usedPublic, usedPooled, usedControl,
    openingBySession, publicOpeningBySession, publicBySession, totalBySession,
    sessionLimits,   \* negotiated limit of a registered session, 0 for none
    everRegistered,  \* sessions that have been registered
    queues, queueKeys, nextQueueKey, waiters,
    controller,  \* adaptiveMemory, 0 for nil
    newest,      \* the latest sample the controller has taken
    snapshot,    \* resourceSnapshot
    sampling,    \* adaptiveSampling
    samp,        \* progress of each caller of refreshAdaptiveCapacity
    sample,      \* the sample it has read and the controller it read it from
    external,    \* reservers that hold their charge (adaptiveExternalBytes)
    passed       \* history: see PassedOver

usedVars    == <<usedTotal, usedPublic, usedPooled, usedControl>>
sessionVars == <<openingBySession, publicOpeningBySession, publicBySession,
                 totalBySession>>
regVars     == <<sessionLimits, everRegistered>>
queueVars   == <<queues, queueKeys, nextQueueKey, waiters>>
leaseVars   == <<lease, usedVars, sessionVars>>
adaptVars   == <<controller, newest, snapshot, sampling, samp, sample>>
vars == <<mu, pc, ctxDone, status, leaseVars, regVars, queueVars, adaptVars,
          external, passed>>

Samplers  == Requests \cup Refreshers
Snapshots == [gen : 0..MaxGeneration, limit : Nat]
DialPcs   == {"idle", "try", "tryLock", "acquire", "lock", "waiting",
              "giveback", "holding", "ended", "failed"}
Active    == {"opening", "live", "closing"}

(* One type invariant for the manager.                                     *)
TypeOK ==
    /\ mu \in {"free", "dispatch"}
    /\ pc \in [Requests -> DialPcs]
    /\ ctxDone \in SUBSET Requests
    /\ status \in [Requests -> {"none", "queued", "granted", "canceled"}]
    /\ lease \in [Requests -> Active \cup {"none", "released"}]
    /\ usedTotal \in Nat /\ usedPublic \in Nat
    /\ usedPooled \in Nat /\ usedControl \in Nat
    /\ openingBySession \in [Sessions -> Nat]
    /\ publicOpeningBySession \in [Sessions -> Nat]
    /\ publicBySession \in [Sessions -> Nat]
    /\ totalBySession \in [Sessions -> Nat]
    /\ sessionLimits \in [Sessions -> 0..Total]
    /\ everRegistered \in SUBSET Sessions
    /\ queues \in [Keys -> Seq(Requests)]
    /\ queueKeys \in Seq(Keys)
    /\ nextQueueKey \in Nat /\ waiters \in Nat
    /\ controller \in 0..MaxController
    /\ newest \in Snapshots /\ snapshot \in Snapshots
    /\ sampling \in Nat
    /\ samp \in [Samplers -> {"none", "due", "read", "publish"}]
    /\ sample \in [Samplers -> [of : 0..MaxController, val : Snapshots]]
    /\ external \in SUBSET Reservers
    /\ passed \in [Requests -> SUBSET Keys]

NoSample == [gen |-> 0, limit |-> 0]

Init ==
    /\ mu = "free"
    /\ pc = [r \in Requests |-> "idle"]
    /\ ctxDone = {}
    /\ status = [r \in Requests |-> "none"]
    /\ lease = [r \in Requests |-> "none"]
    /\ usedTotal = 0 /\ usedPublic = 0 /\ usedPooled = 0 /\ usedControl = 0
    /\ openingBySession = [s \in Sessions |-> 0]
    /\ publicOpeningBySession = [s \in Sessions |-> 0]
    /\ publicBySession = [s \in Sessions |-> 0]
    /\ totalBySession = [s \in Sessions |-> 0]
    /\ sessionLimits = [s \in Sessions |-> 0]
    /\ everRegistered = {}
    /\ queues = [k \in Keys |-> <<>>]
    /\ queueKeys = <<>> /\ nextQueueKey = 0 /\ waiters = 0
    /\ controller = 0
    /\ newest = NoSample
    /\ snapshot = NoSample
    /\ sampling = 0
    /\ samp = [p \in Samplers |-> "none"]
    /\ sample = [p \in Samplers |-> [of |-> 0, val |-> NoSample]]
    /\ external = {}
    /\ passed = [r \in Requests |-> {}]

-----------------------------------------------------------------------------
(* What may be granted.                                                    *)
IsPublic(c) == c # "health"

AtLeastZero(n) == IF n < 0 THEN 0 ELSE n

LesserOf(a, b) == IF a < b THEN a ELSE b

(* AdmissionLimitWithExternal: -1 when external owners alone overdraw it.  *)
AdmissionLimitWithExternal(owners) ==
    LET n == Cardinality(owners) IN
    IF n > snapshot.limit THEN -1 ELSE snapshot.limit - n

EffectiveAdmissionLimit == AtLeastZero(AdmissionLimitWithExternal(external))

(* Faulty: nothing is withheld for health probes.                          *)
UnprotectedPublicLimit == LesserOf(EffectiveAdmissionLimit, Public)

(* What is withheld from public work for trusted health probes.            *)
ProtectedControl ==
    LET wanted == LesserOf(Control, DefaultControl) IN
    IF wanted >= EffectiveAdmissionLimit
    THEN AtLeastZero(EffectiveAdmissionLimit - 1) ELSE wanted

AdaptivePublicLimit ==
    LesserOf(AtLeastZero(EffectiveAdmissionLimit - ProtectedControl), Public)

SessionLimit(s) ==
    IF sessionLimits[s] > 0 /\ sessionLimits[s] < Total
    THEN sessionLimits[s] ELSE Total

registeredSessions == {s \in Sessions : sessionLimits[s] > 0}

Queued == UNION {ToSet(queues[k]) : k \in Keys}

HasPublicWaiterForOtherSession(s) ==
    \E r \in Queued : sessionKey[r] # s /\ IsPublic(class[r])

(* Faulty: public openings may take every opening of a session.            *)
OpeningLimitUnreserved == MaxOpeningPerSession

PublicSessionLimit(s) ==
    IF /\ ReservedPublicForOtherSessions > 0
       /\ Cardinality(registeredSessions) > 1
       /\ HasPublicWaiterForOtherSession(s)
       /\ s \in registeredSessions
    THEN Public - ReservedPublicForOtherSessions ELSE Public

PublicOpeningLimitPerSession ==
    IF \/ MaxOpeningPerSession >= Total \/ Control <= 0 \/ MaxOpeningPerSession <= 1
    THEN MaxOpeningPerSession
    ELSE MaxOpeningPerSession
            - LesserOf(LesserOf(Control, DefaultControl), MaxOpeningPerSession - 1)

CanGrant(c, s) ==
    /\ controller > 0 =>
          /\ usedTotal < EffectiveAdmissionLimit
          /\ IsPublic(c) => usedPublic < AdaptivePublicLimit
    /\ usedTotal < Total
    /\ totalBySession[s] < SessionLimit(s)
    /\ openingBySession[s] < MaxOpeningPerSession
    /\ IsPublic(c) =>
          /\ usedPublic < Public
          /\ publicBySession[s] < PublicSessionLimit(s)
          /\ publicOpeningBySession[s] < PublicOpeningLimitPerSession
    /\ c = "pooled" => usedPooled < Pooled
    /\ c = "health" => usedControl < Control

(* The first constraint in the way, "fair_turn" when there is none.        *)
OpeningLimited(c, s) ==
    \/ openingBySession[s] >= MaxOpeningPerSession
    \/ IsPublic(c) /\ publicOpeningBySession[s] >= PublicOpeningLimitPerSession

ResourcePressure(c) ==
    /\ controller > 0
    /\ \/ EffectiveAdmissionLimit < Total /\ usedTotal >= EffectiveAdmissionLimit
       \/ /\ IsPublic(c)
          /\ AdaptivePublicLimit < Public /\ usedPublic >= AdaptivePublicLimit

BlockingConstraint(c, s) ==
    IF ResourcePressure(c) THEN "resource_pressure"
    ELSE IF usedTotal >= Total THEN "total_budget"
    ELSE IF totalBySession[s] >= SessionLimit(s) THEN "session_budget"
    ELSE IF IsPublic(c) /\ usedPublic >= Public THEN "public_budget"
    ELSE IF IsPublic(c) /\ publicBySession[s] >= PublicSessionLimit(s) THEN "session_budget"
    ELSE IF c = "health" /\ usedControl >= Control THEN "control_budget"
    ELSE IF OpeningLimited(c, s) THEN "session_opening_limit"
    ELSE IF c = "pooled" /\ usedPooled >= Pooled THEN "pooled_budget"
    ELSE "fair_turn"

ClassEnabled(c) ==
    CASE c = "pooled"  -> Public > 0 /\ Pooled > 0
      [] c = "oneshot" -> Public > 0
      [] c = "health"  -> Control > 0

(* A queued request of the same side, public or health, could be granted.  *)
HasCompetingWaiter(c) ==
    \E r \in Queued : /\ IsPublic(class[r]) = IsPublic(c)
                      /\ CanGrant(class[r], sessionKey[r])

-----------------------------------------------------------------------------
(* Leases.                                                                 *)
Increment(f, s) == [f EXCEPT ![s] = @ + 1]

(* delete when at most one is left.                                        *)
Decrement(f, s) == [f EXCEPT ![s] = AtLeastZero(@ - 1)]

One(b) == IF b THEN 1 ELSE 0

Grant(r) ==
    LET c == class[r]
        s == sessionKey[r]
    IN
    /\ lease' = [lease EXCEPT ![r] = "opening"]
    /\ usedTotal' = usedTotal + 1
    /\ usedPublic' = usedPublic + One(IsPublic(c))
    /\ usedPooled' = usedPooled + One(c = "pooled")
    /\ usedControl' = usedControl + One(c = "health")
    /\ totalBySession' = Increment(totalBySession, s)
    /\ openingBySession' = Increment(openingBySession, s)
    /\ IF IsPublic(c)
       THEN /\ publicBySession' = Increment(publicBySession, s)
            /\ publicOpeningBySession' = Increment(publicOpeningBySession, s)
       ELSE UNCHANGED <<publicBySession, publicOpeningBySession>>

(* Faulty: only markLive ends an opening.                                  *)
StaysOpening(r) == UNCHANGED <<openingBySession, publicOpeningBySession>>

(* releaseSessionOpeningLocked.                                            *)
ReleaseSessionOpening(r) ==
    /\ openingBySession' = Decrement(openingBySession, sessionKey[r])
    /\ publicOpeningBySession' =
          IF IsPublic(class[r])
          THEN Decrement(publicOpeningBySession, sessionKey[r])
          ELSE publicOpeningBySession

LeavesOpening(r) ==
    IF lease[r] = "opening" THEN ReleaseSessionOpening(r)
    ELSE UNCHANGED <<openingBySession, publicOpeningBySession>>

ReturnBudgets(r) ==
    LET c == class[r]
        s == sessionKey[r]
    IN
    /\ usedTotal' = usedTotal - 1
    /\ usedPublic' = usedPublic - One(IsPublic(c))
    /\ usedPooled' = usedPooled - One(c = "pooled")
    /\ usedControl' = usedControl - One(c = "health")
    /\ totalBySession' = Decrement(totalBySession, s)
    /\ publicBySession' = IF IsPublic(c) THEN Decrement(publicBySession, s)
                                         ELSE publicBySession

-----------------------------------------------------------------------------
(* Queues.  The critical sections below end in dispatchLocked, which does  *)
(* nothing while a sample is in flight or nothing is queued.               *)
StartsDispatch(sampled, queued) ==
    mu' = IF sampled = 0 /\ queued > 0 THEN "dispatch" ELSE "free"

Dispatches == StartsDispatch(sampling, waiters)

Enqueue(r) ==
    LET k == queueKey[r] IN
    /\ queueKeys' = IF queues[k] = <<>> THEN Append(queueKeys, k) ELSE queueKeys
    /\ queues' = [queues EXCEPT ![k] = Append(@, r)]
    /\ waiters' = waiters + 1
    /\ UNCHANGED nextQueueKey

(* Faulty: the cursor is not taken back to the front.                      *)
CursorUnwrapped(cursor, index) == IF index < cursor THEN cursor - 1 ELSE cursor

(* removeQueueKeyAtLocked: the key at index goes, the cursor stays in step.*)
CursorWithout(cursor, index) ==
    LET left   == Len(queueKeys) - 1
        moved  == IF index < cursor THEN cursor - 1 ELSE cursor
    IN  IF left = 0 \/ moved >= left THEN 0 ELSE moved

RemoveQueueKeyAt(index, cursor) ==
    /\ queueKeys' = RemoveAt(queueKeys, index + 1)
    /\ nextQueueKey' = CursorWithout(cursor, index)

(* Faulty: a grant leaves the cursor on the queue it served.               *)
PopWithoutTurn(index, i, advance) ==
    LET k == queueKeys[index + 1]
        left == RemoveAt(queues[k], i)
    IN
    /\ queues' = [queues EXCEPT ![k] = left]
    /\ waiters' = waiters - 1
    /\ IF left = <<>> THEN RemoveQueueKeyAt(index, index)
       ELSE nextQueueKey' = index /\ UNCHANGED queueKeys

(* popQueueEntryLocked.                                                    *)
PopQueueEntry(index, i, advance) ==
    LET k == queueKeys[index + 1]
        left == RemoveAt(queues[k], i)
    IN
    /\ queues' = [queues EXCEPT ![k] = left]
    /\ waiters' = waiters - 1
    /\ IF left = <<>>
       THEN RemoveQueueKeyAt(index, index)
       ELSE /\ UNCHANGED queueKeys
            /\ nextQueueKey' = IF advance THEN (index + 1) % Len(queueKeys)
                                          ELSE index

(* removeWaiterLocked.                                                     *)
RemoveWaiter(r) ==
    LET k == queueKey[r]
        left == RemoveAt(queues[k], CHOOSE i \in DOMAIN queues[k] : queues[k][i] = r)
        index == (CHOOSE i \in 1..Len(queueKeys) : queueKeys[i] = k) - 1
    IN
    /\ queues' = [queues EXCEPT ![k] = left]
    /\ waiters' = waiters - 1
    /\ IF left = <<>> THEN RemoveQueueKeyAt(index, nextQueueKey)
                      ELSE UNCHANGED <<queueKeys, nextQueueKey>>

(* One pass of dispatchLocked: from the cursor on, the first queue that    *)
(* has a waiter to cancel or to grant, and the first such waiter in it.    *)
(* When there is none the scan has come full circle and the lock is freed. *)
Grantable(r) == CanGrant(class[r], sessionKey[r])

Actionable(r) == r \in ctxDone \/ Grantable(r)

Cursor == IF nextQueueKey >= Len(queueKeys) THEN 0 ELSE nextQueueKey

KeyIndex(j) == (Cursor + j) % Len(queueKeys)

QueueAt(j) == queues[queueKeys[KeyIndex(j) + 1]]

Acts(j) == \E i \in DOMAIN QueueAt(j) : Actionable(QueueAt(j)[i])

(* History: a waiter's passed are the queues that were served since its    *)
(* own was, each of them non-empty ever since, while every pass could have *)
(* granted the waiter.                                                     *)
PassedOver(served) ==
    [q \in Requests |->
        IF status[q] = "queued" /\ Grantable(q) /\ queueKey[q] \notin served
        THEN (passed[q] \cup served) \cap ToSet(queueKeys') ELSE {}]

FirstActionable(j, i) ==
    /\ waiters > 0
    /\ \A m \in 0..(j - 1) : ~Acts(m)
    /\ Actionable(QueueAt(j)[i])
    /\ \A m \in 1..(i - 1) : ~Actionable(QueueAt(j)[m])

CancelWaiter(j, i) ==
    /\ QueueAt(j)[i] \in ctxDone
    /\ PopQueueEntry(KeyIndex(j), i, FALSE)
    /\ status' = [status EXCEPT ![QueueAt(j)[i]] = "canceled"]
    /\ passed' = PassedOver({})
    /\ UNCHANGED <<mu, leaseVars>>

GrantWaiter(j, i) ==
    /\ QueueAt(j)[i] \notin ctxDone
    /\ PopQueueEntry(KeyIndex(j), i, TRUE)
    /\ Grant(QueueAt(j)[i])
    /\ status' = [status EXCEPT ![QueueAt(j)[i]] = "granted"]
    /\ passed' = PassedOver({queueKeys[KeyIndex(j) + 1]})
    /\ UNCHANGED mu

DispatchEnds ==
    /\ waiters > 0 => \A j \in 0..(Len(queueKeys) - 1) : ~Acts(j)
    /\ mu' = "free"
    /\ UNCHANGED <<status, leaseVars, queueVars, passed>>

Dispatch ==
    /\ mu = "dispatch"
    /\ \/ \E j \in 0..(Len(queueKeys) - 1) : \E i \in DOMAIN QueueAt(j) :
             FirstActionable(j, i) /\ (CancelWaiter(j, i) \/ GrantWaiter(j, i))
       \/ DispatchEnds
    /\ UNCHANGED <<pc, ctxDone, regVars, adaptVars, external>>

-----------------------------------------------------------------------------
(* The adaptive resource sample.  refreshAdaptiveCapacity(false) reuses a  *)
(* sample that is not yet due; otherwise, and when forced, it announces    *)
(* the sample under the lock, takes it outside, and publishes it.          *)
Reading == {p \in Samplers : samp[p] = "read" /\ sample[p].of = controller}

BeginSample(p) ==
    /\ controller > 0
    /\ newest.gen + Cardinality(Reading) < MaxGeneration
    /\ samp' = [samp EXCEPT ![p] = "read"]
    /\ sample' = [sample EXCEPT ![p] = [of |-> controller, val |-> NoSample]]
    /\ sampling' = sampling + 1
    /\ UNCHANGED <<controller, newest, snapshot>>

(* ForceRefresh takes a sample of the next generation; Snapshot may return *)
(* the one another caller has just taken.  A controller that has been      *)
(* replaced goes on numbering its own samples.                             *)
SampleRead(p, l, forced) ==
    /\ samp[p] = "read"
    /\ samp' = [samp EXCEPT ![p] = "publish"]
    /\ IF sample[p].of = controller
       THEN \/ /\ newest.gen < MaxGeneration
               /\ newest' = [gen |-> newest.gen + 1, limit |-> l]
               /\ sample' = [sample EXCEPT ![p].val = newest']
            \/ /\ ~forced /\ newest.gen > 0
               /\ sample' = [sample EXCEPT ![p].val = newest]
               /\ UNCHANGED newest
       ELSE \E g \in 1..MaxGeneration :
               /\ sample' = [sample EXCEPT ![p].val = [gen |-> g, limit |-> l]]
               /\ UNCHANGED newest
    /\ UNCHANGED <<mu, pc, ctxDone, status, leaseVars, regVars, queueVars,
                   controller, snapshot, sampling, external, passed>>

Published(p) ==
    IF sample[p].val.gen >= snapshot.gen THEN sample[p].val ELSE snapshot

(* Faulty: an out-of-order sample is dropped whole.                        *)
SampleDropped(p) ==
    IF sample[p].val.gen >= snapshot.gen
    THEN /\ snapshot' = Published(p)
         /\ sampling' = sampling - 1
         /\ StartsDispatch(sampling - 1, waiters)
    ELSE UNCHANGED <<snapshot, sampling, mu>>

(* Every completed sample of the current controller lowers the guard and   *)
(* dispatches, an out-of-order one too; one of a replaced controller does  *)
(* nothing.                                                                *)
SampleEnds(p) ==
    /\ snapshot' = Published(p)
    /\ sampling' = sampling - 1
    /\ StartsDispatch(sampling - 1, waiters)

SamplePublish(p) ==
    /\ mu = "free"
    /\ samp[p] = "publish"
    /\ samp' = [samp EXCEPT ![p] = "none"]
    /\ sample' = [sample EXCEPT ![p] = [of |-> 0, val |-> NoSample]]
    /\ IF sample[p].of = controller THEN SampleEnds(p)
                                    ELSE UNCHANGED <<mu, snapshot, sampling>>
    /\ UNCHANGED <<pc, ctxDone, status, leaseVars, regVars, queueVars,
                   controller, newest, external, passed>>

(* enableAdaptiveMemory with a new controller, up to its forced refresh.   *)
EnableAdaptiveMemory(p) ==
    /\ mu = "free"
    /\ samp[p] = "none" /\ controller < MaxController
    /\ controller' = controller + 1
    /\ newest' = NoSample
    /\ snapshot' = NoSample
    /\ sampling' = 0
    /\ samp' = [samp EXCEPT ![p] = "due"]
    /\ UNCHANGED <<mu, pc, ctxDone, status, leaseVars, regVars, queueVars,
                   sample, external, passed>>

(* A forced refresh, that of enableAdaptiveMemory or the monitor's.        *)
ForceRefresh(p) ==
    /\ mu = "free"
    /\ samp[p] \in {"none", "due"}
    /\ BeginSample(p)
    /\ UNCHANGED <<mu, pc, ctxDone, status, leaseVars, regVars, queueVars,
                   external, passed>>

(* tryReserveAdaptiveResourceMode and the release it returns.  The sample  *)
(* its refresh may take is one of the Refreshers'.                         *)
Reserve(e) ==
    /\ mu = "free" /\ sampling = 0
    /\ controller > 0 /\ e \notin external
    /\ AdmissionLimitWithExternal(external \cup {e})
          >= usedTotal + AtLeastZero(ProtectedControl - usedControl)
    /\ external' = external \cup {e}
    /\ UNCHANGED <<mu, pc, ctxDone, status, leaseVars, regVars, queueVars,
                   adaptVars, passed>>

Unreserve(e) ==
    /\ mu = "free"
    /\ e \in external
    /\ external' = external \ {e}
    /\ Dispatches
    /\ UNCHANGED <<pc, ctxDone, status, leaseVars, regVars, queueVars,
                   adaptVars, passed>>

-----------------------------------------------------------------------------
(* Sessions: an agent generation registers with its first lane and is      *)
(* unregistered when it is cleaned up; dials begun before go on.           *)
RegisterSession(s, limit) ==
    /\ mu = "free"
    /\ s \notin everRegistered
    /\ everRegistered' = everRegistered \cup {s}
    /\ sessionLimits' = [sessionLimits EXCEPT ![s] = limit]
    /\ Dispatches
    /\ UNCHANGED <<pc, ctxDone, status, leaseVars, queueVars, adaptVars,
                   external, passed>>

UnregisterSession(s) ==
    /\ mu = "free"
    /\ s \in registeredSessions
    /\ sessionLimits' = [sessionLimits EXCEPT ![s] = 0]
    /\ Dispatches
    /\ UNCHANGED <<pc, ctxDone, status, leaseVars, everRegistered, queueVars,
                   adaptVars, external, passed>>

-----------------------------------------------------------------------------
(* The dial.  A pooled request first tries without waiting.                *)
StartDial(r) ==
    /\ pc[r] = "idle" /\ sessionKey[r] \in everRegistered
    /\ pc' = [pc EXCEPT ![r] = IF class[r] = "pooled" THEN "try" ELSE "acquire"]
    /\ UNCHANGED <<mu, ctxDone, status, leaseVars, regVars, queueVars,
                   adaptVars, external, passed>>

(* The refresh of tryAcquire and of acquire: the sample is fresh, there is *)
(* no controller, or this request takes the sample.                        *)
Refresh(r) ==
    /\ mu = "free"
    /\ pc[r] \in {"try", "acquire"}
    /\ pc[r] = "acquire" => r \notin ctxDone
    /\ pc' = [pc EXCEPT ![r] = IF @ = "try" THEN "tryLock" ELSE "lock"]
    /\ BeginSample(r) \/ UNCHANGED adaptVars
    /\ UNCHANGED <<mu, ctxDone, status, leaseVars, regVars, queueVars,
                   external, passed>>

(* lockAdaptiveAdmission has returned.                                     *)
Admission(r) == mu = "free" /\ samp[r] = "none" /\ sampling = 0

Waitable == {"session_opening_limit", "fair_turn", "session_budget"}

TryAcquire(r) ==
    LET c == class[r]
        s == sessionKey[r]
        constraint == IF ~ClassEnabled(c) THEN "class_disabled"
                      ELSE IF HasCompetingWaiter(c) THEN "fair_turn"
                      ELSE BlockingConstraint(c, s)
    IN
    /\ pc[r] = "tryLock" /\ Admission(r)
    /\ IF ClassEnabled(c) /\ ~HasCompetingWaiter(c) /\ constraint = "fair_turn"
       THEN Grant(r) /\ pc' = [pc EXCEPT ![r] = "holding"]
       ELSE /\ pc' = [pc EXCEPT ![r] = IF constraint \in Waitable
                                       THEN "acquire" ELSE "failed"]
            /\ UNCHANGED leaseVars
    /\ UNCHANGED <<mu, ctxDone, status, regVars, queueVars, adaptVars,
                   external, passed>>

HealthWaiters == Cardinality({r \in Queued : class[r] = "health"})

QueueFull(r) ==
    \/ IF class[r] = "health"
       THEN HealthWaiters >= (IF Control < 1 THEN 1 ELSE Control)
       ELSE waiters - HealthWaiters >= MaxWaiters
    \/ Len(queues[queueKey[r]]) >= MaxWaitersPerKey

(* acquire, when its context has ended before it is admitted.              *)
AcquireExpires(r) ==
    /\ r \in ctxDone
    /\ pc[r] = "acquire" \/ (pc[r] = "lock" /\ samp[r] = "none" /\ mu = "free")
    /\ pc' = [pc EXCEPT ![r] = "failed"]
    /\ UNCHANGED <<mu, ctxDone, status, leaseVars, regVars, queueVars,
                   adaptVars, external, passed>>

Acquire(r) ==
    LET c == class[r]
        s == sessionKey[r]
    IN
    /\ pc[r] = "lock" /\ Admission(r) /\ r \notin ctxDone
    /\ \/ /\ ~ClassEnabled(c)
          /\ pc' = [pc EXCEPT ![r] = "failed"]
          /\ UNCHANGED <<mu, status, leaseVars, queueVars, passed>>
       \/ /\ ClassEnabled(c) /\ ~HasCompetingWaiter(c) /\ CanGrant(c, s)
          /\ Grant(r)
          /\ pc' = [pc EXCEPT ![r] = "holding"]
          /\ UNCHANGED <<mu, status, queueVars, passed>>
       \/ /\ ClassEnabled(c) /\ ~(~HasCompetingWaiter(c) /\ CanGrant(c, s))
          /\ IF QueueFull(r)
             THEN /\ pc' = [pc EXCEPT ![r] = "failed"]
                  /\ UNCHANGED <<mu, status, queueVars, passed>>
             ELSE /\ Enqueue(r)
                  /\ status' = [status EXCEPT ![r] = "queued"]
                  /\ passed' = [passed EXCEPT ![r] = {}]
                  /\ pc' = [pc EXCEPT ![r] = "waiting"]
                  /\ StartsDispatch(sampling, waiters + 1)
          /\ UNCHANGED leaseVars
    /\ UNCHANGED <<ctxDone, regVars, adaptVars, external>>

(* The wait context of acquire ends: its timeout or the caller.            *)
ContextEnds(r) ==
    /\ pc[r] \in {"acquire", "lock", "waiting"} /\ r \notin ctxDone
    /\ ctxDone' = ctxDone \cup {r}
    /\ UNCHANGED <<mu, pc, status, leaseVars, regVars, queueVars, adaptVars,
                   external, passed>>

(* Faulty: a lease granted to an ended context is forgotten.               *)
ReturnForgets(r) ==
    /\ mu = "free"
    /\ pc[r] = "waiting" /\ status[r] \in {"granted", "canceled"}
    /\ pc' = [pc EXCEPT ![r] = IF status[r] = "canceled" \/ r \in ctxDone
                               THEN "failed" ELSE "holding"]
    /\ UNCHANGED <<mu, ctxDone, status, leaseVars, regVars, queueVars,
                   adaptVars, external, passed>>

(* acquire returns: a lease granted to an ended context is given back.     *)
Return(r) ==
    /\ mu = "free"
    /\ pc[r] = "waiting" /\ status[r] \in {"granted", "canceled"}
    /\ pc' = [pc EXCEPT ![r] = IF status[r] = "canceled" THEN "failed"
                               ELSE IF r \in ctxDone THEN "giveback"
                               ELSE "holding"]
    /\ UNCHANGED <<mu, ctxDone, status, leaseVars, regVars, queueVars,
                   adaptVars, external, passed>>

(* acquire's context ends while it is queued.                              *)
Abandon(r) ==
    /\ mu = "free"
    /\ pc[r] = "waiting" /\ r \in ctxDone /\ status[r] = "queued"
    /\ RemoveWaiter(r)
    /\ status' = [status EXCEPT ![r] = "canceled"]
    /\ pc' = [pc EXCEPT ![r] = "failed"]
    /\ passed' = [q \in Requests |-> passed[q] \cap ToSet(queueKeys')]
    /\ StartsDispatch(sampling, waiters - 1)
    /\ UNCHANGED <<ctxDone, leaseVars, regVars, adaptVars, external>>

-----------------------------------------------------------------------------
(* Faulty: no dispatch when an opening ends.                               *)
MarkLiveQuietly(r) ==
    /\ mu = "free"
    /\ pc[r] = "holding" /\ lease[r] = "opening"
    /\ lease' = [lease EXCEPT ![r] = "live"]
    /\ ReleaseSessionOpening(r)
    /\ UNCHANGED <<mu, pc, ctxDone, status, usedVars, publicBySession,
                   totalBySession, regVars, queueVars, adaptVars, external, passed>>


(* The lease's owner: markLive, markClosing, release.                      *)
MarkLive(r) ==
    /\ mu = "free"
    /\ pc[r] = "holding" /\ lease[r] = "opening"
    /\ lease' = [lease EXCEPT ![r] = "live"]
    /\ ReleaseSessionOpening(r)
    /\ Dispatches
    /\ UNCHANGED <<pc, ctxDone, status, usedVars, publicBySession,
                   totalBySession, regVars, queueVars, adaptVars, external, passed>>

MarkClosing(r) ==
    /\ mu = "free"
    /\ pc[r] = "holding" /\ lease[r] \in {"opening", "live"}
    /\ lease' = [lease EXCEPT ![r] = "closing"]
    /\ LeavesOpening(r)
    /\ Dispatches
    /\ UNCHANGED <<pc, ctxDone, status, usedVars, publicBySession,
                   totalBySession, regVars, queueVars, adaptVars, external, passed>>

(* A failed open releases an opening lease, a closed stream a closing one, *)
(* and acquire the one it was granted too late.                            *)
Release(r) ==
    /\ mu = "free"
    /\ \/ pc[r] = "giveback" /\ pc' = [pc EXCEPT ![r] = "failed"]
       \/ /\ pc[r] = "holding" /\ lease[r] \in {"opening", "closing"}
          /\ pc' = [pc EXCEPT ![r] = "ended"]
    /\ lease' = [lease EXCEPT ![r] = "released"]
    /\ LeavesOpening(r)
    /\ ReturnBudgets(r)
    /\ Dispatches
    /\ UNCHANGED <<ctxDone, status, regVars, queueVars, adaptVars, external, passed>>

-----------------------------------------------------------------------------
Sampling ==
    \/ \E p \in Samplers : \E l \in SampledLimits : SampleRead(p, l, p \in Refreshers)
    \/ \E p \in Samplers : SamplePublish(p)
    \/ \E p \in Refreshers : EnableAdaptiveMemory(p)
    \/ \E p \in Refreshers : ForceRefresh(p)

Dial(r) ==
    \/ StartDial(r) \/ Refresh(r)
    \/ TryAcquire(r) \/ AcquireExpires(r) \/ Acquire(r)
    \/ Return(r) \/ Abandon(r)

Stream(r) == MarkLive(r) \/ MarkClosing(r) \/ Release(r)

Next ==
    \/ Dispatch
    \/ Sampling
    \/ \E e \in Reservers : Reserve(e) \/ Unreserve(e)
    \/ \E s \in Sessions : UnregisterSession(s) \/ \E l \in NegotiatedLimits : RegisterSession(s, l)
    \/ \E r \in Requests : Dial(r) \/ ContextEnds(r) \/ Stream(r)

Spec == Init /\ [][Next]_vars

(* Samples and dispatches finish; Go's mutex starves no dial; acquire's    *)
(* context is always one with a timeout.                                   *)
Fairness ==
    /\ WF_vars(Dispatch)
    /\ \A p \in Samplers :
          WF_vars(SamplePublish(p) \/ \E l \in SampledLimits : SampleRead(p, l, p \in Refreshers))
    /\ \A r \in Requests : WF_vars(ContextEnds(r)) /\ SF_vars(Dial(r) \/ Release(r))

-----------------------------------------------------------------------------
Leases(P(_)) == Cardinality({r \in Requests : lease[r] \in Active /\ P(r)})

(* The budgets count the active leases and are never exceeded, in total    *)
(* and per session, whatever order leases are granted, marked and released *)
(* in (validateInvariantsLocked).                                          *)
Accounting ==
    /\ usedTotal = Leases(LAMBDA r : TRUE) /\ usedTotal <= Total
    /\ usedPublic = Leases(LAMBDA r : IsPublic(class[r])) /\ usedPublic <= Public
    /\ usedPooled = Leases(LAMBDA r : class[r] = "pooled") /\ usedPooled <= Pooled
    /\ usedControl = Leases(LAMBDA r : class[r] = "health") /\ usedControl <= Control
    /\ \A s \in Sessions :
          /\ totalBySession[s] = Leases(LAMBDA r : sessionKey[r] = s)
          /\ publicBySession[s] =
                Leases(LAMBDA r : sessionKey[r] = s /\ IsPublic(class[r]))
          /\ openingBySession[s] =
                Leases(LAMBDA r : sessionKey[r] = s /\ lease[r] = "opening")
          /\ publicOpeningBySession[s] =
                Leases(LAMBDA r : /\ sessionKey[r] = s /\ lease[r] = "opening"
                                  /\ IsPublic(class[r]))
          /\ openingBySession[s] <= MaxOpeningPerSession
          /\ publicOpeningBySession[s] <= PublicOpeningLimitPerSession
          /\ s \in registeredSessions => totalBySession[s] <= SessionLimit(s)

(* The round-robin order names exactly the non-empty queues, its cursor is *)
(* in range, and every waiter is queued once, under its own key, within    *)
(* the bounds of acquire.                                                  *)
QueueConsistent ==
    /\ IsInjective(queueKeys)
    /\ ToSet(queueKeys) = {k \in Keys : queues[k] # <<>>}
    /\ nextQueueKey < Len(queueKeys) \/ nextQueueKey = 0
    /\ waiters = Cardinality(Queued)
    /\ waiters - HealthWaiters <= MaxWaiters
    /\ HealthWaiters <= Control
    /\ \A k \in Keys :
          /\ IsInjective(queues[k]) /\ Len(queues[k]) <= MaxWaitersPerKey
          /\ ToSet(queues[k]) =
                {r \in Requests : queueKey[r] = k /\ status[r] = "queued"}

(* No lost wakeup: between critical sections, and unless a sample is in    *)
(* flight, no queued request could be granted.  Whatever frees capacity or *)
(* lowers the sampling guard, in whatever order, dispatches.               *)
NoLostWakeup ==
    mu = "free" /\ sampling = 0 =>
        \A r \in Queued : ~Grantable(r)

(* Admission works with the newest sample: when none is in flight, the one *)
(* published last by generation is the controller's latest, in whatever    *)
(* order the samples of this controller and of replaced ones completed.    *)
SampleCurrent == controller > 0 /\ sampling = 0 => snapshot = newest

(* Every active lease has an owner that will release it: a lease granted   *)
(* to a request that gave up waiting is not forgotten.                     *)
NoLeak ==
    \A r \in Requests : lease[r] \in Active =>
        \/ pc[r] \in {"holding", "giveback"}
        \/ pc[r] = "waiting" /\ status[r] = "granted"

(* Public streams never keep a trusted health probe out: with the control  *)
(* budget and the session's negotiated limit not used up, a probe is       *)
(* refused only behind the session's other probes.  (A session that may    *)
(* open a single stream at a time has no reserve.)                         *)
HealthOpenings(s) ==
    Leases(LAMBDA r : sessionKey[r] = s /\ lease[r] = "opening" /\ class[r] = "health")

HealthReserve ==
    \A s \in Sessions :
        /\ controller = 0
        /\ MaxOpeningPerSession > 1
        /\ usedControl < Control
        /\ totalBySession[s] < SessionLimit(s)
        /\ HealthOpenings(s) < LesserOf(LesserOf(Control, DefaultControl), MaxOpeningPerSession - 1)
        => CanGrant("health", s)

(* The headroom left covers what is withheld for health probes. *)
ControlHeadroom ==
    EffectiveAdmissionLimit - usedTotal >= ProtectedControl - usedControl

KeepsReserve ==
    (controller > 0 /\ ControlHeadroom /\ controller' = controller /\ snapshot' = snapshot)
        => ControlHeadroom'

(* Under pressure, the resources withheld for health probes stay withheld: *)
(* once the headroom left covers them, no grant, reservation or release    *)
(* uses them up; only a new sample may.                                    *)
ReserveKept == [][KeepsReserve]_vars

Granted(r) == status[r] = "queued" /\ status'[r] = "granted"

TakesTurn(r) ==
    \A q \in Requests \ {r} :
        status[q] = "queued" /\ Grantable(q) =>
            IF queueKey[q] = queueKey[r]
            THEN \E i, j \in DOMAIN queues[queueKey[r]] :
                    i < j /\ queues[queueKey[r]][i] = r /\ queues[queueKey[r]][j] = q
            ELSE queueKey[r] \notin passed[q]

TakesTurns == \A r \in Requests : Granted(r) => TakesTurn(r)

(* Fair turns: dispatch grants a waiter only before every waiter of its    *)
(* queue that could be granted as well, and does not serve a queue that    *)
(* stayed non-empty a second time while another one had, at every pass in  *)
(* between, a waiter that could be granted.                                *)
FairTurn == [][TakesTurns]_vars

(* Every dial gets its answer: no admission waits forever for a sampling   *)
(* guard nobody lowers, and no waiter outlives its context.                *)
AdmissionEnds ==
    Fairness =>
        \A r \in Requests :
            pc[r] \in {"try", "tryLock", "acquire", "lock", "waiting", "giveback"}
                ~> pc[r] \in {"holding", "ended", "failed"}
=============================================================================
