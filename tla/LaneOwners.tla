----------------------------- MODULE LaneOwners -----------------------------
(***************************************************************************)
(* The lifetime registry of the tunnel lanes of one authenticated agent    *)
(* generation (internal/tunnel/lane_owners.go), as the server drives it    *)
(* from its tunnel handler (internal/server/server.go) and from the dialer *)
(* of agent streams (internal/server/public_routing.go).                   *)
(*                                                                         *)
(* A lane is served by one Yamux session at a time.  While it is replaced, *)
(* a second session overlaps the first: it is acquired, attached,          *)
(* published once the old one has been idle, and the old one drains.  Both *)
(* baseline slots are paid for before the first session starts, and the    *)
(* payment goes back only when the last session of the lane is joined.     *)
(*                                                                         *)
(* One step is one critical section of LaneOwners.mu, or one call outside  *)
(* it.  LaneOwner.activity, which the code only compares for equality with *)
(* an earlier reading, is modelled by invalidating that reading            *)
(* (obs[o]) whenever the code increments it.  Wall-clock quiet time        *)
(* is counted in ticks up to Quiet, where it saturates.                    *)
(***************************************************************************)
EXTENDS Integers, FiniteSets

CONSTANTS
    Owners,      \* LaneOwner objects, each used for one Acquire
    Openers,     \* goroutines that open one application stream at a time
    Lanes,       \* lane numbers
    lane,        \* LaneOwner.lane: the lane each owner is acquired for
    NoOwner,     \* the nil *LaneOwner
    Quiet,       \* ticks of quiet the handler asks for (retirementQuiet)
    LaneGrowthLimit,        \* AggregateLanePoolLimit, in growth units
    GenerationGrowthLimit   \* AggregateGenerationGrowthBytes, in growth units

ASSUME NoOwnerAssumption == NoOwner \notin Owners
ASSUME LaneAssumption    == lane \in [Owners -> Lanes]
ASSUME QuietAssumption   == Quiet \in Nat
ASSUME GrowthAssumption  == LaneGrowthLimit \in Nat /\ GenerationGrowthLimit \in Nat

VARIABLES
    groupClosed,  \* LaneOwners.closed
    slotOwners,   \* laneOwnerSlot.owners; {} when the lane has no slot
    serving,      \* laneOwnerSlot.serving
    reserved,     \* laneOwnerSlot.reserved in baseline slots, 0 for no slot
    release,      \* laneOwnerSlot.release: the token of the prepaid baseline
    slotGrowth,   \* laneOwnerSlot.growth
    genGrowth,    \* LaneOwners.growth
    state,        \* LaneOwner.state, "unused" before Acquire
    session,      \* LaneOwner.session and whether Yamux has shut it down
    closed,       \* LaneOwner.closed
    closePc,      \* progress of LaneOwner.Close
    refund,       \* the token the last step of Close is about to release
    idleSince,    \* ticks since LaneOwner.idleSince, -1 for its zero value
    application,  \* LaneOwner.application: streams handed to requests
    wire,         \* streams Yamux still tracks on the session
    openPc,       \* progress of each stream opener
    openOn,       \* and the owner it opens on
    obs,          \* PublishWhenIdle's reading of the activity epoch
    expected,     \* and the serving owner it read it from
    pred,         \* the handler's predecessor of a replacement
    monitor,      \* progress of the goroutine that watches a committed owner
    ledger,       \* baseline tokens outstanding in the endpoint's ledger
    grown,        \* growth of each owner outstanding in that ledger
    counted,      \* its share in slotGrowth and genGrowth
    quietFor      \* history: ticks since the last activity on the owner

slotVars   == <<slotOwners, serving, reserved, release>>
growthVars == <<slotGrowth, genGrowth, grown, counted>>
closeVars  == <<closed, closePc, refund>>
openVars   == <<application, wire, openPc, openOn>>
idleVars   == <<idleSince, obs, expected, quietFor>>
handVars   == <<pred, monitor>>

vars == <<groupClosed, slotVars, growthVars, state, session, closeVars,
          openVars, idleVars, handVars, ledger>>

-----------------------------------------------------------------------------

Tokens   == Owners \cup {NoOwner}
OwnerStates == {"unused", "replacement", "serving", "draining"}
ClosePcs == {"none", "session", "wait", "slot", "refund", "done"}
OpenPcs  == {"idle", "opening", "opened", "failed", "registered", "unpin",
             "held", "aborted"}
PinPcs   == {"opening", "opened", "failed", "registered", "unpin"}
MonitorPcs == {"none", "watch", "growth", "done"}
Readings == {"none", "current", "outdated"}

(* One type invariant for the registry. *)
TypeOK ==
    /\ groupClosed \in BOOLEAN
    /\ slotOwners \in [Lanes -> SUBSET Owners]
    /\ serving \in [Lanes -> Tokens]
    /\ reserved \in [Lanes -> 0..2]
    /\ release \in [Lanes -> Tokens]
    /\ slotGrowth \in [Lanes -> Int]
    /\ genGrowth \in Int
    /\ grown \in [Owners -> Nat]
    /\ counted \in [Owners -> Nat]
    /\ state \in [Owners -> OwnerStates]
    /\ session \in [Owners -> {"none", "open", "closed"}]
    /\ closed \in [Owners -> BOOLEAN]
    /\ closePc \in [Owners -> ClosePcs]
    /\ refund \in [Owners -> Tokens]
    /\ application \in [Owners -> SUBSET Openers]
    /\ wire \in [Owners -> SUBSET Openers]
    /\ openPc \in [Openers -> OpenPcs]
    /\ openOn \in [Openers -> Tokens]
    /\ idleSince \in [Owners -> -1..Quiet]
    /\ quietFor \in [Owners -> 0..Quiet]
    /\ obs \in [Owners -> Readings]
    /\ expected \in [Owners -> Tokens]
    /\ pred \in [Owners -> Tokens]
    /\ monitor \in [Owners -> MonitorPcs]
    /\ ledger \in SUBSET Owners

Init ==
    /\ groupClosed = FALSE
    /\ slotOwners = [l \in Lanes |-> {}]
    /\ serving = [l \in Lanes |-> NoOwner]
    /\ reserved = [l \in Lanes |-> 0]
    /\ release = [l \in Lanes |-> NoOwner]
    /\ slotGrowth = [l \in Lanes |-> 0]
    /\ genGrowth = 0
    /\ grown = [o \in Owners |-> 0]
    /\ counted = [o \in Owners |-> 0]
    /\ state = [o \in Owners |-> "unused"]
    /\ session = [o \in Owners |-> "none"]
    /\ closed = [o \in Owners |-> FALSE]
    /\ closePc = [o \in Owners |-> "none"]
    /\ refund = [o \in Owners |-> NoOwner]
    /\ application = [o \in Owners |-> {}]
    /\ wire = [o \in Owners |-> {}]
    /\ openPc = [r \in Openers |-> "idle"]
    /\ openOn = [r \in Openers |-> NoOwner]
    /\ idleSince = [o \in Owners |-> -1]
    /\ quietFor = [o \in Owners |-> 0]
    /\ obs = [o \in Owners |-> "none"]
    /\ expected = [o \in Owners |-> NoOwner]
    /\ pred = [o \in Owners |-> NoOwner]
    /\ monitor = [o \in Owners |-> "none"]
    /\ ledger = {}

-----------------------------------------------------------------------------
(* The pins of LaneOwner.openings: an opener holds one from BeginOpen to   *)
(* the deferred end of FinishOpen.                                         *)
Pins(o) ==
    {r \in Openers : openOn[r] = o /\ openPc[r] \in PinPcs}

(* activity++: earlier readings of it are out of date.                     *)
Outdated(o) ==
    [x \in Owners |-> IF obs[x] = "current" /\ expected[x] = o THEN "outdated" ELSE obs[x]]

(* activity++ and idleSince = time.Time{}.                                 *)
Bump(o) ==
    /\ obs' = Outdated(o)
    /\ UNCHANGED expected
    /\ idleSince' = [idleSince EXCEPT ![o] = -1]
    /\ quietFor' = [quietFor EXCEPT ![o] = 0]

(* Session.ReceiveOwnersDrained, of the vendored Yamux.                    *)
ReceiveOwnersDrained(o) == wire[o] = {}

(* Quiescent: nothing pinned, nothing handed out, nothing on the wire.     *)
Quiescent(o) ==
    /\ Pins(o) = {} /\ application[o] = {}
    /\ session[o] # "none" /\ ReceiveOwnersDrained(o)

-----------------------------------------------------------------------------
(* idleObservation.  Its two critical sections are one step here: it       *)
(* succeeds only if the activity epoch did not change between them, and    *)
(* then what it saw still holds.  An owner that is not idle restarts its   *)
(* quiet period; one that is starts or continues it.                       *)
IdleNow(o) ==
    /\ ~groupClosed /\ ~closed[o]
    /\ Quiescent(o)

Age(o) == IF idleSince[o] = -1 THEN 0 ELSE idleSince[o]

IdleObserved(o) == IdleNow(o) /\ Age(o) >= Quiet

NotedIdle(o) == [idleSince EXCEPT ![o] = IF IdleNow(o) THEN Age(o) ELSE -1]

NotedObs(o) == IF IdleNow(o) \/ idleSince[o] = -1 THEN obs ELSE Outdated(o)

(* The handler's IdleFor on the serving predecessor a peer names; unless   *)
(* it succeeds, the request ends here.                                     *)
Probe(o) ==
    /\ serving[lane[o]] = o
    /\ idleSince' = NotedIdle(o)
    /\ obs' = NotedObs(o)
    /\ UNCHANGED <<groupClosed, slotVars, growthVars, state, session,
                   closeVars, openVars, expected, quietFor, handVars, ledger>>

(* Acquire.  replaces is the predecessor the peer names, NoOwner for none; *)
(* slots is 2 for a peer that negotiated lane retirement and 1 otherwise.  *)
(* A serving predecessor was seen idle just before.  The endpoint's ledger *)
(* may refuse the reservation: then nothing changes.                       *)
SlotAdmits(l, replaces, slots) ==
    \/ /\ slotOwners[l] = {}
       /\ replaces = NoOwner
    \/ /\ slotOwners[l] # {}
       /\ reserved[l] = slots
       /\ Cardinality(slotOwners[l]) < 2
       /\ \/ serving[l] # NoOwner /\ serving[l] = replaces
          \/ /\ serving[l] = NoOwner
             /\ replaces \in slotOwners[l]
             /\ state[replaces] = "draining"

(* Faulty: a replacement adds its own reservation to the slot.             *)
PrepayAgain(o, slots) ==
    /\ reserved' = [reserved EXCEPT ![lane[o]] = @ + slots]
    /\ release' = [release EXCEPT ![lane[o]] = o]
    /\ ledger' = ledger \cup {o}

(* The first owner of a slot pays for the whole slot through reserve.      *)
Prepay(o, slots) ==
    LET l == lane[o] IN
    IF slotOwners[l] = {}
    THEN /\ reserved' = [reserved EXCEPT ![l] = slots]
         /\ release' = [release EXCEPT ![l] = o]
         /\ ledger' = ledger \cup {o}
    ELSE UNCHANGED <<reserved, release, ledger>>

Acquire(o, replaces, slots) ==
    LET l == lane[o] IN
    /\ state[o] = "unused"
    /\ ~groupClosed
    /\ replaces # NoOwner =>
          slots = 2 /\ (state[replaces] = "serving" => IdleObserved(replaces))
    /\ SlotAdmits(l, replaces, slots)
    /\ state' = [state EXCEPT ![o] = "replacement"]
    /\ slotOwners' = [slotOwners EXCEPT ![l] = @ \cup {o}]
    /\ Prepay(o, slots)
    /\ pred' = [pred EXCEPT ![o] = replaces]
    /\ UNCHANGED <<groupClosed, serving, growthVars, session, closeVars,
                   openVars, idleVars, monitor>>

(* Attach: the Yamux session of the upgraded connection is up.             *)
Attach(o) ==
    /\ state[o] = "replacement"
    /\ session[o] = "none"
    /\ ~groupClosed /\ ~closed[o]
    /\ session' = [session EXCEPT ![o] = "open"]
    /\ UNCHANGED <<groupClosed, slotVars, growthVars, state, closeVars,
                   openVars, idleVars, handVars, ledger>>

-----------------------------------------------------------------------------
(* LaneOwner.Close, up to its first critical section.                      *)
BeginClose(o) ==
    /\ ~closed[o]
    /\ closed' = [closed EXCEPT ![o] = TRUE]
    /\ closePc' = [closePc EXCEPT ![o] = "session"]

PredecessorServing(o) == pred[o] # NoOwner /\ state[pred[o]] = "serving"

(* PublishWhenIdle, up to the reading: a failed observation makes the      *)
(* handler give the replacement up.                                        *)
PublishObserve(o) ==
    LET old == serving[lane[o]] IN
    /\ state[o] = "replacement" /\ session[o] # "none"
    /\ PredecessorServing(o)
    /\ ~groupClosed /\ ~closed[o] /\ obs[o] = "none"
    /\ IF old = NoOwner \/ IdleObserved(old)
       THEN /\ obs' = [obs EXCEPT ![o] = "current"]
            /\ expected' = [expected EXCEPT ![o] = old]
            /\ UNCHANGED <<idleSince, closeVars>>
       ELSE /\ idleSince' = NotedIdle(old)
            /\ obs' = NotedObs(old)
            /\ BeginClose(o) /\ UNCHANGED <<refund, expected>>
    /\ UNCHANGED <<groupClosed, slotVars, growthVars, state, session,
                   openVars, quietFor, handVars, ledger>>

(* publish: switch the serving owner; the old one drains.                  *)
Switch(o) ==
    LET l == lane[o]
        old == serving[l]
    IN
    /\ serving' = [serving EXCEPT ![l] = o]
    /\ state' = [s \in Owners |-> CASE s = o -> "serving"
                                    [] s = old /\ s # o -> "draining"
                                    [] OTHER -> state[s]]

(* Faulty: only the serving owner is revalidated, or all but the epoch.    *)
SameServing(o) == serving[lane[o]] = expected[o]

NothingHeldNow(o) ==
    LET old == serving[lane[o]] IN
    /\ old = expected[o]
    /\ old # NoOwner => Pins(old) = {} /\ application[old] = {}

(* publish(expected, epoch, TRUE): the observation must still be current.  *)
IdleStillHolds(o) ==
    LET old == serving[lane[o]] IN
    /\ old = expected[o]
    /\ old # NoOwner => obs[o] = "current" /\ Pins(old) = {} /\ application[old] = {}

PublishIdle(o) ==
    /\ obs[o] # "none"
    /\ obs' = [obs EXCEPT ![o] = "none"]
    /\ expected' = [expected EXCEPT ![o] = NoOwner]
    /\ IF ~groupClosed /\ ~closed[o] /\ IdleStillHolds(o)
       THEN Switch(o) /\ UNCHANGED closeVars
       ELSE /\ UNCHANGED <<serving, state>>
            /\ IF closed[o] THEN UNCHANGED closeVars
                            ELSE BeginClose(o) /\ UNCHANGED refund
    /\ UNCHANGED <<groupClosed, slotOwners, reserved, release, growthVars,
                   session, openVars, idleSince, quietFor, handVars, ledger>>

(* Publish: a first owner, or one whose predecessor already drains.        *)
Publish(o) ==
    /\ state[o] = "replacement" /\ session[o] # "none"
    /\ ~PredecessorServing(o)
    /\ ~groupClosed /\ ~closed[o] /\ obs[o] = "none"
    /\ Switch(o)
    /\ UNCHANGED <<groupClosed, slotOwners, reserved, release, growthVars,
                   session, closeVars, openVars, idleVars, handVars, ledger>>

(* AcknowledgeOpeningFence and CommitLaneRetirement: the agent may give up *)
(* the old session once no open begun before the switch is outstanding on  *)
(* it, or it has been shut down.                                           *)
Commit(o) ==
    /\ state[o] \in {"serving", "draining"} /\ session[o] = "open"
    /\ monitor[o] = "none"
    /\ LET p == pred[o] IN
         p # NoOwner => \/ state[p] = "draining" /\ Pins(p) = {}
                        \/ session[p] = "closed"
    /\ monitor' = [monitor EXCEPT ![o] = "watch"]
    /\ UNCHANGED <<groupClosed, slotVars, growthVars, state, session,
                   closeVars, openVars, idleVars, pred, ledger>>

-----------------------------------------------------------------------------
(* The dialer: BeginOpen on the owner of the session it selected, which    *)
(* may have been replaced or closed since.                                 *)
BeginOpen(r, o) ==
    /\ openPc[r] = "idle"
    /\ \A p \in Owners : r \notin wire[p]
    /\ session[o] # "none"
    /\ ~closed[o] /\ ~groupClosed /\ state[o] = "serving"
    /\ openPc' = [openPc EXCEPT ![r] = "opening"]
    /\ openOn' = [openOn EXCEPT ![r] = o]
    /\ Bump(o)
    /\ UNCHANGED <<groupClosed, slotVars, growthVars, state, session,
                   closeVars, application, wire, handVars, ledger>>

(* Session.OpenStream: succeeds only on an open session, may always fail.  *)
OpenStream(r) ==
    LET o == openOn[r] IN
    /\ openPc[r] = "opening"
    /\ \/ /\ session[o] = "open"
          /\ openPc' = [openPc EXCEPT ![r] = "opened"]
          /\ wire' = [wire EXCEPT ![o] = @ \cup {r}]
       \/ /\ openPc' = [openPc EXCEPT ![r] = "failed"]
          /\ UNCHANGED wire
    /\ UNCHANGED <<groupClosed, slotVars, growthVars, state, session, closeVars,
                   openOn, application, idleVars, handVars, ledger>>

(* FinishOpen: hand the stream out, or reset it when a close has begun.    *)
FinishOpen(r) ==
    LET o == openOn[r]
        refused == openPc[r] = "failed" \/ closed[o] \/ groupClosed
    IN
    /\ openPc[r] \in {"opened", "failed"}
    /\ openPc' = [openPc EXCEPT ![r] = IF refused THEN "unpin" ELSE "registered"]
    /\ wire' = [wire EXCEPT ![o] = IF refused THEN @ \ {r} ELSE @]
    /\ application' = [application EXCEPT ![o] = IF refused THEN @ ELSE @ \cup {r}]
    /\ UNCHANGED <<groupClosed, slotVars, growthVars, state, session, closeVars,
                   openOn, idleVars, handVars, ledger>>

(* Its deferred end: the pin goes.                                         *)
Unpin(r) ==
    /\ openPc[r] \in {"registered", "unpin"}
    /\ openPc' = [openPc EXCEPT ![r] = IF @ = "registered" THEN "held" ELSE "idle"]
    /\ openOn' = [openOn EXCEPT ![r] = IF openPc[r] = "registered" THEN @ ELSE NoOwner]
    /\ Bump(openOn[r])
    /\ UNCHANGED <<groupClosed, slotVars, growthVars, state, session,
                   closeVars, application, wire, handVars, ledger>>

(* The unregister function FinishOpen returned, called when the request is *)
(* done with its stream.                                                   *)
Unregister(r) ==
    LET o == openOn[r] IN
    /\ openPc[r] \in {"held", "aborted"}
    /\ application' = [application EXCEPT ![o] = @ \ {r}]
    /\ openPc' = [openPc EXCEPT ![r] = "idle"]
    /\ openOn' = [openOn EXCEPT ![r] = NoOwner]
    /\ Bump(o)
    /\ UNCHANGED <<groupClosed, slotVars, growthVars, state, session,
                   closeVars, wire, handVars, ledger>>

(* Both FINs have passed and the buffers are empty: Yamux forgets the      *)
(* stream, whether or not the request still holds it.                      *)
WireDone(o, r) ==
    /\ r \in wire[o]
    /\ ~(openOn[r] = o /\ openPc[r] = "opened")
    /\ wire' = [wire EXCEPT ![o] = @ \ {r}]
    /\ UNCHANGED <<groupClosed, slotVars, growthVars, state, session,
                   closeVars, application, openPc, openOn, idleVars, handVars, ledger>>

(* AggregateReceiveWindowGrowth.Grow for a stream being read: reserve one  *)
(* unit of growth, which the endpoint's ledger may also refuse.  Only a    *)
(* lane that can be retired grows.                                         *)
GrowthAllowed(o) ==
    LET l == lane[o] IN
    /\ ~groupClosed /\ ~closed[o] /\ state[o] # "draining"
    /\ slotOwners[l] # {}
    /\ slotGrowth[l] < LaneGrowthLimit
    /\ genGrowth < GenerationGrowthLimit

Grow(o) ==
    /\ session[o] = "open" /\ reserved[lane[o]] = 2
    /\ \E r \in wire[o] \cap application[o] : openPc[r] = "held"
    /\ GrowthAllowed(o)
    /\ slotGrowth' = [slotGrowth EXCEPT ![lane[o]] = @ + 1]
    /\ genGrowth' = genGrowth + 1
    /\ grown' = [grown EXCEPT ![o] = @ + 1]
    /\ counted' = [counted EXCEPT ![o] = @ + 1]
    /\ UNCHANGED <<groupClosed, slotVars, state, session, closeVars,
                   openVars, idleVars, handVars, ledger>>

-----------------------------------------------------------------------------
(* LaneOwners.Close: fence the generation; every owner is then closed.     *)
GroupClose ==
    /\ ~groupClosed
    /\ groupClosed' = TRUE
    /\ UNCHANGED <<slotVars, growthVars, state, session, closeVars,
                   openVars, idleVars, handVars, ledger>>

(* The transport is lost, or the peer ends the session.                    *)
SessionEnd(o) ==
    /\ session[o] = "open"
    /\ session' = [session EXCEPT ![o] = "closed"]
    /\ UNCHANGED <<groupClosed, slotVars, growthVars, state, closeVars,
                   openVars, idleVars, handVars, ledger>>

(* LaneOwner.Close by someone other than the monitor: the handler that     *)
(* returns before it has committed, Close of the generation, and the       *)
(* break-before-make of a reconnecting peer without lane retirement.       *)
CloseOwner(o) ==
    /\ \/ state[o] # "unused" /\ (groupClosed \/ monitor[o] = "none")
       \/ serving[lane[o]] = o /\ reserved[lane[o]] = 1
    /\ BeginClose(o)
    /\ UNCHANGED <<groupClosed, slotVars, growthVars, state, session,
                   refund, openVars, idleVars, handVars, ledger>>

(* Faulty: the growth is returned before the session is closed.            *)
ShutDownLater(o) == UNCHANGED <<session, wire>>

(* session.Close: no worker, stream or buffer of the session is left.      *)
ShutDown(o) ==
    /\ session' = [session EXCEPT ![o] = IF @ = "open" THEN "closed" ELSE @]
    /\ wire' = [wire EXCEPT ![o] = {}]

(* A caller is in AggregateReceiveWindowGrowth.Release; a second one waits *)
(* there until the first has returned everything (releaseOnce).            *)
Releasing(o) == monitor[o] = "growth" \/ closePc[o] = "slot"

Uncount(o) ==
    /\ slotGrowth' = [slotGrowth EXCEPT ![lane[o]] = @ - 1]
    /\ genGrowth' = genGrowth - 1
    /\ counted' = [counted EXCEPT ![o] = @ - 1]
    /\ UNCHANGED grown

Repay(o) ==
    /\ grown' = [grown EXCEPT ![o] = @ - 1]
    /\ UNCHANGED <<slotGrowth, genGrowth, counted>>

(* Faulty: the counters first.                                             *)
UncountThenRepay(o) ==
    \/ counted[o] > 0 /\ counted[o] = grown[o] /\ Uncount(o)
    \/ counted[o] < grown[o] /\ Repay(o)

(* Each lease goes back to the endpoint's ledger first and is taken off    *)
(* the counters afterwards, under LaneOwners.mu.                           *)
RepayThenUncount(o) ==
    \/ grown[o] > 0 /\ counted[o] = grown[o] /\ Repay(o)
    \/ counted[o] > grown[o] /\ Uncount(o)

ReturnGrowth(o) ==
    /\ Releasing(o)
    /\ RepayThenUncount(o)
    /\ UNCHANGED <<groupClosed, slotVars, state, session, closeVars,
                   openVars, idleVars, handVars, ledger>>

(* Release returns.                                                        *)
Returned(o) == counted[o] = 0

(* Faulty: the monitor waits for the session to end.                       *)
NeverFinished(o) == FALSE

DrainFinished(o) == state[o] = "draining" /\ Quiescent(o)

(* The monitor of a committed owner stops watching when the generation is  *)
(* done, the session has ended, or the owner drains and is quiescent.  It  *)
(* closes the session, returns the growth and only then calls Close.       *)
MonitorStop(o) ==
    /\ monitor[o] = "watch"
    /\ \/ groupClosed
       \/ session[o] = "closed"
       \/ DrainFinished(o)
    /\ monitor' = [monitor EXCEPT ![o] = "growth"]
    /\ ShutDown(o)
    /\ UNCHANGED <<groupClosed, slotVars, growthVars, state, closeVars,
                   application, openPc, openOn, idleVars, pred, ledger>>

MonitorClose(o) ==
    /\ monitor[o] = "growth"
    /\ Returned(o)
    /\ monitor' = [monitor EXCEPT ![o] = "done"]
    /\ IF closed[o] THEN UNCHANGED closeVars
                    ELSE BeginClose(o) /\ UNCHANGED refund
    /\ UNCHANGED <<groupClosed, slotVars, growthVars, state, session, openVars,
                   idleVars, pred, ledger>>

Monitor(o) == MonitorStop(o) \/ MonitorClose(o)

CloseSession(o) ==
    /\ closePc[o] = "session"
    /\ closePc' = [closePc EXCEPT ![o] = "wait"]
    /\ ShutDown(o)
    /\ UNCHANGED <<groupClosed, slotVars, growthVars, state, closed, refund,
                   application, openPc, openOn, idleVars, handVars, ledger>>

(* Faulty: Close does not wait.                                            *)
NotJoined(o) == TRUE

(* openings.Wait.                                                          *)
Joined(o) == Pins(o) = {}

(* openings.Wait, then reset every stream that was handed out.             *)
CloseWait(o) ==
    /\ closePc[o] = "wait"
    /\ Joined(o)
    /\ closePc' = [closePc EXCEPT ![o] = "slot"]
    /\ application' = [application EXCEPT ![o] = {}]
    /\ openPc' = [r \in Openers |-> IF r \in application[o] THEN "aborted" ELSE openPc[r]]
    /\ UNCHANGED <<groupClosed, slotVars, growthVars, state, session, closed, refund,
                   openOn, wire, idleVars, handVars, ledger>>

(* Faulty: the serving owner is forgotten whoever leaves.                  *)
ServingCleared(o) == [serving EXCEPT ![lane[o]] = NoOwner]

ServingWithout(o) == [serving EXCEPT ![lane[o]] = IF @ = o THEN NoOwner ELSE @]

(* Faulty: only the owner that paid takes the slot away.                   *)
PayerLeavesLast(o) == slotOwners[lane[o]] = {o} /\ release[lane[o]] = o

LeavesLast(o) == slotOwners[lane[o]] = {o}

(* growth.Release, then leave the slot; the last owner to leave takes the  *)
(* slot away.  The times of an owner nobody can find any more are          *)
(* forgotten.                                                              *)
CloseSlot(o) ==
    LET l == lane[o]
        last == LeavesLast(o)
    IN
    /\ closePc[o] = "slot"
    /\ Returned(o)
    /\ closePc' = [closePc EXCEPT ![o] = IF last THEN "refund" ELSE "done"]
    /\ slotOwners' = [slotOwners EXCEPT ![l] = @ \ {o}]
    /\ serving' = ServingWithout(o)
    /\ reserved' = [reserved EXCEPT ![l] = IF last THEN 0 ELSE @]
    /\ refund' = [refund EXCEPT ![o] = IF last THEN release[l] ELSE NoOwner]
    /\ release' = [release EXCEPT ![l] = IF last THEN NoOwner ELSE @]
    /\ idleSince' = [idleSince EXCEPT ![o] = -1]
    /\ quietFor' = [quietFor EXCEPT ![o] = 0]
    /\ UNCHANGED <<groupClosed, growthVars, state, session, closed,
                   openVars, obs, expected, handVars, ledger>>

(* The slot's release callback, outside the lock.                          *)
CloseRefund(o) ==
    /\ closePc[o] = "refund"
    /\ closePc' = [closePc EXCEPT ![o] = "done"]
    /\ ledger' = ledger \ {refund[o]}
    /\ refund' = [refund EXCEPT ![o] = NoOwner]
    /\ UNCHANGED <<groupClosed, slotVars, growthVars, state, session, closed,
                   openVars, idleVars, handVars>>

Close(o) == CloseSession(o) \/ CloseWait(o) \/ CloseSlot(o) \/ CloseRefund(o)

(* Time passes.  The age of an owner matters while it is served from.      *)
Older(age) == [o \in Owners |-> IF serving[lane[o]] = o /\ age[o] \in 0..(Quiet - 1)
                                THEN age[o] + 1 ELSE age[o]]

Tick ==
    /\ idleSince' = Older(idleSince)
    /\ quietFor' = Older(quietFor)
    /\ UNCHANGED <<groupClosed, slotVars, growthVars, state, session,
                   closeVars, openVars, obs, expected, handVars, ledger>>

Next ==
    \/ \E o \in Owners : \/ \E p \in Tokens, n \in 1..2 : Acquire(o, p, n)
                         \/ Attach(o) \/ Probe(o)
                         \/ PublishObserve(o) \/ PublishIdle(o)
                         \/ Publish(o) \/ Commit(o)
                         \/ \E r \in Openers : BeginOpen(r, o) \/ WireDone(o, r)
                         \/ Grow(o) \/ SessionEnd(o)
                         \/ CloseOwner(o) \/ Monitor(o) \/ Close(o)
                         \/ ReturnGrowth(o)
    \/ \E r \in Openers : OpenStream(r) \/ FinishOpen(r) \/ Unpin(r) \/ Unregister(r)
    \/ GroupClose \/ Tick

(* Fairness: goroutines that can run do run.  A handler's steps have ten   *)
(* second deadlines, so it commits or gives its owner up; an open returns  *)
(* at the latest when its session is shut down; monitors tick every 100ms; *)
(* a begun Close or Release goes on and Close of a generation reaches      *)
(* every owner; Yamux forgets a stream that no request holds.  Nothing     *)
(* forces a request to give its stream up, a session to end or a lane to   *)
(* be replaced.                                                            *)
Fairness ==
    /\ \A r \in Openers : WF_vars(OpenStream(r) \/ FinishOpen(r) \/ Unpin(r))
    /\ \A o \in Owners : /\ WF_vars(Close(o)) /\ WF_vars(ReturnGrowth(o))
                         /\ WF_vars(Monitor(o))
                         /\ WF_vars(Commit(o) \/ (CloseOwner(o) /\ monitor[o] = "none"))
                         /\ WF_vars(CloseOwner(o) /\ groupClosed)
    /\ \A o \in Owners, r \in Openers :
          WF_vars(WireDone(o, r) /\ r \notin application[o])

Spec == Init /\ [][Next]_vars
FairSpec == Spec /\ Fairness

-----------------------------------------------------------------------------
(* Properties.                                                             *)

(* What is physically there because of an owner: a live session, an open   *)
(* in progress, or a stream a request holds that was not reset.            *)
Physical(o) ==
    \/ session[o] = "open"
    \/ Pins(o) # {}
    \/ \E r \in Openers : openPc[r] = "held" /\ openOn[r] = o

(* The prepaid baseline of a lane is never back in the endpoint's ledger   *)
(* while a session, an unfinished open or a readable stream of one of its  *)
(* owners exists: Close joins every physical session before refunding, and *)
(* an Acquire that joins the slot is covered by the first owner's payment. *)
BaselineCovered ==
    \A o \in Owners : Physical(o) =>
        o \in slotOwners[lane[o]] /\ release[lane[o]] \in ledger

(* The slot and its owners agree: at most a serving and one other owner,   *)
(* one of them serving at most, and the slot's serving pointer is exactly  *)
(* the owner in state serving, whichever of Publish and Close came last.   *)
SlotConsistent ==
    \A l \in Lanes :
        /\ Cardinality(slotOwners[l]) <= 2
        /\ \A o \in slotOwners[l] : lane[o] = l /\ (state[o] = "serving" <=> serving[l] = o)
        /\ serving[l] # NoOwner => serving[l] \in slotOwners[l]
        /\ (slotOwners[l] = {}) <=> (release[l] = NoOwner)

(* The units that the owners in S have, by the shares f.                   *)
Units(f, S) == UNION {{o} \X (1..f[o]) : o \in S}
Held(S) == Units(grown, S)

OnLane(l) == {o \in Owners : lane[o] = l}

(* Growth is paid for once and returned once, and the counters never hold  *)
(* less than the ledger: whoever returns it, in whatever order, the        *)
(* ceilings that Attach's reserve function checks on the counters are      *)
(* ceilings of what is outstanding.  They are equal while no lease is      *)
(* between its two halves, and a slot is not taken away with growth in it. *)
GrowthBalanced ==
    /\ Cardinality(Held(Owners)) <= genGrowth
    /\ genGrowth <= GenerationGrowthLimit
    /\ \A l \in Lanes :
        /\ Cardinality(Held(OnLane(l))) <= slotGrowth[l]
        /\ slotGrowth[l] <= LaneGrowthLimit
        /\ slotOwners[l] = {} => slotGrowth[l] = 0
    /\ counted = grown => genGrowth = Cardinality(Held(Owners))

(* Growth only goes back once Session.Close has cleared the slabs it paid  *)
(* for, and an owner that drains takes no more of it.                      *)
GrowthDiscipline ==
    [][\A o \in Owners :
         /\ grown'[o] < grown[o] => session[o] = "closed" /\ wire[o] = {}
         /\ grown'[o] > grown[o] => state[o] = "serving" /\ ~closed[o]]_vars

(* A lane is switched away from a serving owner only after the owner has   *)
(* been quiet for the whole interval, and nothing was begun on it between  *)
(* the observation and the switch (PublishWhenIdle revalidates the epoch). *)
IdleHandoff ==
    [][\A o \in Owners : state[o] = "serving" /\ state'[o] = "draining" =>
         quietFor[o] >= Quiet /\ Pins(o) = {} /\ application[o] = {}]_vars

(* An owner that drains has no open outstanding and no stream handed out,  *)
(* whatever selected it before the switch, so its monitor truncates no     *)
(* request when it closes it and the commit needs no barrier.              *)
DrainingIsIdle ==
    \A o \in Owners : state[o] = "draining" => Pins(o) = {} /\ application[o] = {}

(* Once the generation is closed every owner is joined, and both the       *)
(* baseline and the growth are back in the ledger for a fresh generation.  *)
GenerationRefunded ==
    groupClosed ~> ledger = {} /\ genGrowth = 0 /\ \A l \in Lanes : slotOwners[l] = {}

(* A lane that was switched away from is given up in the end: the second   *)
(* baseline slot becomes free for the next replacement.                    *)
DrainEnds ==
    \A o \in Owners : state[o] = "draining" ~> o \notin slotOwners[lane[o]]
=============================================================================
