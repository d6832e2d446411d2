-------------------------- MODULE MCStreamCapacity --------------------------
(***************************************************************************)
(* StreamCapacity for TLC: three configurations in one run.  The module's  *)
(* own variables and constants are the budgets: two sessions and all three *)
(* classes.  Queues and Adaptive are two more configurations, over the     *)
(* variables named x_.  A behaviour is a behaviour of one of the three.    *)
(***************************************************************************)
EXTENDS StreamCapacity

CONSTANTS r1, r2, r3, r4, s1, s2, ka, kb, kp, kh, f1, e1

VARIABLES
    scenario,
    x_mu, x_pc, x_ctxDone, x_status, x_lease, x_usedTotal, x_usedPublic, x_usedPooled,
    x_usedControl, x_openingBySession, x_publicOpeningBySession, x_publicBySession,
    x_totalBySession, x_sessionLimits, x_everRegistered, x_queues, x_queueKeys,
    x_nextQueueKey, x_waiters, x_controller, x_newest, x_snapshot, x_sampling, x_samp,
    x_sample, x_external, x_passed

otherVars ==
    <<x_mu, x_pc, x_ctxDone, x_status, x_lease, x_usedTotal, x_usedPublic, x_usedPooled,
      x_usedControl, x_openingBySession, x_publicOpeningBySession, x_publicBySession,
      x_totalBySession, x_sessionLimits, x_everRegistered, x_queues, x_queueKeys,
      x_nextQueueKey, x_waiters, x_controller, x_newest, x_snapshot, x_sampling, x_samp,
      x_sample, x_external, x_passed>>

scenarioVars == <<scenario, vars, otherVars>>

(* Budgets *)
FourRequests == {r1, r2, r3, r4}
MixedClass   == r1 :> "oneshot" @@ r2 :> "pooled" @@ r3 :> "health" @@ r4 :> "oneshot"
MixedKey     == r1 :> ka @@ r2 :> kp @@ r3 :> kh @@ r4 :> ka
MixedSession == r1 :> s1 @@ r2 :> s1 @@ r3 :> s1 @@ r4 :> s2

(* Queues: four one-shot requests of one session for two targets. *)
QueuedClass   == [r \in FourRequests |-> "oneshot"]
QueuedKey     == r1 :> ka @@ r2 :> ka @@ r3 :> kb @@ r4 :> kb
QueuedSession == [r \in FourRequests |-> s1]
Queues ==
    INSTANCE StreamCapacity WITH
        Requests <- FourRequests,
        class <- QueuedClass,
        queueKey <- QueuedKey,
        sessionKey <- QueuedSession,
        Sessions <- {s1}, Keys <- {ka, kb}, Refreshers <- {}, Reservers <- {},
        Total <- 1, Public <- 1, Pooled <- 0, Control <- 0,
        MaxWaiters <- 4, MaxWaitersPerKey <- 2, MaxOpeningPerSession <- 1,
        ReservedPublicForOtherSessions <- 0, DefaultControl <- 4,
        NegotiatedLimits <- {1}, SampledLimits <- {}, MaxGeneration <- 0, MaxController <- 0,
        mu <- x_mu, pc <- x_pc, ctxDone <- x_ctxDone, status <- x_status, lease <-
        x_lease, usedTotal <- x_usedTotal, usedPublic <- x_usedPublic, usedPooled <-
        x_usedPooled, usedControl <- x_usedControl, openingBySession <-
        x_openingBySession, publicOpeningBySession <- x_publicOpeningBySession,
        publicBySession <- x_publicBySession, totalBySession <- x_totalBySession,
        sessionLimits <- x_sessionLimits, everRegistered <- x_everRegistered, queues <-
        x_queues, queueKeys <- x_queueKeys, nextQueueKey <- x_nextQueueKey, waiters <-
        x_waiters, controller <- x_controller, newest <- x_newest, snapshot <- x_snapshot,
        sampling <- x_sampling, samp <- x_samp, sample <- x_sample, external <-
        x_external, passed <- x_passed

(* Adaptive: public and health requests and an external owner compete for  *)
(* limits that samples raise and lower, while the controller is replaced.  *)
ThreeRequests   == {r1, r2, r3}
AdaptiveClass   == r1 :> "oneshot" @@ r2 :> "oneshot" @@ r3 :> "health"
AdaptiveKey     == r1 :> ka @@ r2 :> ka @@ r3 :> kh
AdaptiveSession == [r \in ThreeRequests |-> s1]
Adaptive ==
    INSTANCE StreamCapacity WITH
        Requests <- ThreeRequests,
        class <- AdaptiveClass,
        queueKey <- AdaptiveKey,
        sessionKey <- AdaptiveSession,
        Sessions <- {s1}, Keys <- {ka, kh}, Refreshers <- {f1}, Reservers <- {e1},
        Total <- 3, Public <- 2, Pooled <- 0, Control <- 1,
        MaxWaiters <- 2, MaxWaitersPerKey <- 2, MaxOpeningPerSession <- 3,
        ReservedPublicForOtherSessions <- 0, DefaultControl <- 4,
        NegotiatedLimits <- {3}, SampledLimits <- {1, 2}, MaxGeneration <- 2, MaxController <- 2,
        mu <- x_mu, pc <- x_pc, ctxDone <- x_ctxDone, status <- x_status, lease <-
        x_lease, usedTotal <- x_usedTotal, usedPublic <- x_usedPublic, usedPooled <-
        x_usedPooled, usedControl <- x_usedControl, openingBySession <-
        x_openingBySession, publicOpeningBySession <- x_publicOpeningBySession,
        publicBySession <- x_publicBySession, totalBySession <- x_totalBySession,
        sessionLimits <- x_sessionLimits, everRegistered <- x_everRegistered, queues <-
        x_queues, queueKeys <- x_queueKeys, nextQueueKey <- x_nextQueueKey, waiters <-
        x_waiters, controller <- x_controller, newest <- x_newest, snapshot <- x_snapshot,
        sampling <- x_sampling, samp <- x_samp, sample <- x_sample, external <-
        x_external, passed <- x_passed

(* A second controller comes in place of the second public request. *)
ControllerBudget == x_controller > 1 => x_pc[r2] = "idle"

ScenarioInit ==
    /\ scenario \in {"budgets", "queues", "adaptive"}
    /\ Init
    /\ IF scenario = "queues" THEN Queues!Init ELSE Adaptive!Init

ScenarioNext ==
    \/ scenario = "budgets" /\ Next /\ UNCHANGED <<scenario, otherVars>>
    \/ scenario = "queues" /\ Queues!Next /\ UNCHANGED <<scenario, vars>>
    \/ /\ scenario = "adaptive" /\ Adaptive!Next /\ ControllerBudget'
       /\ UNCHANGED <<scenario, vars>>

ScenarioSpec == ScenarioInit /\ [][ScenarioNext]_scenarioVars

(* StreamCapacity's FairTurn for the queues: dispatch serves the queues in *)
(* turn and each in order (dispatchLocked).                                *)
QueuesFairTurn == [][scenario = "queues" => Queues!TakesTurns]_scenarioVars

(* Admission under a sampled limit.  StreamCapacity's ReserveKept: no      *)
(* grant, reservation or release uses up what is withheld for health       *)
(* probes (canGrantLocked, tryReserveAdaptiveResource).  Its NoLostWakeup: *)
(* while samples come and go, no waiter that could be granted is left when *)
(* nobody is about to dispatch (refreshAdaptiveCapacity, dispatchLocked).  *)
(* Its SampleCurrent: samples that complete out of order, or after their   *)
(* controller was replaced, leave the newest one in force.                 *)
AdaptiveAdmission ==
    [][scenario = "adaptive" =>
         Adaptive!KeepsReserve /\ Adaptive!NoLostWakeup' /\ Adaptive!SampleCurrent']_scenarioVars
=============================================================================
