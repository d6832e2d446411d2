----------------------------- MODULE MCLiveness ----------------------------
(***************************************************************************)
(* The liveness of the server's components in one run: those of            *)
(* MCConnections and the stream capacity.  Each property states its        *)
(* component's fairness, so a behaviour of another component says nothing  *)
(* about it.                                                               *)
(***************************************************************************)
EXTENDS MCConnections

CONSTANTS d1, d2, s1, ka, kp, f1, e1

VARIABLES
    mu, capPc, ctxDone, status, lease, usedTotal, usedPublic, usedPooled, usedControl,
    openingBySession, publicOpeningBySession, publicBySession, totalBySession,
    sessionLimits, everRegistered, queues, queueKeys, nextQueueKey, waiters,
    controller, newest, snapshot, sampling, samp, sample, external, passed

(* A one-shot and a pooled request of one session, a forced sample and an  *)
(* external reservation.                                                   *)
Dials == {d1, d2}
Capacity ==
    INSTANCE StreamCapacity WITH
        pc <- capPc,
        Requests <- Dials,
        Sessions <- {s1},
        Keys <- {ka, kp},
        class <- d1 :> "oneshot" @@ d2 :> "pooled",
        queueKey <- d1 :> ka @@ d2 :> kp,
        sessionKey <- [d \in Dials |-> s1],
        Refreshers <- {f1},
        Reservers <- {e1},
        Total <- 3, Public <- 2, Pooled <- 1, Control <- 1,
        MaxWaiters <- 2, MaxWaitersPerKey <- 2, MaxOpeningPerSession <- 3,
        ReservedPublicForOtherSessions <- 0, DefaultControl <- 4,
        NegotiatedLimits <- {3}, SampledLimits <- {1, 2},
        MaxGeneration <- 2, MaxController <- 1

capacityVars ==
    <<mu, capPc, ctxDone, status, lease, usedTotal, usedPublic, usedPooled, usedControl,
      openingBySession, publicOpeningBySession, publicBySession, totalBySession,
      sessionLimits, everRegistered, queues, queueKeys, nextQueueKey, waiters,
      controller, newest, snapshot, sampling, samp, sample, external, passed>>
liveVars == <<serverVars, capacityVars>>

(* One agent backend with checks. *)
LiveHealthConfigs == {HealthConfig(TRUE, {a1}, 1)}

LiveInit ==
    /\ Capacity!Init
    /\ HubInit /\ HealthInit /\ HandoffInit
    /\ part \in {"hub", "health", "handoff", "capacity"}
    /\ part # "health" => origin = "up"

LiveNext ==
    \/ ServerNext /\ UNCHANGED capacityVars
    \/ part = "capacity" /\ Capacity!Next /\ UNCHANGED serverVars

LiveSpec == LiveInit /\ [][LiveNext]_liveVars

(* StreamCapacity's AdmissionEnds: every dial gets its answer (acquire). *)
AdmissionEnds == Capacity!AdmissionEnds
=============================================================================
