--------------------------- MODULE MCTargetHealth ---------------------------
(***************************************************************************)
(* TargetHealth alone: one direct target whose origin changes, which is    *)
(* stopped or removed and configured again while a probe is under way.     *)
(***************************************************************************)
EXTENDS TargetHealth

CONSTANT a1

DirectConfigs ==
    {[enabled |-> TRUE, checked |-> TRUE, viaAgent |-> FALSE, agents |-> {}, origin |-> n] :
        n \in {1, 2}}

FairHealthSpec == HealthSpec /\ HealthFairness
=============================================================================
