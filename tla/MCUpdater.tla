----------------------------- MODULE MCUpdater -----------------------------
(***************************************************************************)
(* Updater for TLC.                                                        *)
(***************************************************************************)
EXTENDS Updater

(* Two troubles, faults or expired commands, in any combination.           *)
Expired == DOMAIN issued \ live
TwoTroubles == faults + Cardinality(Expired) <= 2

(* The commands and the releases are not bound to each other: with a       *)
(* second release in play one fault when the first command is for the      *)
(* first release, and none otherwise.                                      *)
SecondReleaseSeen ==
    \/ \E i \in DOMAIN issued : issued[i].rel > 1
    \/ staging.staged > 1 \/ staging.candidate > 1
    \/ worker.op = "stage" /\ worker.arg > 1
FaultBudget ==
    /\ TwoTroubles
    /\ SecondReleaseSeen =>
          /\ Expired = {}
          /\ faults <= IF Len(issued) > 0 /\ issued[1].rel = 1 THEN 1 ELSE 0
SafetyNext == Next /\ FaultBudget'
SafetySpec == Init /\ [][SafetyNext]_vars

(* For liveness an authorization runs out where its end can be noticed:    *)
(* while the command is in a file and not recorded as used.  Before, it is *)
(* as if the worker never published it; afterwards nothing looks at it     *)
(* again but the worker, which need not publish it again either.  Nothing  *)
(* of this touches a fair step.                                            *)
Noticed ==
    {c \in {staging.ready, staging.rollback, root.activationClaim, root.rollbackClaim} :
        c > root.commandFloor}
LiveNext == Next /\ Expired' \subseteq Expired \cup Noticed
LiveSpec == Init /\ [][LiveNext]_vars /\ Fairness
=============================================================================
