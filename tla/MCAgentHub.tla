----------------------------- MODULE MCAgentHub -----------------------------
(***************************************************************************)
(* AgentHub for TLC.                                                       *)
(***************************************************************************)
EXTENDS AgentHub, TLC

CONSTANTS r1, r2, r3, r4, ga, gl

TwoRequests   == {r1, r2}
ThreeRequests == {r1, r2, r3}
FourRequests  == {r1, r2, r3, r4}
TwoGroups     == {ga, gl}
OneGroup      == {ga}
TwoLanes      == {0, 1}

(* Requests are interchangeable.                                           *)
Symmetry == Permutations(Requests)
=============================================================================
