---------------------------- MODULE MCLaneOwners ----------------------------
(***************************************************************************)
(* LaneOwners for TLC: two sessions of one lane and one opener.            *)
(***************************************************************************)
EXTENDS LaneOwners

CONSTANTS o1, o2, r1, l1, none

TwoOwners == {o1, o2}
OneOpener == {r1}
OneLane   == {l1}
SameLane  == [o \in Owners |-> l1]
=============================================================================
