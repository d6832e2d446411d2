-------------------------- MODULE MCUpdateCampaign --------------------------
(***************************************************************************)
(* UpdateCampaign for TLC.                                                 *)
(***************************************************************************)
EXTENDS UpdateCampaign, TLC

CONSTANTS a1, a2

OneCampaign == {1}
TwoCampaigns == {1, 2}

(* A canary and a wave of one agent each; one agent of two campaigns. *)
CanaryAndWave == 1 :> <<a1, a2>>
SharedAgent == [c \in TwoCampaigns |-> <<a1>>]
=============================================================================
