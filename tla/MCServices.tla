---------------------------- MODULE MCServices ----------------------------
(***************************************************************************)
(* The response cache and the update campaigns in one run.  A behaviour is *)
(* a behaviour of one of them, chosen in the initial state; the other      *)
(* stays as it began.                                                      *)
(***************************************************************************)
EXTENDS ResponseCache, MCUpdateCampaign

CONSTANTS c1, c2, k1

VARIABLE part

serviceVars == <<part, cacheVars, campaignVars>>

(* The body of token t has t bytes. *)
SizeOf == [t \in 1..MaxToken |-> t]

(* A deletion or a change of the settings comes without a second           *)
(* operation; every expired response takes the place of one, and so does   *)
(* every stray body.                                                       *)
OperationBudget ==
    /\ admin.then \in {"keep", "delete"} => operations <= 1
    /\ operations + Cardinality(expired) <= MaxOperations
    /\ operations + Cardinality(strays) <= MaxOperations

ServiceInit ==
    /\ part \in {"cache", "campaign"}
    /\ CacheInit /\ CampaignInit

ServiceNext ==
    \/ part = "cache" /\ CacheNext /\ OperationBudget' /\ UNCHANGED <<part, campaignVars>>
    \/ part = "campaign" /\ CampaignNext /\ UNCHANGED <<part, cacheVars>>

ServiceSpec == ServiceInit /\ [][ServiceNext]_serviceVars

(* Clients are interchangeable. *)
Symmetry == Permutations(Clients)
=============================================================================
