----------------------------- MODULE MCCampaign -----------------------------
(***************************************************************************)
(* Instances of the campaign: two items with one or two rules each, and the*)
(* three kinds of seeds a ChainMaker campaign runs.                        *)
(***************************************************************************)
EXTENDS Campaign

AllTargets == {"fisco", "chainmaker", "aptos"}
OneEach == [i \in Items |-> {{p} : p \in Pairs}]
ItemRank == [pool_type |-> 1, ratelimit |-> 2]
ByName == [cert_race |-> 1, invoke |-> 2, txcount |-> 3]
NoRequirement == [s \in Seeds |-> {}]
=============================================================================
