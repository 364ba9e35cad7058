----------------------------- MODULE MCCampaign -----------------------------
(* Instances of Campaign.  The breaker's floor of ten tries is scaled down  *)
(* to the number of recipients a run can afford.                            *)
EXTENDS Campaign, TLC

Symmetry == Permutations(Recipients)
=============================================================================
