----------------------------- MODULE MCFabricTx -----------------------------
(* Transactions on a small network: two groups of endorsers, one of which  *)
(* must give more than one endorsement, for either of the two chains.      *)
EXTENDS HwbcsTx

MCGroupSize == <<2, 3>>
MCQuota == <<1, 2>>
=============================================================================
