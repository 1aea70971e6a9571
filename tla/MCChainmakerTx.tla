---------------------------- MODULE MCChainmakerTx ----------------------------
(* Chainmaker calls on a small instance: with three rounds, a round that   *)
(* fails comes before and after one that does not.                         *)
EXTENDS ChainmakerTx
=============================================================================
