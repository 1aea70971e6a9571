------------------------------ MODULE MCEthTx -------------------------------
(* Ethereum payments on a small instance; payments are interchangeable.    *)
EXTENDS EthTx, TLC

Symmetry == Permutations(Payments)
=============================================================================
