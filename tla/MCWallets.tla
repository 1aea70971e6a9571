----------------------------- MODULE MCWallets -----------------------------
(* All wallets, one at a time, each with a few calls.                      *)
EXTENDS Wallets
=============================================================================
