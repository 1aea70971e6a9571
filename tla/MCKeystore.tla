----------------------------- MODULE MCKeystore -----------------------------
(* The keypair store on small instances.  Keys are interchangeable: no     *)
(* definition tells one from another.                                      *)
EXTENDS Keystore, TLC

Symmetry == Permutations(Keys)
=============================================================================
