------------------------------- MODULE MCWeb3 -------------------------------
(* JSON-RPC on a small instance: requests and answers that fit, that fill  *)
(* a buffer but for the terminator, and that need one or two more steps.   *)
EXTENDS Web3
=============================================================================
