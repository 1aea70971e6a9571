------------------------------ MODULE KeyVault ------------------------------
(***************************************************************************)
(* What the keypair API keeps: a table from index to the key it signs      *)
(* with.  A call that succeeds sets or clears the one index it is about, a *)
(* call that fails leaves the table as it was, and nobody sees a half made *)
(* change.  The onetime keypair stands beside the table and has less: a    *)
(* create replaces the one that is there, and fails with or without it.    *)
(***************************************************************************)
EXTENDS Integers

CONSTANTS MaxKeypairs, Keys, NoKey

VARIABLES store,   \* index -> key, NoKey when there is no such keypair
          onetime, \* is there a onetime keypair (index 0, in RAM)
          call,    \* the running call
          ok       \* whether the last call that returned succeeded

vaultVars == <<store, onetime, call, ok>>

None == [op |-> "none", index |-> 0]

Init ==
    /\ store = [i \in 1..MaxKeypairs |-> NoKey]
    /\ onetime = FALSE
    /\ call = None
    /\ ok = TRUE

Begin ==
    /\ call = None
    /\ \E i \in 1..MaxKeypairs :
        \/ call' = [op |-> "create", index |-> i] /\ store[i] = NoKey
        \/ call' = [op |-> "delete", index |-> i]
    /\ UNCHANGED <<store, onetime, ok>>

Done(success) == call' = None /\ ok' = success /\ UNCHANGED onetime

Create ==
    /\ call.op = "create"
    /\ \E k \in Keys :
        /\ \A i \in 1..MaxKeypairs : store[i] # k
        /\ store' = [store EXCEPT ![call.index] = k]
    /\ Done(TRUE)

Delete ==
    /\ call.op = "delete"
    /\ store' = [store EXCEPT ![call.index] = NoKey]
    /\ Done(TRUE)

Fail == Done(FALSE) /\ UNCHANGED store

CreateOnetime ==
    \/ onetime' = TRUE /\ ok' = TRUE
    \/ onetime' \in {onetime, FALSE} /\ ok' = FALSE

DeleteOnetime == onetime' = FALSE /\ ok' = onetime

Onetime ==
    /\ call = None
    /\ CreateOnetime \/ DeleteOnetime
    /\ UNCHANGED <<store, call>>

Next == Begin \/ Create \/ Delete \/ Fail \/ Onetime

Spec == Init /\ [][Next]_vaultVars
=============================================================================
