------------------------------- MODULE EthTx --------------------------------
(***************************************************************************)
(* Sending value with an Ethereum wallet of the SDK:                       *)
(* sdk/wallet/api_ethereum.c over sdk/protocol/boatethereum.  The PlatON,  *)
(* PlatONE, Quorum and Venachain wallets have the same loop for receipts.  *)
(*                                                                         *)
(* BoatEthTransfer asks the node for the number of mined transactions of   *)
(* the account, takes it for the nonce and sends; a synchronous tx then    *)
(* polls for the receipt.  The node is external: it keeps a pool with one  *)
(* transaction for a nonce, mines the nonces in order, may drop what is    *)
(* pending, and every request or answer may be lost.  Nobody but this      *)
(* wallet sends from the account.                                          *)
(*                                                                         *)
(* One BoatEthTx is used for all payments.  The application asks for each  *)
(* payment with one BoatEthTransfer, after the one before was a success,   *)
(* and repeats one that may or may not have reached the node with          *)
(* BoatEthTxSend, which keeps the nonce.  The signature is not             *)
(* deterministic, so each sending has a hash of its own.                   *)
(***************************************************************************)
EXTENDS Integers, Sequences

CONSTANTS Payments,  \* what the application wants to pay
          Polls,     \* BOAT_ETH_WAIT_PENDING_TX_TIMEOUT / BOAT_ETH_MINE_INTERVAL
          IsSync,    \* is_sync_tx of BoatEthTxInit: does a call wait for the
                     \* receipt
          MaxSends   \* bound: how often a transaction is sent

ASSUME EthAssumption ==
    /\ Polls \in Nat \ {0}
    /\ IsSync \in BOOLEAN
    /\ MaxSends \in Nat

VARIABLES tx,     \* the BoatEthTx: nonce, payment (value), tx_hash
          pc,     \* what the running call does next
          asked,  \* the payments BoatEthTransfer was called for, the last one
                  \* being the one that is running
          left,   \* tx_mined_timeout, in intervals
          sends,  \* how often a transaction was signed and sent
          last,   \* what the last call returned
          pool,   \* external: the pending transactions of the node
          mined   \* external: the transactions of the account in the chain

vars == <<tx, pc, asked, left, sends, last, pool, mined>>
node == <<pool, mined>>

Results == {"none", "success", "pending", "error"}

NoTx == [nonce |-> 0, payment |-> {}, hash |-> 0]

Init ==
    /\ tx = NoTx
    /\ pc = "idle"
    /\ asked = <<>>
    /\ left = 0
    /\ sends = 0
    /\ last = "none"
    /\ pool = {}
    /\ mined = <<>>

Return(result) == pc' = "idle" /\ last' = result /\ left' = 0

-----------------------------------------------------------------------------
(* The calls of the application *)

Last == asked[Len(asked)]

(* The last BoatEthTransfer failed before the value was set.               *)
Unsent == asked # <<>> /\ tx.payment # {Last}

Transfer(p) ==
    /\ pc = "idle"
    /\ last = "success" \/ asked = <<>> \/ Unsent
    /\ \A i \in DOMAIN asked : asked[i] # p
    /\ asked' = Append(asked, p)
    /\ pc' = "count"
    /\ UNCHANGED <<tx, left, sends, last, node>>

(* Mutant: the repetition takes a nonce of its own.                        *)
SendAgainRenewed ==
    /\ pc = "idle"
    /\ last \in {"pending", "error"} /\ ~Unsent
    /\ pc' = "count"
    /\ UNCHANGED <<tx, asked, left, sends, last, node>>

(* BoatEthTxSend, to repeat what failed: the fields of the tx as they are. *)
SendAgain ==
    /\ pc = "idle"
    /\ last \in {"pending", "error"} /\ ~Unsent
    /\ pc' = "send"
    /\ UNCHANGED <<tx, asked, left, sends, last, node>>

-----------------------------------------------------------------------------
(* The steps of a call *)

(* BoatEthTxSetNonce with BOAT_ETH_NONCE_AUTO: eth_getTransactionCount of  *)
(* "latest" counts what is mined.  Then the value is set.                  *)
GetCount ==
    /\ pc = "count"
    /\ \/ /\ tx' = [tx EXCEPT !.nonce = Len(mined),
                              !.payment = {Last}]
          /\ pc' = "send"
          /\ UNCHANGED <<left, last>>
       \/ Return("error") /\ UNCHANGED tx
    /\ UNCHANGED <<asked, sends, node>>

Signed == [hash |-> sends + 1, nonce |-> tx.nonce, payment |-> tx.payment]

(* The node takes a transaction whose nonce is not used up, in place of    *)
(* the one it has for that nonce; or it refuses it (nonce too low, no      *)
(* funds, replacement underpriced).                                        *)
NodeAccepts ==
    /\ tx.nonce >= Len(mined)
    /\ pool' = {t \in pool : t.nonce # tx.nonce} \cup {Signed}

(* Mutant: a failure is not looked at and the old hash still there.        *)
SendFailedUnnoticed == pc' = "poll" /\ left' = Polls /\ UNCHANGED <<tx, last>>

SendFailed == tx' = [tx EXCEPT !.hash = 0] /\ Return("error")

(* EthSendRawtx: tx_hash is cleared before anything else and set from the  *)
(* answer; then BoatEthTxSend returns or goes on to the receipt.  Request  *)
(* or answer may be lost.                                                  *)
Send ==
    /\ pc = "send"
    /\ sends < MaxSends
    /\ sends' = sends + 1
    /\ \/ /\ NodeAccepts
          /\ tx' = [tx EXCEPT !.hash = sends']
          /\ \/ IsSync /\ pc' = "poll" /\ left' = Polls /\ UNCHANGED last
             \/ ~IsSync /\ Return("success")
       \/ (NodeAccepts \/ UNCHANGED pool) /\ SendFailed
    /\ UNCHANGED <<asked, mined>>

Receipt(h) == {i \in DOMAIN mined : mined[i].hash = h}

(* Mutants: a missing receipt taken for a failed transaction, which is     *)
(* reported as a success; a wait that starts again; one round more.        *)
NotYetDone == Return("success")
NotYetForever ==
    left' = (IF left = 1 THEN Polls ELSE left - 1) /\ UNCHANGED <<pc, last>>
NotYetLate ==
    IF left = 0 THEN Return("pending")
    ELSE left' = left - 1 /\ UNCHANGED <<pc, last>>

(* result: null.  The timeout is counted down; when it is over, the call   *)
(* returns BOAT_ERROR_COMMON_TX_PENDING.                                   *)
NotYet ==
    IF left = 1 THEN Return("pending")
    ELSE left' = left - 1 /\ UNCHANGED <<pc, last>>

(* BoatEthGetTransactionReceipt, one round: any receipt ends it with       *)
(* BOAT_SUCCESS, whatever its status; a lost or broken answer with an      *)
(* error.                                                                  *)
Poll ==
    /\ pc = "poll"
    /\ \/ Receipt(tx.hash) # {} /\ Return("success")
       \/ Receipt(tx.hash) = {} /\ NotYet
       \/ Return("error")
    /\ UNCHANGED <<tx, asked, sends, node>>

-----------------------------------------------------------------------------
(* The node *)

(* The next nonce is mined; "status" says whether the payment went through.*)
Mine ==
    \E t \in pool, status \in {"0x0", "0x1"} :
        /\ t.nonce = Len(mined)
        /\ mined' = Append(mined, [hash |-> t.hash, payment |-> t.payment,
                                   status |-> status])
        /\ pool' = pool \ {t}
        /\ UNCHANGED <<tx, pc, asked, left, sends, last>>

Drop ==
    \E t \in pool :
        /\ pool' = pool \ {t}
        /\ UNCHANGED <<tx, pc, asked, left, sends, last, mined>>

SdkSteps == GetCount \/ Send \/ Poll

Next ==
    \/ \E p \in Payments : Transfer(p)
    \/ SendAgain
    \/ SdkSteps
    \/ Mine \/ Drop

Spec == Init /\ [][Next]_vars

(* A call that was made runs on: CurlPortRequestSync gives a request half  *)
(* a minute, and BoatSleep ends.                                           *)
FairSpec == Spec /\ WF_vars(SdkSteps)

-----------------------------------------------------------------------------
(* Properties *)

Transaction == [hash : Nat \ {0}, nonce : Nat, payment : {{p} : p \in Payments}]
Mined == [hash : Nat \ {0}, payment : {{p} : p \in Payments},
          status : {"0x0", "0x1"}]

(* The state is well typed; the pool holds one transaction for a nonce.    *)
TypeOK ==
    /\ tx \in [nonce : Nat, payment : {{}} \cup {{p} : p \in Payments},
               hash : Nat]
    /\ pc \in {"idle", "count", "send", "poll"}
    /\ asked \in Seq(Payments)
    /\ left \in 0..Polls
    /\ pc = "poll" <=> left > 0
    /\ sends \in 0..MaxSends
    /\ last \in Results
    /\ pool \subseteq Transaction
    /\ mined \in Seq(Mined)
    /\ \A t, u \in pool : t.nonce = u.nonce => t = u

(* No payment is made twice, whichever requests and answers were lost and  *)
(* however often BoatEthTxSend repeated it.                                *)
PaidOnce ==
    \A i, j \in DOMAIN mined : mined[i].payment = mined[j].payment => i = j

(* A call that waited and succeeds tells of the payment the application    *)
(* asked for last, and that payment is in the chain by then.               *)
SyncMined ==
    IsSync /\ pc = "idle" /\ last = "success" =>
        \E i \in Receipt(tx.hash) : mined[i].payment = {Last}

(* What is going to be sent does not have the nonce of another payment     *)
(* that the node has or has mined, though the nonce of each payment is     *)
(* read from the node and none is remembered.  This is also what an        *)
(* application needs to send "continuously in a short time" with           *)
(* is_sync_tx BOAT_FALSE.                                                  *)
FreshNonce ==
    pc = "send" =>
        /\ \A t \in pool : t.nonce = tx.nonce => t.payment = tx.payment
        /\ tx.nonce < Len(mined) => mined[tx.nonce + 1].payment = tx.payment

(* Every call returns, also when the transaction is never mined.           *)
Returns == pc # "idle" ~> (pc = "idle" \/ sends = MaxSends)
=============================================================================
