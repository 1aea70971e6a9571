-------------------------------- MODULE IdTx ---------------------------------
(***************************************************************************)
(* Calling a contract with a FISCO-BCOS or a CITA wallet of the SDK:       *)
(* sdk/wallet/api_fiscobcos.c and api_cita.c over sdk/protocol.            *)
(*                                                                         *)
(* These chains do not count the transactions of an account.  The nonce is *)
(* a random number and a transaction names the block until which it is     *)
(* valid: BoatXTxInit asks for the height and adds 500 (FISCO-BCOS) or 100 *)
(* (CITA).  The node is external: it takes a transaction whose limit is    *)
(* ahead of its height by no more than a window, and whose nonce it has    *)
(* neither pending nor in the blocks of the last window; it may drop what  *)
(* is pending, and every request or answer may be lost.                    *)
(*                                                                         *)
(* The application prepares a call with BoatXTxSetNonce and BoatXTxSetData *)
(* and sends it with BoatXTxSend, as often as it likes.  It prepares the   *)
(* same call again only when the limit it had is over and the call is not  *)
(* in the chain.  The signature is not deterministic, so each sending has  *)
(* a hash of its own.                                                      *)
(***************************************************************************)
EXTENDS Integers

CONSTANTS Calls,     \* the contract calls the application wants executed
          Limit,     \* how far ahead of the height a limit is set, by chain
          Window,    \* external: how many blocks the node looks back for a
                     \* nonce, and how far ahead a limit may be, by chain
          Polls,     \* WAIT_PENDING_TX_TIMEOUT / MINE_INTERVAL
          MemoryEnds,\* can BoatMalloc fail
          MaxSends, MaxNonces, MaxHeight  \* bounds

Chains == {"fiscobcos", "cita"}

ASSUME IdAssumption ==
    /\ Limit \in [Chains -> Nat \ {0}]
    /\ Window \in [Chains -> Nat \ {0}]
    /\ \A c \in Chains : Limit[c] <= Window[c]
    /\ Polls \in Nat \ {0}
    /\ MemoryEnds \in BOOLEAN
    /\ MaxSends \in Nat
    /\ MaxNonces \in Nat
    /\ MaxHeight \in Nat

VARIABLES chain,  \* which of the two wallets this is
          tx,     \* the BoatXTx: is_sync_tx, nonce, block limit, call (data),
          \* tx_hash
          pc,     \* what the running call does next
          until,  \* the application's note of the limit it prepared a call with
          left,   \* tx_mined_timeout, in intervals
          nonces, \* how many random nonces were drawn
          sends,  \* how often a transaction was signed and sent
          last,   \* what the last call returned
          height, \* external: the height of the chain
          pool,   \* external: the pending transactions of the node
          mined   \* external: the transactions in the chain

vars == <<chain, tx, pc, until, left, nonces, sends, last, height, pool, mined>>
node == <<height, pool, mined>>

Results == {"none", "success", "pending", "error"}

(* After the memset of BoatXTxInit, which tx_hash is not part of.          *)
Cleared(sync, h) ==
    [sync |-> sync, nonce |-> 0, limit |-> 0, call |-> {}, hash |-> h]

Init ==
    /\ chain \in Chains
    /\ tx = Cleared(FALSE, 0)
    /\ pc = "idle"
    /\ until = [c \in Calls |-> 0]
    /\ left = 0
    /\ nonces = 0
    /\ sends = 0
    /\ last = "none"
    /\ height = 0
    /\ pool = {}
    /\ mined = {}

Return(result) == pc' = "idle" /\ last' = result /\ left' = 0

Executed(c) == \E m \in mined : m.call = {c}

-----------------------------------------------------------------------------
(* The calls of the application *)

TxInit(sync) ==
    /\ pc = "idle"
    /\ tx' = Cleared(sync, tx.hash)
    /\ pc' = "number"
    /\ UNCHANGED <<chain, until, left, nonces, sends, last, node>>

(* BoatXTxSetNonce with BOAT_X_NONCE_AUTO and BoatXTxSetData.  The same    *)
(* call is not prepared again as long as what was sent for it is valid.    *)
Prepare(c) ==
    /\ pc = "idle"
    /\ tx.limit > 0
    /\ until[c] <= height
    /\ ~Executed(c)
    /\ nonces < MaxNonces
    /\ nonces' = nonces + 1
    /\ tx' = [tx EXCEPT !.nonce = nonces + 1, !.call = {c}]
    /\ until' = [until EXCEPT ![c] = tx.limit]
    /\ last' = "none"
    /\ UNCHANGED <<chain, pc, left, sends, node>>

TxSend ==
    /\ pc = "idle"
    /\ tx.call # {}
    /\ sends < MaxSends
    /\ pc' = "send"
    /\ UNCHANGED <<chain, tx, until, left, nonces, sends, last, node>>

-----------------------------------------------------------------------------
(* The steps of a call *)

(* BoatXGetBlockNumber: without an answer BoatXTxInit fails and the limit  *)
(* is left at 0.                                                           *)
GetBlockNumber ==
    /\ pc = "number"
    /\ \/ tx' = [tx EXCEPT !.limit = height + Limit[chain]] /\ Return("success")
       \/ Return("error") /\ UNCHANGED tx
    /\ UNCHANGED <<chain, until, nonces, sends, node>>

(* Mutant: the limit is set when the transaction is sent.                  *)
SignedLate == [hash |-> sends + 1, nonce |-> tx.nonce,
               limit |-> height + Limit[chain], call |-> tx.call]

Signed == [hash |-> sends + 1, nonce |-> tx.nonce, limit |-> tx.limit,
           call |-> tx.call]

Fits(limit) == height < limit /\ limit <= height + Window[chain]

Used(nonce) ==
    \/ \E t \in pool : t.nonce = nonce
    \/ \E m \in mined : m.nonce = nonce /\ m.height > height - Window[chain]

NodeAccepts ==
    /\ Fits(tx.limit)
    /\ ~Used(tx.nonce)
    /\ pool' = pool \cup {Signed}

(* FiscobcosSendRawtx clears tx_hash before anything else; CitaSendRawtx   *)
(* leaves the hash of an earlier sending there until it has the new one.   *)
HashAtStart == IF chain = "fiscobcos" THEN 0 ELSE tx.hash

(* Mutant: a failed sending goes on to the receipt.                        *)
FailedUnnoticed ==
    /\ tx' = [tx EXCEPT !.hash = HashAtStart]
    /\ pc' = "poll" /\ left' = Polls
    /\ UNCHANGED last

Failed == tx' = [tx EXCEPT !.hash = HashAtStart] /\ Return("error")

(* BoatXTxSend returns, or BoatXSendRawtxWithReceipt goes on to wait.      *)
Sent(h) ==
    /\ tx' = [tx EXCEPT !.hash = h]
    /\ \/ tx.sync /\ pc' = "poll" /\ left' = Polls /\ UNCHANGED last
       \/ ~tx.sync /\ Return("success")

(* No memory for the packed transaction: CitaSendRawtx throws the result   *)
(* it has, which is BOAT_SUCCESS, and nothing is sent.                     *)
NoMemory ==
    /\ MemoryEnds
    /\ \/ chain = "fiscobcos" /\ Failed
       \/ chain = "cita" /\ Sent(tx.hash)
    /\ UNCHANGED pool

(* FiscobcosSendRawtx and CitaSendRawtx.  Request or answer may be lost.   *)
Send ==
    /\ pc = "send"
    /\ sends' = sends + 1
    /\ \/ NodeAccepts /\ Sent(sends')
       \/ (NodeAccepts \/ UNCHANGED pool) /\ Failed
       \/ NoMemory
    /\ UNCHANGED <<chain, until, nonces, height, mined>>

Receipt(h) == {m \in mined : m.hash = h}

(* Mutant: the countdown goes on below its end.                            *)
NotYetLate ==
    IF left = 0 THEN Return("pending")
    ELSE left' = left - 1 /\ UNCHANGED <<pc, last>>

(* result: null.  When the timeout is over, BOAT_ERROR_COMMON_TX_PENDING.  *)
NotYet ==
    IF left = 1 THEN Return("pending")
    ELSE left' = left - 1 /\ UNCHANGED <<pc, last>>

(* BoatXGetTransactionReceipt, one round: any "status" (FISCO-BCOS) or     *)
(* "errorMessage" (CITA) ends it with BOAT_SUCCESS, a lost or broken       *)
(* answer with an error.                                                   *)
Poll ==
    /\ pc = "poll"
    /\ \/ Receipt(tx.hash) # {} /\ Return("success")
       \/ Receipt(tx.hash) = {} /\ NotYet
       \/ Return("error")
    /\ UNCHANGED <<chain, tx, until, nonces, sends, node>>

-----------------------------------------------------------------------------
(* The node *)

(* The next block takes pending transactions that are still valid.         *)
Mine ==
    /\ height < MaxHeight
    /\ height' = height + 1
    /\ \E B \in SUBSET {t \in pool : t.limit > height} :
           /\ mined' = mined \cup {[hash |-> t.hash, nonce |-> t.nonce,
                                    limit |-> t.limit, call |-> t.call,
                                    height |-> height + 1] : t \in B}
           /\ pool' = pool \ B
    /\ UNCHANGED <<chain, tx, pc, until, left, nonces, sends, last>>

Drop ==
    \E t \in pool :
        /\ pool' = pool \ {t}
        /\ UNCHANGED <<chain, tx, pc, until, left, nonces, sends, last, height,
                       mined>>

SdkSteps == GetBlockNumber \/ Send \/ Poll

Next ==
    \/ \E sync \in BOOLEAN : TxInit(sync)
    \/ \E c \in Calls : Prepare(c)
    \/ TxSend
    \/ SdkSteps
    \/ Mine \/ Drop

Spec == Init /\ [][Next]_vars

-----------------------------------------------------------------------------
(* Properties *)

Transaction == [hash : Nat, nonce : Nat, limit : Nat, call : {{c} : c \in Calls}]
Mined == [hash : Nat, nonce : Nat, limit : Nat, call : {{c} : c \in Calls},
          height : Nat]

(* The state is well typed, and a limit is never beyond what TxInit gives. *)
TypeOK ==
    /\ chain \in Chains
    /\ tx \in [sync : BOOLEAN, nonce : Nat, limit : Nat,
               call : {{}} \cup {{c} : c \in Calls}, hash : Nat]
    /\ tx.limit <= height + Limit[chain]
    /\ pc \in {"idle", "number", "send", "poll"}
    /\ until \in [Calls -> Nat]
    /\ left \in 0..Polls
    /\ pc = "poll" <=> left > 0
    /\ nonces \in Nat
    /\ sends \in Nat
    /\ last \in Results
    /\ height \in Nat
    /\ pool \subseteq Transaction
    /\ mined \subseteq Mined

(* No call is executed twice: not by a repeated BoatXTxSend, whichever     *)
(* requests and answers were lost and however much later it comes, and not *)
(* by preparing the call anew when its limit was over.                     *)
ExecutedOnce == \A m, n \in mined : m.call = n.call => m = n

(* A call that waited and succeeds has the contract call it sent in the    *)
(* chain by then, never that of an earlier sending whose hash was left.    *)
SyncMined ==
    tx.sync /\ pc = "idle" /\ last = "success" /\ tx.call # {} =>
        \E m \in Receipt(tx.hash) : m.call = tx.call
=============================================================================
