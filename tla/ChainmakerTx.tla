----------------------------- MODULE ChainmakerTx -----------------------------
(***************************************************************************)
(* Invoking and querying a contract with a Chainmaker wallet of the SDK:   *)
(* sdk/wallet/api_chainmaker.c, built for CHAINMAKER_V2.                   *)
(*                                                                         *)
(* A BoatChainmakerTx holds the parameters of the next request.  A         *)
(* synchronous invoke submits its transaction and then asks for it, up to  *)
(* BOAT_RETRY_CNT times, by overwriting these parameters with the id of    *)
(* the transaction.  What the caller hears is spread over three codes: the *)
(* result of the function, the code of the node's response and the code of *)
(* the contract; the latter two stay in the caller's BoatResponseData from *)
(* one call to the next.                                                   *)
(*                                                                         *)
(* The application does as demo_chainmaker.c: it adds the parameters       *)
(* before every call and frees the response after it.  The node is         *)
(* external: it puts an accepted transaction into the chain, with success  *)
(* or failure, or never; requests and answers are lost, and an answer may  *)
(* be broken.                                                              *)
(***************************************************************************)
EXTENDS Integers

CONSTANTS Calls,    \* the contract calls of the application, with arguments
          Retry,    \* BOAT_RETRY_CNT
          MaxInvokes, MaxAsks  \* bounds

ASSUME ChainmakerAssumption ==
    /\ "txId" \notin Calls
    /\ Retry \in Nat \ {0}
    /\ MaxInvokes \in Nat
    /\ MaxAsks \in Nat

VARIABLES args,    \* trans_para of the BoatChainmakerTx: whose parameters
          ready,   \* the application's note of the call it added them for
          run,     \* the running or last call: its kind, contract call and
          \* invoke_tx_id
          pc,      \* what the running call does next
          rounds,  \* how many rounds of the loop are left
          result,  \* the variable result; of the last call when idle
          held,    \* how many responses tx_response holds, 0 or 1
          out,     \* the BoatResponseData: code, contract_code, and how many
          \* of its pointers own memory
          heap,    \* how many responses and messages were not freed
          asks,    \* how many queries were made
          pool,    \* external: accepted transactions of the node
          chain    \* external: the transactions in the chain

vars == <<args, ready, run, pc, rounds, result, held, out, heap, asks, pool,
          chain>>
node == <<pool, chain>>
app == <<ready, run, asks>>

Codes == {"ok", "fail"}
Kinds == {"none", "invoke", "sync", "query"}

Init ==
    /\ args = {}
    /\ ready = {}
    /\ run = [kind |-> "none", call |-> {}, id |-> 0]
    /\ pc = "idle"
    /\ rounds = 0
    /\ result = "ok"
    /\ held = 0
    /\ \E a, b \in Codes : out = [code |-> a, contract |-> b, owned |-> 0]
    /\ heap = 0
    /\ asks = 0
    /\ pool = {}
    /\ chain = {}

(* The end of a function: what is left of tx_response is freed.            *)
Return(res) ==
    /\ pc' = "idle"
    /\ result' = res
    /\ rounds' = 0
    /\ held' = 0

-----------------------------------------------------------------------------
(* The calls of the application *)

(* Mutant: n_parameters is not reset.                                      *)
ParametersAppended(c) == args \cup {c}

Parameters(c) == {c}

AddTxParam(c) ==
    /\ pc = "idle"
    /\ args' = Parameters(c)
    /\ ready' = {c}
    /\ UNCHANGED <<run, pc, rounds, result, held, out, heap, asks, node>>

(* A NULL among the parameters: the call is incomplete.  With too many of  *)
(* them, or an odd number, nothing is touched.                             *)
AddTxParamFails ==
    /\ pc = "idle"
    /\ args' \in {{}, args}
    /\ ready' = {}
    /\ UNCHANGED <<run, pc, rounds, result, held, out, heap, asks, node>>

(* BoatChainmakerContractInvoke up to its first request: a fresh random    *)
(* id, and BoatChainmakerResponseInit, which keeps both codes.             *)
ContractInvoke(c, kind) ==
    /\ pc = "idle"
    /\ c \in ready
    /\ out.owned = 0
    /\ run.id < MaxInvokes
    /\ run' = [kind |-> kind, call |-> {c}, id |-> run.id + 1]
    /\ ready' = {}
    /\ pc' = "submit"
    /\ result' = "ok"
    /\ UNCHANGED <<args, rounds, held, out, heap, asks, node>>

ContractQuery(c) ==
    /\ pc = "idle"
    /\ c \in ready
    /\ out.owned = 0
    /\ asks < MaxAsks
    /\ asks' = asks + 1
    /\ run' = [run EXCEPT !.kind = "query", !.call = {c}]
    /\ ready' = {}
    /\ pc' = "query"
    /\ result' = "ok"
    /\ UNCHANGED <<args, rounds, held, out, heap, node>>

ResponseFree ==
    /\ pc = "idle"
    /\ out.owned > 0
    /\ heap' = heap - out.owned
    /\ out' = [out EXCEPT !.owned = 0]
    /\ UNCHANGED <<args, app, pc, rounds, result, held, node>>

-----------------------------------------------------------------------------
(* The steps of a call *)

(* The node accepts the request in the send buffer, or refuses it.         *)
NodeAccepts == pool' = pool \cup {[id |-> run.id, call |-> run.call,
                                   args |-> args]}
NodeTakes == NodeAccepts \/ UNCHANGED pool

(* The transaction was not packed or no answer came back.                  *)
SubmitLost ==
    /\ NodeTakes
    /\ Return("fail")
    /\ UNCHANGED <<out, heap>>

(* A code other than SUCCESS: its message is copied, if there is memory.   *)
SubmitRefused ==
    /\ NodeTakes
    /\ \E m \in {0, 1} :
           /\ out' = [code |-> "fail", contract |-> out.contract, owned |-> m]
           /\ heap' = heap + m
    /\ Return("fail")

SubmitAccepted ==
    /\ NodeAccepts
    /\ out' = [out EXCEPT !.code = "ok"]
    /\ \/ /\ run.kind = "invoke"
          /\ Return("ok")
          /\ UNCHANGED heap
       \/ /\ run.kind = "sync"
          /\ pc' = "poll"
          /\ rounds' = Retry
          /\ held' = 1
          /\ heap' = heap + 1
          /\ UNCHANGED result

Submit ==
    /\ pc = "submit"
    /\ SubmitLost \/ SubmitRefused \/ SubmitAccepted
    /\ UNCHANGED <<args, app, chain>>

(* Mutant: one round too many.                                             *)
NextRoundLate ==
    /\ pc' = IF rounds = 0 THEN "end" ELSE "poll"
    /\ rounds' = rounds - 1

(* The end of a round, and of the loop after the last one.                 *)
NextRound ==
    /\ pc' = IF rounds = 1 THEN "end" ELSE "poll"
    /\ rounds' = rounds - 1

(* No memory to pack the question: the response of before is kept.         *)
PollUnpacked ==
    /\ NextRound
    /\ result' = "fail"
    /\ UNCHANGED <<held, out, heap>>

PollLost ==
    /\ NextRound
    /\ result' = "fail"
    /\ held' = 0
    /\ heap' = heap - held
    /\ UNCHANGED out

(* The node does not know the transaction yet, or has another error.       *)
PollRefused ==
    /\ NextRound
    /\ result' = "ok"
    /\ held' = 1
    /\ heap' = heap - held + 1
    /\ out' = [out EXCEPT !.code = "fail"]

(* Mutant: tx_response is freed and not set to NULL, as the code for       *)
(* CHAINMAKER_V1 does.                                                     *)
DroppedTwice(more) == held' = 1 /\ heap' = heap - held + more

(* The new response is freed before the round ends; more is what was       *)
(* copied out of it.                                                       *)
Dropped(more) == held' = 0 /\ heap' = heap - held + more

PollBroken ==
    /\ NextRound
    /\ result' = "ok"
    /\ out' = [code |-> "ok", contract |-> "fail", owned |-> out.owned]
    /\ Dropped(0)

Found == {t \in chain : t.id = run.id}

(* The transaction succeeded.  The loop ends with its response.            *)
PollSucceeded ==
    /\ \E t \in Found : t.ok
    /\ pc' = "end"
    /\ rounds' = 0
    /\ result' = "ok"
    /\ held' = 1
    /\ \E m \in {0, 1} :
           /\ out' = [code |-> "ok", contract |-> "ok", owned |-> m]
           /\ heap' = heap - held + 1 + m

(* Mutant: the code of the transaction is not looked at.                   *)
PollFailedUnnoticed ==
    /\ Found # {}
    /\ pc' = "end"
    /\ rounds' = 0
    /\ result' = "ok"
    /\ held' = 1
    /\ out' = [out EXCEPT !.code = "ok", !.contract = "ok"]
    /\ heap' = heap - held + 1

(* The transaction failed.  "else if (i = (BOAT_RETRY_CNT - 1))" assigns,  *)
(* so this round is the last one as well.                                  *)
PollFailed ==
    /\ \E t \in Found : ~t.ok
    /\ pc' = "end"
    /\ rounds' = 0
    /\ result' = "ok"
    /\ \E m \in {0, 1} :
           /\ out' = [code |-> "ok", contract |-> "fail", owned |-> m]
           /\ Dropped(m)

(* One round: BoatChainmakerAddTxParam(tx_ptr, 2, "txId", invoke_tx_id)    *)
(* and the request; or there is no random number for its id.               *)
Poll ==
    /\ pc = "poll"
    /\ \/ /\ args' = {"txId"}
          /\ \/ PollUnpacked \/ PollLost \/ PollRefused \/ PollBroken
             \/ PollSucceeded \/ PollFailed
       \/ /\ Return("fail")
          /\ heap' = heap - held
          /\ UNCHANGED <<args, out>>
    /\ UNCHANGED <<app, node>>

(* Behind the loop: the message of the last response, or an error code.    *)
End ==
    /\ pc = "end"
    /\ \/ /\ result = "ok" /\ held = 1
          /\ \/ /\ out' = [out EXCEPT !.owned = @ + 1]
                /\ Return("ok")
                /\ UNCHANGED heap
             \/ /\ Return("fail")
                /\ heap' = heap - 1
                /\ UNCHANGED out
       \/ /\ ~(result = "ok" /\ held = 1)
          /\ out' = [out EXCEPT !.code = "fail"]
          /\ Return(result)
          /\ heap' = heap - held
    /\ UNCHANGED <<args, app, node>>

(* BoatChainmakerContractQuery: one request; up to three parts of the      *)
(* answer are copied, until there is no memory.                            *)
Query ==
    /\ pc = "query"
    /\ \/ Return("fail") /\ UNCHANGED <<out, heap>>
       \/ \E code, contract \in Codes, n \in 0..3, res \in Codes :
              /\ out' = [code |-> code, contract |-> contract, owned |-> n]
              /\ heap' = heap + n
              /\ Return(res)
    /\ UNCHANGED <<args, app, node>>

-----------------------------------------------------------------------------
(* The node *)

Commit ==
    \E t \in pool, ok \in BOOLEAN :
        /\ pool' = pool \ {t}
        /\ chain' = chain \cup {[id |-> t.id, call |-> t.call,
                                 args |-> t.args, ok |-> ok]}
        /\ UNCHANGED <<args, app, pc, rounds, result, held, out, heap>>

SdkSteps == Submit \/ Poll \/ End \/ Query

Next ==
    \/ \E c \in Calls : \/ AddTxParam(c)
                        \/ \E kind \in {"invoke", "sync"} :
                               ContractInvoke(c, kind)
                        \/ ContractQuery(c)
    \/ AddTxParamFails
    \/ ResponseFree
    \/ SdkSteps
    \/ Commit

Spec == Init /\ [][Next]_vars

-----------------------------------------------------------------------------
(* Properties *)

ResponseData == [code : Codes, contract : Codes, owned : 0..3]
Parameter == Calls \cup {"txId"}
Transaction == [id : Nat, call : SUBSET Calls, args : SUBSET Parameter]
Committed == [id : Nat, call : SUBSET Calls, args : SUBSET Parameter,
              ok : BOOLEAN]

(* The state is well typed; rounds are left exactly while polling, and a   *)
(* response is kept only inside a synchronous invoke.                      *)
TypeOK ==
    /\ args \in SUBSET Parameter
    /\ ready \in SUBSET Calls
    /\ run \in [kind : Kinds, call : SUBSET Calls, id : Nat]
    /\ pc \in {"idle", "submit", "poll", "end", "query"}
    /\ rounds \in 0..Retry
    /\ pc = "poll" <=> rounds > 0
    /\ result \in Codes
    /\ held \in {0, 1}
    /\ held = 1 => pc \in {"poll", "end"}
    /\ out \in ResponseData
    /\ heap \in Nat
    /\ asks \in Nat
    /\ pool \subseteq Transaction
    /\ chain \subseteq Committed

(* A synchronous invoke that tells success in all its three codes has its  *)
(* own transaction in the chain, with success: whatever was left in the    *)
(* response by earlier calls, and whichever rounds failed.                 *)
SyncTold ==
    pc = "idle" /\ run.kind = "sync" /\ result = "ok"
      /\ out.code = "ok" /\ out.contract = "ok" =>
        \E t \in chain : t.id = run.id /\ t.ok /\ t.call = run.call

(* A transaction that reaches the node carries the parameters added for    *)
(* it and no others: not those of an earlier call, and not the ones a      *)
(* synchronous invoke overwrote them with.                                 *)
ArgsKept == \A t \in pool \cup chain : t.args = t.call

(* Of responses and copied messages, what is allocated is what tx_response *)
(* and the response of the caller hold: none leaks and none is freed       *)
(* twice, on any path.                                                     *)
HeapBalanced == heap = held + out.owned
=============================================================================
