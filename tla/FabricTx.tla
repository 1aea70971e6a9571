------------------------------ MODULE FabricTx ------------------------------
(***************************************************************************)
(* A Hyperledger Fabric transaction of the SDK: sdk/wallet/api_hlfabric.c  *)
(* with the packing of sdk/protocol/boathlfabric/boathlfabric.c and the    *)
(* receive buffer of sdk/protocol/common/http2intf/http2intf.c.            *)
(*                                                                         *)
(* BoatHlfabricTxSubmit and BoatHlfabricTxEvaluate send a proposal to the  *)
(* endorsers, group by group, until every group has given its quota of     *)
(* endorsements; Submit then packs the endorsements into a transaction     *)
(* and offers it to the orderers, one after the other.  One action is one  *)
(* request with the handling of what came back; the peers are external:    *)
(* a request may fail at any moment, before or after the peer acted on it  *)
(* and with any part of the answer received.                               *)
(*                                                                         *)
(* Only the first layout of endorsers is modelled: BoatHlfabricTxExec      *)
(* returns, in success or in failure, before it gets to a second one.      *)
(***************************************************************************)
EXTENDS Integers, Sequences, FiniteSets, SequencesExt

CONSTANTS GroupSize,    \* endorserNumber of each group of the layout
          Quota,        \* quantities of each group
          Orderers,     \* how many orderers the network has
          MaxResponses, \* BOAT_HLFABRIC_ENDORSER_MAX_NUM
          RetryRaw,     \* does the application use a tx again after a failed
                        \* Submit, without another BoatHlfabricTxInit
          MaxProposals  \* bound: how many proposals are made

ASSUME FabricAssumption ==
    /\ GroupSize \in Seq(Nat \ {0}) /\ GroupSize # <<>>
    /\ Quota \in Seq(Nat \ {0}) /\ Len(Quota) = Len(GroupSize)
    /\ Orderers \in Nat \ {0}
    /\ MaxResponses \in Nat
    /\ RetryRaw \in BOOLEAN
    /\ MaxProposals \in Nat

VARIABLES nonce,       \* tx_ptr->var.nonce: the proposal it stands for
          responses,   \* tx_ptr->endorserResponse
          evaluateRes, \* tx_ptr->evaluateRes: the proposal it answers, 0 if empty
          pc,          \* what the running call does next
          call,        \* the locals of the running call
          buf,         \* fabricHttp2res: the bytes received and not yet parsed
          envelope,    \* sendBuf: the transaction offered to the orderers
          ledger,      \* external: the transactions the orderers accepted
          last         \* the last call that returned

vars == <<nonce, responses, evaluateRes, pc, call, buf, envelope, ledger, last>>

Groups == DOMAIN GroupSize
Proposals == 1..MaxProposals
Funs == {"none", "submit", "evaluate"}

\* An endorsement: the proposal it is for and who gave it.  The answer of an
\* orderer takes a place in the same array; its group is 0.
Response == [proposal : Proposals, group : Groups \cup {0}, peer : Nat]

\* What the buffer holds: an answer of a peer, or no complete one: nothing,
\* less than the five bytes of a gRPC header, bytes that do not parse.
\* "endorsed" and "empty" (an endorsement without
\* payload), "failed" (endorsed, but the chaincode's status is an error) and
\* "refused" (no endorsement) come from endorsers, the last one also from
\* orderers, and "accepted" from orderers.
Answer == [is : {"endorsed", "empty", "failed", "refused", "accepted"},
           from : Response]

NoOne == [proposal |-> 0, group |-> 0, peer |-> 0]
Empty == [is |-> "nothing", from |-> NoOne]
Short == [is |-> "short", from |-> NoOne]
Garbage == [is |-> "garbage", from |-> NoOne]

NoCall == [fun |-> "none", group |-> 1, peer |-> 1, valid |-> 0, ok |-> TRUE]
NoReturn == [fun |-> "none", ok |-> TRUE]
NoEnvelope == [proposal |-> 0, payload |-> 0, endorsements |-> {}]

Init ==
    /\ nonce = 0
    /\ responses = <<>>
    /\ evaluateRes = 0
    /\ pc = "idle"
    /\ call = NoCall
    /\ buf = Empty
    /\ envelope = NoEnvelope
    /\ ledger = {}
    /\ last = NoReturn

-----------------------------------------------------------------------------
(* Requests *)

(* on_data_chunk_recv_callback: what arrives goes behind what is there.    *)
(* Two answers in one buffer, or a piece of one and another, do not parse. *)
Receive(b, data) ==
    IF data = Empty THEN b ELSE IF b = Empty THEN data ELSE Garbage

(* What http2SubmitRequest can come to: an error, or success, each with    *)
(* all of the answer, some of it, or nothing.                              *)
Outcome(answers) ==
    [ok : BOOLEAN, data : {Empty, Short, Garbage} \cup answers]

(* BoatHlfabricTxSubmit and BoatHlfabricTxEvaluate return.  Evaluate frees *)
(* the responses in any case, Submit only after its second step.           *)
Return(success) ==
    /\ pc' = "idle"
    /\ call' = NoCall
    /\ buf' = Empty
    /\ last' = [fun |-> call.fun, ok |-> success]
    /\ IF call.fun = "evaluate" THEN responses' = <<>> ELSE UNCHANGED responses

-----------------------------------------------------------------------------
(* BoatHlfabricTxInit *)
TxInit ==
    /\ pc = "idle"
    /\ responses' = <<>>
    /\ evaluateRes' = 0
    /\ last' = NoReturn
    /\ UNCHANGED <<nonce, pc, call, buf, envelope, ledger>>

MayUse == RetryRaw \/ last.fun # "submit" \/ last.ok

(* Mutant: the answer of the last evaluation stays.                        *)
KeepEvaluateRes == UNCHANGED evaluateRes

FreeEvaluateRes == evaluateRes' = 0

(* BoatHlfabricTxSubmit, BoatHlfabricTxEvaluate: enter BoatHlfabricTxExec. *)
Begin ==
    /\ pc = "idle"
    /\ MayUse
    /\ nonce < MaxProposals
    /\ \E fun \in {"submit", "evaluate"} : call' = [NoCall EXCEPT !.fun = fun]
    /\ FreeEvaluateRes
    /\ pc' = "propose"
    /\ UNCHANGED <<nonce, responses, buf, envelope, ledger, last>>

(* hlfabricProposalTransactionPacked for a proposal: a new nonce.          *)
PackProposal ==
    /\ pc = "propose"
    /\ nonce' = nonce + 1
    /\ \/ pc' = "endorse" /\ UNCHANGED <<responses, call, buf, last>>
       \/ Return(FALSE)
    /\ UNCHANGED <<evaluateRes, envelope, ledger>>

-----------------------------------------------------------------------------
(* BoatHlfabricTxExec, HLFABRIC_TYPE_PROPOSAL *)

Here == [proposal |-> nonce, group |-> call.group, peer |-> call.peer]

EndorserAnswers ==
    [is : {"endorsed", "empty", "failed", "refused"}, from : {Here}]

(* Mutant: one endorser more than the group has.                           *)
NextEndorserBeyond(valid) ==
    IF call.peer <= GroupSize[call.group]
    THEN call' = [call EXCEPT !.peer = @ + 1, !.valid = valid] /\ UNCHANGED pc
    ELSE pc' = "short" /\ UNCHANGED call

(* "continue": the next endorser of the group, or the group is short.      *)
NextEndorser(valid) ==
    IF call.peer < GroupSize[call.group]
    THEN call' = [call EXCEPT !.peer = @ + 1, !.valid = valid] /\ UNCHANGED pc
    ELSE pc' = "short" /\ UNCHANGED call

(* Mutant: a quota that is off by one.                                     *)
EnoughEarly(valid) == valid + 1 >= Quota[call.group]

Enough(valid) == valid >= Quota[call.group]

(* An endorsement was counted: on to the next group if this one has its    *)
(* quota, to the orderers if it is the last one.                           *)
Counted(valid) ==
    IF ~Enough(valid) THEN NextEndorser(valid)
    ELSE IF call.group < Len(GroupSize)
    THEN /\ call' = [call EXCEPT !.group = @ + 1, !.peer = 1, !.valid = 0]
         /\ UNCHANGED pc
    ELSE pc' = "pack" /\ UNCHANGED call

Endorsed(b) == b.is \in {"endorsed", "empty", "failed"}

(* The request failed, or fewer than five bytes are there: what was        *)
(* received stays in the buffer, in front of the next endorser's answer.   *)
NoAnswer ==
    \E r \in Outcome(EndorserAnswers) :
        /\ buf' = Receive(buf, r.data)
        /\ ~r.ok \/ buf' \in {Empty, Short}
        /\ NextEndorser(call.valid)
        /\ UNCHANGED <<responses, evaluateRes>>

(* An answer that is no endorsement, or that does not parse.               *)
BadAnswer ==
    \E r \in Outcome(EndorserAnswers) :
        /\ r.ok
        /\ Receive(buf, r.data) \notin {Empty, Short}
        /\ ~Endorsed(Receive(buf, r.data))
        /\ buf' = Empty
        /\ NextEndorser(call.valid)
        /\ UNCHANGED <<responses, evaluateRes>>

(* An endorsement: it is kept, and counted for a Submit; an Evaluate takes *)
(* the payload and is done, or goes on if the chaincode failed.            *)
GoodAnswer ==
    \E r \in Outcome(EndorserAnswers) :
        LET b == Receive(buf, r.data) IN
        /\ r.ok
        /\ Endorsed(b)
        /\ buf' = Empty
        /\ responses' = Append(responses, b.from)
        /\ \/ call.fun = "submit" /\ Counted(call.valid + 1) /\ UNCHANGED evaluateRes
           \/ /\ call.fun = "evaluate" /\ b.is = "failed"
              /\ NextEndorser(call.valid)
              /\ UNCHANGED evaluateRes
           \/ /\ call.fun = "evaluate" /\ b.is # "failed"
              /\ evaluateRes' = IF b.is = "empty" THEN evaluateRes ELSE nonce
              /\ pc' = "done"
              /\ UNCHANGED call

AskEndorser ==
    /\ pc = "endorse"
    /\ NoAnswer \/ BadAnswer \/ GoodAnswer
    /\ UNCHANGED <<nonce, envelope, ledger, last>>

(* boat_throw: a group has not given its quota.                            *)
GroupShort ==
    /\ pc = "short"
    /\ Return(FALSE)
    /\ UNCHANGED <<nonce, evaluateRes, envelope, ledger>>

-----------------------------------------------------------------------------
(* BoatHlfabricTxExec, HLFABRIC_TYPE_TRANSACTION *)

(* hlfabricProposalTransactionPacked for a transaction: the payload of the *)
(* first response, and all responses as its endorsements.                  *)
PackTransaction ==
    /\ pc = "pack"
    /\ \/ /\ pc' = "order"
          /\ envelope' = [proposal |-> nonce, payload |-> responses[1].proposal,
                          endorsements |-> ToSet(responses)]
          /\ call' = [call EXCEPT !.peer = 1]
          /\ buf' = Empty
          /\ UNCHANGED <<responses, last>>
       \/ Return(FALSE) /\ UNCHANGED envelope
    /\ UNCHANGED <<nonce, evaluateRes, ledger>>

OrdererAnswers ==
    [is : {"accepted", "refused"},
     from : {[proposal |-> nonce, group |-> 0, peer |-> call.peer]}]

Accepted(b) == b.is = "accepted"

(* Mutant: the same orderer again.                                         *)
SameOrderer(ok) ==
    IF call.peer < Orderers THEN call' = [call EXCEPT !.ok = ok] /\ UNCHANGED pc
    ELSE pc' = "tried" /\ call' = [call EXCEPT !.ok = ok]

(* "continue": the result is that of the last request, not of the answer.  *)
NextOrderer(ok) ==
    IF call.peer < Orderers
    THEN call' = [call EXCEPT !.peer = @ + 1, !.ok = ok] /\ UNCHANGED pc
    ELSE pc' = "tried" /\ call' = [call EXCEPT !.ok = ok]

(* What came back from an orderer.  An answer that was parsed is freed but *)
(* its length is kept, so after a refusal the buffer is read and appended  *)
(* to after it was freed: taken for bytes that do not parse (undefined     *)
(* behaviour; the other outcome is that the program is stopped by it).     *)
OrdererAnswered(r) ==
    LET b == Receive(buf, r.data) IN
    IF r.ok /\ Accepted(b)
    THEN /\ responses' = Append(responses, b.from)
         /\ buf' = Garbage
         /\ pc' = "done"
         /\ UNCHANGED call
    ELSE /\ buf' = IF r.ok /\ b \notin {Empty, Short} THEN Garbage ELSE b
         /\ NextOrderer(r.ok)
         /\ UNCHANGED responses

(* The orderer may take the transaction although its answer is lost; it    *)
(* does not answer that it did when it did not.                            *)
AskOrderer ==
    /\ pc = "order"
    /\ \E r \in Outcome(OrdererAnswers), accepts \in BOOLEAN :
        /\ r.data \in OrdererAnswers => accepts = Accepted(r.data)
        /\ OrdererAnswered(r)
        /\ ledger' = IF accepts THEN ledger \cup {envelope} ELSE ledger
    /\ UNCHANGED <<nonce, evaluateRes, envelope, last>>

(* No orderer accepted: an error or a success, as the last request had it. *)
OrderersTried ==
    /\ pc = "tried"
    /\ IF call.ok THEN pc' = "done" /\ UNCHANGED <<responses, call, buf, last>>
                  ELSE Return(FALSE)
    /\ UNCHANGED <<nonce, evaluateRes, envelope, ledger>>

(* Mutant: the responses are freed and their count stays.                  *)
FinishKeeps ==
    /\ pc = "done"
    /\ pc' = "idle"
    /\ call' = NoCall
    /\ buf' = Empty
    /\ last' = [fun |-> call.fun, ok |-> TRUE]
    /\ UNCHANGED <<nonce, responses, evaluateRes, envelope, ledger>>

(* The responses are freed and BOAT_SUCCESS returned.                      *)
Finish ==
    /\ pc = "done"
    /\ pc' = "idle"
    /\ call' = NoCall
    /\ buf' = Empty
    /\ last' = [fun |-> call.fun, ok |-> TRUE]
    /\ responses' = <<>>
    /\ UNCHANGED <<nonce, evaluateRes, envelope, ledger>>

Next ==
    \/ TxInit \/ Begin \/ PackProposal
    \/ AskEndorser \/ GroupShort
    \/ PackTransaction \/ AskOrderer \/ OrderersTried \/ Finish

Spec == Init /\ [][Next]_vars

(* A call that was made runs on: BoatConnect gives every socket a send and *)
(* a receive timeout of half a second, so a request ends.                  *)
Running == PackProposal \/ AskEndorser \/ GroupShort \/ PackTransaction
           \/ AskOrderer \/ OrderersTried \/ Finish

FairSpec == Spec /\ WF_vars(Running)

-----------------------------------------------------------------------------
(* Properties *)

(* The state is well typed; in particular the loops stay within the groups *)
(* and the orderers of the network, and the responses never outgrow        *)
(* tx_ptr->endorserResponse.                                               *)
TypeOK ==
    /\ nonce \in 0..MaxProposals
    /\ responses \in Seq(Response)
    /\ Len(responses) <= MaxResponses
    /\ evaluateRes \in 0..MaxProposals
    /\ pc \in {"idle", "propose", "endorse", "short", "pack", "order", "tried", "done"}
    /\ call \in [fun : Funs, group : Groups, peer : Nat, valid : Nat, ok : BOOLEAN]
    /\ pc = "endorse" => call.peer \in 1..GroupSize[call.group]
    /\ pc = "order" => call.peer \in 1..Orderers
    /\ buf \in {Empty, Short, Garbage} \cup Answer
    /\ envelope \in [proposal : 0..MaxProposals, payload : 0..MaxProposals,
                      endorsements : SUBSET Response]
    /\ ledger \subseteq [proposal : Proposals, payload : Proposals,
                         endorsements : SUBSET Response]
    /\ last \in [fun : Funs, ok : BOOLEAN]

(* Every transaction that an orderer ever accepted has the quota of each   *)
(* group, given by different endorsers of that group for its own proposal, *)
(* whichever requests failed half way: what a failed request leaves in the *)
(* receive buffer never counts for an endorser of another group, nor twice.*)
EndorsedEnough ==
    \A t \in ledger : \A g \in Groups :
        Cardinality({e \in t.endorsements :
            e.group = g /\ e.proposal = t.proposal}) >= Quota[g]

(* A transaction carries the payload and the endorsements of one proposal, *)
(* its own, never those of an earlier one.                                 *)
OneProposal ==
    \A t \in ledger :
        /\ t.payload = t.proposal
        /\ \A e \in t.endorsements : e.proposal = t.proposal

(* What an application reads from evaluateRes after a call is the answer   *)
(* to that call, never one that an earlier call left there.                *)
EvaluateFresh == pc = "idle" => evaluateRes \in {0, nonce}

(* Every call returns, however the peers behave.                           *)
Returns == pc # "idle" ~> pc = "idle"

(* BoatHlfabricTxSubmit: "BOAT_SUCCESS if submit success": an orderer has  *)
(* taken the transaction.                                                  *)
SubmitTold ==
    pc = "idle" /\ last = [fun |-> "submit", ok |-> TRUE]
        => \E t \in ledger : t.proposal = nonce
=============================================================================
