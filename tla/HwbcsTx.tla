------------------------------- MODULE HwbcsTx -------------------------------
(***************************************************************************)
(* A transaction of Huawei's blockchain service: sdk/wallet/api_hw_bcs.c   *)
(* with the packing of sdk/protocol/boathwbcs/boathwbcs.c.  It was made    *)
(* out of the Fabric transaction and shares its steps up to the answers of *)
(* the endorsers.  There BoatHwbcsTxExec keeps an endorsement through      *)
(* parsePtr, which is NULL in this step: it is set in the other one, that  *)
(* of the orderers, which is not reached without endorsements.  So a call  *)
(* returns an error or ends the program, and no orderer is ever asked.     *)
(*                                                                         *)
(* An application uses one of the two chains.                              *)
(***************************************************************************)
EXTENDS FabricTx

VARIABLE chain       \* the chain the application was written for

(* A NULL pointer is used, and the program ends; a new one begins, which   *)
(* initialises its tx.                                                     *)
Dies ==
    /\ pc' = "idle"
    /\ call' = NoCall
    /\ buf' = Empty
    /\ responses' = <<>>
    /\ evaluateRes' = 0
    /\ last' = NoReturn

HwbcsTxInit == TxInit

(* BoatHwbcsTxEvaluate and BoatHwbcsTxSubmit: enter BoatHwbcsTxExec.       *)
HwbcsBegin == Begin

HwbcsPackProposal == PackProposal

(* The request failed: what was received stays in the buffer.              *)
HwbcsNoAnswer(ok, b) ==
    /\ ~ok
    /\ buf' = b
    /\ NextEndorser(call.valid)
    /\ UNCHANGED <<responses, evaluateRes, last>>

(* Bytes that do not parse, no approvals, or a status that is an error:    *)
(* on to the next endorser.                                                *)
HwbcsBadAnswer(ok, b) ==
    /\ ok
    /\ b.is \in {"short", "garbage", "failed", "refused"}
    /\ buf' = Empty
    /\ NextEndorser(call.valid)
    /\ UNCHANGED <<responses, evaluateRes, last>>

(* Nobody looks whether there are five bytes (4 GB are parsed behind NULL  *)
(* or behind a short answer) or whether the payload parses; and a good     *)
(* endorsement is written through parsePtr.                                *)
HwbcsFatalAnswer(ok, b) ==
    /\ ok
    /\ b.is \in {"nothing", "short", "garbage", "endorsed", "empty"}
    /\ Dies

HwbcsAskEndorser ==
    /\ pc = "endorse"
    /\ \E r \in Outcome(EndorserAnswers) :
        LET b == Receive(buf, r.data) IN
        \/ HwbcsNoAnswer(r.ok, b)
        \/ HwbcsBadAnswer(r.ok, b)
        \/ HwbcsFatalAnswer(r.ok, b)
    /\ UNCHANGED <<nonce, envelope, ledger>>

HwbcsGroupShort == GroupShort

HwbcsRunning == HwbcsPackProposal \/ HwbcsAskEndorser \/ HwbcsGroupShort

HwbcsNext == HwbcsTxInit \/ HwbcsBegin \/ HwbcsRunning

-----------------------------------------------------------------------------
EitherInit == Init /\ chain \in {"hlfabric", "hwbcs"}

EitherNext ==
    /\ \/ chain = "hlfabric" /\ Next
       \/ chain = "hwbcs" /\ HwbcsNext
    /\ UNCHANGED chain

EitherRuns ==
    /\ \/ chain = "hlfabric" /\ Running
       \/ chain = "hwbcs" /\ HwbcsRunning
    /\ UNCHANGED chain

(* The sockets of both chains have the same timeouts.                      *)
EitherSpec ==
    EitherInit /\ [][EitherNext]_<<vars, chain>> /\ WF_<<vars, chain>>(EitherRuns)
=============================================================================
