-------------------------- MODULE ChainmakerTxProofs --------------------------
(***************************************************************************)
(* Proofs about Chainmaker calls, for any contract calls, any number of    *)
(* rounds that is not zero, any number of calls and a node that loses,     *)
(* refuses, commits and fails at will.                                     *)
(***************************************************************************)
EXTENDS ChainmakerTx, TLAPS

-----------------------------------------------------------------------------
(* The inductive invariant *)

(* The parameters belong to the call they were added for until a loop      *)
(* overwrites them, and by then their transaction was sent.                *)
ArgsInv ==
    /\ ready # {} => pc = "idle" /\ args = ready
    /\ \A c, d \in ready : c = d
    /\ pc \in {"submit", "query"} => args = run.call
    /\ ArgsKept

(* Ids are not used twice: what the node has of a synchronous invoke is    *)
(* what this invoke sent.                                                  *)
IdInv ==
    /\ pc = "submit" => run.kind \in {"invoke", "sync"}
    /\ pc \in {"poll", "end"} => run.kind = "sync"
    /\ pc = "query" => run.kind = "query"
    /\ \A t \in pool \cup chain : t.id <= run.id
    /\ pc = "submit" => \A t \in pool \cup chain : t.id # run.id
    /\ run.kind = "sync" =>
           \A t \in pool \cup chain : t.id = run.id => t.call = run.call

(* Memory of the response: none before the loop is over.                   *)
HeapInv ==
    /\ HeapBalanced
    /\ pc \in {"submit", "query", "poll"} => out.owned = 0
    /\ pc = "end" => out.owned \in {0, 1}

InChain == \E t \in chain : t.id = run.id /\ t.ok /\ t.call = run.call

(* A response that is kept from one round to the next is a refusal, and    *)
(* the one the loop ended with stands for a transaction in the chain.      *)
ToldInv ==
    /\ pc = "poll" /\ rounds # Retry /\ result = "ok" /\ held = 1 =>
           out.code = "fail"
    /\ pc = "end" /\ result = "ok" /\ held = 1
         /\ out.code = "ok" /\ out.contract = "ok" => InChain
    /\ SyncTold

ChainmakerInv == TypeOK /\ ArgsInv /\ IdInv /\ HeapInv /\ ToldInv


-----------------------------------------------------------------------------
(* The response of the caller *)

LEMMA CodesFacts == "ok" \in Codes /\ "fail" \in Codes
BY DEF Codes

LEMMA ResponseFacts ==
    ASSUME NEW o \in ResponseData
    PROVE  o.code \in Codes /\ o.contract \in Codes /\ o.owned \in 0..3
BY DEF ResponseData

LEMMA ResponseMade ==
    ASSUME NEW a \in Codes, NEW b \in Codes, NEW n \in 0..3, NEW o,
           o = [code |-> a, contract |-> b, owned |-> n]
    PROVE  /\ o \in ResponseData
           /\ o.code = a /\ o.contract = b /\ o.owned = n
BY DEF ResponseData

LEMMA CodeSet ==
    ASSUME NEW o \in ResponseData, NEW a \in Codes, NEW p,
           p = [o EXCEPT !.code = a]
    PROVE  /\ p \in ResponseData
           /\ p.code = a /\ p.contract = o.contract /\ p.owned = o.owned
BY DEF ResponseData

LEMMA OwnedSet ==
    ASSUME NEW o \in ResponseData, NEW n \in 0..3, NEW p,
           p = [o EXCEPT !.owned = n]
    PROVE  /\ p \in ResponseData
           /\ p.code = o.code /\ p.contract = o.contract /\ p.owned = n
BY DEF ResponseData

LEMMA ChainmakerInit == Init => ChainmakerInv
<1> SUFFICES ASSUME Init PROVE ChainmakerInv
  OBVIOUS
<1>1. TypeOK
  <2>1. out \in ResponseData
    <3>1. PICK a \in Codes, b \in Codes :
              out = [code |-> a, contract |-> b, owned |-> 0]
      BY DEF Init
    <3> QED
      BY <3>1 DEF ResponseData
  <2>2. run \in [kind : Kinds, call : SUBSET Calls, id : Nat]
    BY DEF Init, Kinds
  <2> QED
    BY <2>1, <2>2, CodesFacts, ChainmakerAssumption DEF Init, TypeOK
<1> QED
  <2>1. out.owned = 0
    BY DEF Init
  <2> QED
    BY <1>1, <2>1 DEF Init, ChainmakerInv, ArgsInv, IdInv, HeapInv, ToldInv,
       ArgsKept, HeapBalanced, SyncTold

-----------------------------------------------------------------------------
(* The steps that leave the chain, the calls and their ids alone           *)

LEMMA ArgsQuiet ==
    ASSUME ArgsInv, UNCHANGED <<ready, run, node>>,
           args' = args \/ (ready = {} /\ pc' \notin {"submit", "query"}),
           ready # {} => pc' = "idle",
           pc' \in {"submit", "query"} => pc' = pc
    PROVE  ArgsInv'
BY DEF ArgsInv, ArgsKept, node

LEMMA IdQuiet ==
    ASSUME IdInv, UNCHANGED <<run, node>>,
           pc' \in {"submit", "query"} => pc' = pc,
           pc' \in {"poll", "end"} =>
               pc \in {"poll", "end"} \/ run.kind = "sync"
    PROVE  IdInv'
BY DEF IdInv, node

-----------------------------------------------------------------------------
(* The application *)

LEMMA InvAddTxParam ==
    ASSUME ChainmakerInv, NEW c \in Calls, AddTxParam(c)
    PROVE  ChainmakerInv'
<1>1. TypeOK'
  BY DEF AddTxParam, Parameters, ChainmakerInv, TypeOK, Parameter, node
<1>2. ArgsInv' /\ IdInv'
  BY DEF AddTxParam, Parameters, ChainmakerInv, ArgsInv, ArgsKept, IdInv, node
<1>3. HeapInv' /\ ToldInv'
  BY DEF AddTxParam, ChainmakerInv, HeapInv, HeapBalanced, ToldInv, SyncTold,
     InChain, node
<1> QED
  BY <1>1, <1>2, <1>3 DEF ChainmakerInv

LEMMA InvAddTxParamFails ==
    ASSUME ChainmakerInv, AddTxParamFails PROVE ChainmakerInv'
<1>1. TypeOK'
  BY DEF AddTxParamFails, ChainmakerInv, TypeOK, node
<1>2. ArgsInv' /\ IdInv'
  BY DEF AddTxParamFails, ChainmakerInv, ArgsInv, ArgsKept, IdInv, node
<1>3. HeapInv' /\ ToldInv'
  BY DEF AddTxParamFails, ChainmakerInv, HeapInv, HeapBalanced, ToldInv,
     SyncTold, InChain, node
<1> QED
  BY <1>1, <1>2, <1>3 DEF ChainmakerInv

LEMMA InvContractInvoke ==
    ASSUME ChainmakerInv, NEW c \in Calls, NEW kind \in {"invoke", "sync"},
           ContractInvoke(c, kind)
    PROVE  ChainmakerInv'
<1>1. /\ run' = [kind |-> kind, call |-> {c}, id |-> run.id + 1]
      /\ run'.kind = kind /\ run'.call = {c} /\ run'.id = run.id + 1
      /\ run.id \in Nat
  BY DEF ContractInvoke, ChainmakerInv, TypeOK
<1>2. TypeOK'
  <2>1. run' \in [kind : Kinds, call : SUBSET Calls, id : Nat]
    BY <1>1 DEF Kinds
  <2> QED
    BY <2>1 DEF ContractInvoke, ChainmakerInv, TypeOK, node, Codes
<1>3. args = {c}
  <2>1. c \in ready /\ args = ready
    BY DEF ContractInvoke, ChainmakerInv, ArgsInv
  <2>2. \A d \in ready : d = c
    BY <2>1 DEF ChainmakerInv, ArgsInv
  <2> QED
    BY <2>1, <2>2
<1>4. ArgsInv'
  BY <1>1, <1>3 DEF ContractInvoke, ChainmakerInv, ArgsInv, ArgsKept, node
<1>5. IdInv'
  <2>1. \A t \in pool \cup chain : t.id \in Nat /\ t.id <= run.id
    BY DEF ChainmakerInv, IdInv, TypeOK, Transaction, Committed
  <2>2. \A t \in pool \cup chain : t.id <= run'.id /\ t.id # run'.id
    BY <1>1, <2>1
  <2> QED
    BY <1>1, <2>2 DEF ContractInvoke, IdInv, node
<1>6. HeapInv' /\ ToldInv'
  BY DEF ContractInvoke, ChainmakerInv, HeapInv, HeapBalanced, ToldInv,
     SyncTold, node
<1> QED
  BY <1>2, <1>4, <1>5, <1>6 DEF ChainmakerInv

LEMMA InvContractQuery ==
    ASSUME ChainmakerInv, NEW c \in Calls, ContractQuery(c)
    PROVE  ChainmakerInv'
<1>1. /\ run' = [kind |-> "query", call |-> {c}, id |-> run.id]
      /\ run'.kind = "query" /\ run'.call = {c} /\ run'.id = run.id
      /\ run.id \in Nat
  <2>1. run = [kind |-> run.kind, call |-> run.call, id |-> run.id] /\ run.id \in Nat
    BY DEF ChainmakerInv, TypeOK
  <2> QED
    BY <2>1 DEF ContractQuery
<1>2. TypeOK'
  <2>1. run' \in [kind : Kinds, call : SUBSET Calls, id : Nat]
    BY <1>1 DEF Kinds
  <2> QED
    BY <2>1 DEF ContractQuery, ChainmakerInv, TypeOK, node, Codes
<1>3. args = {c}
  <2>1. c \in ready /\ args = ready
    BY DEF ContractQuery, ChainmakerInv, ArgsInv
  <2>2. \A d \in ready : d = c
    BY <2>1 DEF ChainmakerInv, ArgsInv
  <2> QED
    BY <2>1, <2>2
<1>4. ArgsInv'
  BY <1>1, <1>3 DEF ContractQuery, ChainmakerInv, ArgsInv, ArgsKept, node
<1>5. IdInv'
  BY <1>1 DEF ContractQuery, ChainmakerInv, IdInv, node
<1>6. HeapInv' /\ ToldInv'
  BY DEF ContractQuery, ChainmakerInv, HeapInv, HeapBalanced, ToldInv,
     SyncTold, node
<1> QED
  BY <1>2, <1>4, <1>5, <1>6 DEF ChainmakerInv

LEMMA InvResponseFree ==
    ASSUME ChainmakerInv, ResponseFree PROVE ChainmakerInv'
<1>1. /\ pc = "idle" /\ out \in ResponseData /\ held = 0 /\ heap \in Nat
      /\ out' = [out EXCEPT !.owned = 0] /\ heap' = heap - out.owned
  BY DEF ResponseFree, ChainmakerInv, TypeOK
<1>2. /\ out' \in ResponseData /\ out'.owned = 0 /\ out.owned \in 0..3
      /\ out'.code = out.code /\ out'.contract = out.contract
  BY <1>1, OwnedSet, ResponseFacts
<1>3. heap' = 0
  BY <1>1, <1>2 DEF ChainmakerInv, HeapInv, HeapBalanced
<1>4. TypeOK'
  BY <1>1, <1>2, <1>3 DEF ResponseFree, ChainmakerInv, TypeOK, app, node
<1>5. ArgsInv' /\ IdInv'
  BY ArgsQuiet, IdQuiet DEF ResponseFree, ChainmakerInv, app, ArgsInv
<1>6. HeapInv' /\ ToldInv'
  BY <1>1, <1>2, <1>3 DEF ResponseFree, ChainmakerInv, HeapInv,
     HeapBalanced, ToldInv, SyncTold, InChain, app, node
<1> QED
  BY <1>4, <1>5, <1>6 DEF ChainmakerInv

-----------------------------------------------------------------------------
(* The steps of a call *)

(* What the node takes from a submission.                                  *)
LEMMA NodeTakesInv ==
    ASSUME ChainmakerInv, pc = "submit", NodeTakes,
           UNCHANGED <<args, ready, run, chain>>, pc' \in {"idle", "poll"},
           pc' = "poll" => run.kind = "sync"
    PROVE  ArgsInv' /\ IdInv' /\ pool' \subseteq Transaction
<1> DEFINE new == [id |-> run.id, call |-> run.call, args |-> args]
<1>1. /\ new.id = run.id /\ new.call = run.call /\ new.args = args
      /\ run.id \in Nat
      /\ new \in Transaction
  BY DEF ChainmakerInv, TypeOK, Transaction
<1>2. args = run.call /\ ready = {}
  BY DEF ChainmakerInv, ArgsInv
<1>3. \A t \in pool' : t \in pool \/ t = new
  BY DEF NodeTakes, NodeAccepts
<1> HIDE DEF new
<1>4. ArgsInv'
  BY <1>1, <1>2, <1>3 DEF ChainmakerInv, ArgsInv, ArgsKept
<1>5. IdInv'
  BY <1>1, <1>3 DEF ChainmakerInv, IdInv
<1>6. pool' \subseteq Transaction
  BY <1>1, <1>3 DEF ChainmakerInv, TypeOK
<1> QED
  BY <1>4, <1>5, <1>6

LEMMA InvSubmit ==
    ASSUME ChainmakerInv, Submit PROVE ChainmakerInv'
<1>1. /\ pc = "submit" /\ TypeOK /\ out \in ResponseData /\ out.owned = 0
      /\ held = 0 /\ rounds = 0 /\ heap \in Nat
  BY DEF Submit, ChainmakerInv, TypeOK, HeapInv
<1>2. heap = 0 /\ held = 0
  BY <1>1 DEF ChainmakerInv, HeapInv, HeapBalanced, TypeOK
<1>3. UNCHANGED <<args, ready, run, asks, chain>>
  BY DEF Submit, app
<1>4. out.code \in Codes /\ out.contract \in Codes /\ "ok" \in Codes /\ "fail" \in Codes
  BY <1>1, ResponseFacts, CodesFacts
<1>5. ASSUME pc' = "idle", rounds' = 0, held' = 0, result' \in Codes,
             NodeTakes, out' \in ResponseData, heap' = out'.owned,
             out'.code = "fail" \/ result' = "fail" \/ run.kind # "sync"
      PROVE  ChainmakerInv'
  <2>1. heap' \in Nat
    BY <1>5, ResponseFacts
  <2>2. ArgsInv' /\ IdInv' /\ pool' \subseteq Transaction
    BY <1>1, <1>3, <1>5, NodeTakesInv
  <2>3. TypeOK'
    BY <1>1, <1>3, <1>5, <2>1, <2>2, ChainmakerAssumption DEF TypeOK
  <2>4. HeapInv'
    BY <1>5, <2>1 DEF HeapInv, HeapBalanced
  <2>5. ToldInv'
    BY <1>3, <1>5 DEF ToldInv, SyncTold
  <2> QED
    BY <2>2, <2>3, <2>4, <2>5 DEF ChainmakerInv
<1>6. CASE SubmitLost
  BY <1>1, <1>2, <1>4, <1>5, <1>6 DEF SubmitLost, Return
<1>7. CASE SubmitRefused
  <2>1. PICK m \in {0, 1} :
            /\ out' = [code |-> "fail", contract |-> out.contract, owned |-> m]
            /\ heap' = heap + m
    BY <1>7 DEF SubmitRefused
  <2>2. out' \in ResponseData /\ out'.owned = m /\ out'.code = "fail" /\ heap' = m
    BY <1>2, <1>4, <2>1, ResponseMade
  <2> QED
    BY <1>4, <1>5, <1>7, <2>2 DEF SubmitRefused, Return
<1>8. CASE SubmitAccepted
  <2>1. out' = [out EXCEPT !.code = "ok"] /\ NodeAccepts
    BY <1>8 DEF SubmitAccepted
  <2>2. out' \in ResponseData /\ out'.owned = 0
    BY <1>1, <1>4, <2>1, CodeSet
  <2>3. CASE run.kind = "invoke" /\ Return("ok") /\ UNCHANGED heap
    BY <1>2, <1>4, <1>5, <2>1, <2>2, <2>3 DEF NodeTakes, Return
  <2>4. CASE /\ run.kind = "sync" /\ pc' = "poll" /\ rounds' = Retry
             /\ held' = 1 /\ heap' = heap + 1 /\ UNCHANGED result
    <3>1. ArgsInv' /\ IdInv' /\ pool' \subseteq Transaction
      BY <1>1, <1>3, <2>1, <2>4, NodeTakesInv DEF NodeTakes
    <3>2. heap' = 1
      BY <1>2, <2>4
    <3>3. TypeOK'
      BY <1>1, <1>3, <2>2, <2>4, <3>1, <3>2, ChainmakerAssumption DEF TypeOK
    <3>4. HeapInv'
      BY <2>2, <2>4, <3>2 DEF HeapInv, HeapBalanced
    <3>5. ToldInv'
      BY <2>4 DEF ToldInv, SyncTold
    <3> QED
      BY <3>1, <3>3, <3>4, <3>5 DEF ChainmakerInv
  <2> QED
    BY <1>8, <2>3, <2>4 DEF SubmitAccepted
<1> QED
  BY <1>6, <1>7, <1>8 DEF Submit

(* The end of a round: the loop goes on with one round less, or is over.   *)
LEMMA RoundEnds ==
    ASSUME TypeOK, pc = "poll", NextRound
    PROVE  /\ pc' \in {"poll", "end"} /\ rounds' \in 0..Retry
           /\ pc' = "poll" <=> rounds' > 0
           /\ rounds' # Retry
BY ChainmakerAssumption DEF TypeOK, NextRound

(* What a round leaves behind, whichever way it went.                      *)
LEMMA RoundInv ==
    ASSUME ChainmakerInv, pc = "poll",
           UNCHANGED <<app, node>>, args' = {"txId"},
           pc' \in {"poll", "end"}, rounds' \in 0..Retry,
           pc' = "poll" <=> rounds' > 0, rounds' # Retry,
           result' \in Codes, held' \in {0, 1}, out' \in ResponseData,
           heap' = held' + out'.owned,
           out'.owned \in {0, 1}, pc' = "poll" => out'.owned = 0,
           result' = "ok" /\ held' = 1 =>
               out'.code = "fail" \/ (pc' = "end" /\ \E t \in Found : t.ok)
    PROVE  ChainmakerInv'
<1>1. heap' \in Nat
  OBVIOUS
<1>2. TypeOK'
  BY <1>1 DEF ChainmakerInv, TypeOK, Parameter, app, node
<1>3. ArgsInv' /\ IdInv'
  BY ArgsQuiet, IdQuiet DEF ChainmakerInv, ArgsInv, app
<1>4. HeapInv'
  BY DEF HeapInv, HeapBalanced
<1>5. (\E t \in Found : t.ok) => InChain
  BY DEF ChainmakerInv, IdInv, Found, InChain
<1>6. ToldInv'
  BY <1>5 DEF ToldInv, SyncTold, InChain, app, node
<1> QED
  BY <1>2, <1>3, <1>4, <1>6 DEF ChainmakerInv

(* The function returns, and nothing but the response is left of it.       *)
LEMMA ReturnInv ==
    ASSUME ChainmakerInv, pc \in {"poll", "end", "query"},
           NEW r \in Codes, Return(r),
           UNCHANGED <<app, node>>,
           args' \in {args, {"txId"}},
           out' \in ResponseData, heap' = out'.owned,
           r = "ok" /\ run.kind = "sync" /\ out'.code = "ok"
             /\ out'.contract = "ok" => InChain
    PROVE  ChainmakerInv'
<1>1. heap' \in Nat
  BY ResponseFacts
<1>2. TypeOK'
  BY <1>1, ChainmakerAssumption DEF Return, ChainmakerInv, TypeOK, Parameter, app, node
<1>3. ArgsInv' /\ IdInv'
  BY ArgsQuiet, IdQuiet DEF Return, ChainmakerInv, ArgsInv, app
<1>4. HeapInv'
  BY <1>1 DEF Return, HeapInv, HeapBalanced
<1>5. ToldInv'
  BY DEF Return, ToldInv, SyncTold, InChain, app, node
<1> QED
  BY <1>2, <1>3, <1>4, <1>5 DEF ChainmakerInv

LEMMA InvPoll ==
    ASSUME ChainmakerInv, Poll PROVE ChainmakerInv'
<1>1. /\ pc = "poll" /\ out \in ResponseData /\ out.owned = 0
      /\ held \in {0, 1} /\ heap \in Nat /\ TypeOK
      /\ UNCHANGED <<app, node>> /\ "ok" \in Codes /\ "fail" \in Codes
  BY CodesFacts DEF Poll, ChainmakerInv, TypeOK, HeapInv
<1>2. heap = held /\ heap - held = 0
  BY <1>1 DEF ChainmakerInv, HeapInv, HeapBalanced
<1>3. CASE Return("fail") /\ heap' = heap - held /\ UNCHANGED <<args, out>>
  BY <1>1, <1>2, <1>3, ReturnInv
<1>4. CASE args' = {"txId"} /\ PollUnpacked
  <2>1. NextRound /\ result' = "fail" /\ UNCHANGED <<held, out, heap>>
    BY <1>4 DEF PollUnpacked
  <2> QED
    BY <1>1, <1>2, <1>4, <2>1, RoundEnds, RoundInv
<1>5. CASE args' = {"txId"} /\ PollLost
  <2>1. NextRound /\ result' = "fail" /\ held' = 0 /\ out' = out /\ heap' = 0
    BY <1>2, <1>5 DEF PollLost
  <2>2. heap' = held' + out'.owned
    BY <1>1, <2>1
  <2> QED
    BY <1>1, <1>5, <2>1, <2>2, RoundEnds, RoundInv
<1>6. CASE args' = {"txId"} /\ PollRefused
  <2>1. NextRound /\ result' = "ok" /\ held' = 1 /\ heap' = 1
    BY <1>2, <1>6 DEF PollRefused
  <2>2. out' \in ResponseData /\ out'.owned = 0 /\ out'.code = "fail"
    BY <1>1, <1>6, CodeSet DEF PollRefused
  <2>3. heap' = held' + out'.owned
    BY <2>1, <2>2
  <2> QED
    <3>1. /\ pc' \in {"poll", "end"} /\ rounds' \in 0..Retry
          /\ pc' = "poll" <=> rounds' > 0
          /\ rounds' # Retry
      BY <1>1, <2>1, RoundEnds
    <3>2. /\ result' \in Codes /\ held' \in {0, 1} /\ out'.owned \in {0, 1}
          /\ args' = {"txId"} /\ UNCHANGED <<app, node>>
      BY <1>1, <1>6, <2>1, <2>2
    <3> QED
      BY <1>1, <2>2, <2>3, <3>1, <3>2, RoundInv
<1>7. CASE args' = {"txId"} /\ PollBroken
  <2>1. NextRound /\ result' = "ok" /\ held' = 0 /\ heap' = 0
    BY <1>2, <1>7 DEF PollBroken, Dropped
  <2>2. out' \in ResponseData /\ out'.owned = 0
    BY <1>1, <1>7, ResponseMade DEF PollBroken
  <2>3. heap' = held' + out'.owned
    BY <2>1, <2>2
  <2> QED
    BY <1>1, <1>7, <2>1, <2>2, <2>3, RoundEnds, RoundInv
<1>8. CASE args' = {"txId"} /\ PollSucceeded
  <2>1. PICK m \in {0, 1} :
            /\ out' = [code |-> "ok", contract |-> "ok", owned |-> m]
            /\ heap' = heap - held + 1 + m
    BY <1>8 DEF PollSucceeded
  <2>2. /\ \E t \in Found : t.ok
        /\ pc' = "end" /\ rounds' = 0 /\ result' = "ok" /\ held' = 1
    BY <1>8 DEF PollSucceeded
  <2>3. out' \in ResponseData /\ out'.owned = m
    BY <1>1, <2>1, ResponseMade
  <2>4. heap' = held' + out'.owned
    BY <1>2, <2>1, <2>2, <2>3
  <2> QED
    BY <1>1, <1>8, <2>2, <2>3, <2>4, RoundInv, ChainmakerAssumption
<1>9. CASE args' = {"txId"} /\ PollFailed
  <2>1. PICK m \in {0, 1} :
            /\ out' = [code |-> "ok", contract |-> "fail", owned |-> m]
            /\ Dropped(m)
    BY <1>9 DEF PollFailed
  <2>2. pc' = "end" /\ rounds' = 0 /\ result' = "ok" /\ held' = 0
    BY <1>9, <2>1 DEF PollFailed, Dropped
  <2>3. out' \in ResponseData /\ out'.owned = m
    BY <1>1, <2>1, ResponseMade
  <2>4. heap' = held' + out'.owned
    BY <1>2, <2>1, <2>2, <2>3 DEF Dropped
  <2> QED
    BY <1>1, <1>9, <2>2, <2>3, <2>4, RoundInv, ChainmakerAssumption
<1> QED
  BY <1>3, <1>4, <1>5, <1>6, <1>7, <1>8, <1>9 DEF Poll

LEMMA InvEnd ==
    ASSUME ChainmakerInv, End PROVE ChainmakerInv'
<1>1. /\ pc = "end" /\ out \in ResponseData /\ out.owned \in {0, 1}
      /\ held \in {0, 1} /\ heap \in Nat /\ result \in Codes
      /\ UNCHANGED <<app, node, args>> /\ "ok" \in Codes /\ "fail" \in Codes
  BY CodesFacts DEF End, ChainmakerInv, TypeOK, HeapInv
<1>2. heap = held + out.owned
  BY DEF ChainmakerInv, HeapInv, HeapBalanced
<1>3. CASE /\ result = "ok" /\ held = 1 /\ out' = [out EXCEPT !.owned = @ + 1]
           /\ Return("ok") /\ UNCHANGED heap
  <2>1. /\ out' \in ResponseData /\ out'.owned = out.owned + 1
        /\ out'.code = out.code /\ out'.contract = out.contract
    <3>1. out.owned + 1 \in 0..3
      BY <1>1
    <3> QED
      BY <1>1, <1>3, <3>1, OwnedSet
  <2>2. heap' = out'.owned
    BY <1>1, <1>2, <1>3, <2>1
  <2>3. out.code = "ok" /\ out.contract = "ok" => InChain
    BY <1>1, <1>3 DEF ChainmakerInv, ToldInv
  <2> QED
    BY <1>1, <1>3, <2>1, <2>2, <2>3, ReturnInv
<1>4. CASE /\ result = "ok" /\ held = 1
           /\ Return("fail") /\ heap' = heap - 1 /\ UNCHANGED out
  <2>1. heap' = out'.owned
    BY <1>1, <1>2, <1>4
  <2> QED
    BY <1>1, <1>4, <2>1, ReturnInv
<1>5. CASE /\ out' = [out EXCEPT !.code = "fail"]
           /\ Return(result) /\ heap' = heap - held
  <2>1. out' \in ResponseData /\ out'.owned = out.owned /\ out'.code = "fail"
    BY <1>1, <1>5, CodeSet
  <2>2. heap' = out'.owned
    BY <1>1, <1>2, <1>5, <2>1
  <2> QED
    BY <1>1, <1>5, <2>1, <2>2, ReturnInv
<1> QED
  BY <1>3, <1>4, <1>5 DEF End

LEMMA InvQuery ==
    ASSUME ChainmakerInv, Query PROVE ChainmakerInv'
<1>1. /\ pc = "query" /\ out \in ResponseData /\ out.owned = 0
      /\ held = 0 /\ heap \in Nat /\ run.kind # "sync"
      /\ UNCHANGED <<app, node, args>> /\ "ok" \in Codes /\ "fail" \in Codes
  BY CodesFacts DEF Query, ChainmakerInv, TypeOK, HeapInv, IdInv
<1>2. heap = 0
  BY <1>1 DEF ChainmakerInv, HeapInv, HeapBalanced
<1>3. CASE Return("fail") /\ UNCHANGED <<out, heap>>
  BY <1>1, <1>2, <1>3, ReturnInv
<1>4. ASSUME NEW code \in Codes, NEW contract \in Codes, NEW n \in 0..3,
             NEW res \in Codes,
             out' = [code |-> code, contract |-> contract, owned |-> n],
             heap' = heap + n, Return(res)
      PROVE  ChainmakerInv'
  <2>1. out' \in ResponseData /\ out'.owned = n
    BY <1>4, ResponseMade
  <2> QED
    BY <1>1, <1>2, <1>4, <2>1, ReturnInv
<1> QED
  BY <1>3, <1>4 DEF Query

-----------------------------------------------------------------------------
(* The node *)

LEMMA InvCommit ==
    ASSUME ChainmakerInv, Commit PROVE ChainmakerInv'
<1>1. PICK t \in pool, ok \in BOOLEAN :
          /\ pool' = pool \ {t}
          /\ chain' = chain \cup {[id |-> t.id, call |-> t.call,
                                   args |-> t.args, ok |-> ok]}
          /\ UNCHANGED <<args, app, pc, rounds, result, held, out, heap>>
  BY DEF Commit
<1> DEFINE new == [id |-> t.id, call |-> t.call, args |-> t.args, ok |-> ok]
<1>2. new.id = t.id /\ new.call = t.call /\ new.args = t.args /\ new \in Committed
  BY DEF ChainmakerInv, TypeOK, Transaction, Committed
<1>3. /\ \A u \in chain' : u \in chain \/ u = new
      /\ chain \subseteq chain' /\ pool' \subseteq pool
  BY <1>1
<1> HIDE DEF new
<1>4. TypeOK'
  BY <1>1, <1>2, <1>3 DEF ChainmakerInv, TypeOK, app
<1>5. ArgsInv'
  BY <1>1, <1>2, <1>3 DEF ChainmakerInv, ArgsInv, ArgsKept, app
<1>6. IdInv'
  BY <1>1, <1>2, <1>3 DEF ChainmakerInv, IdInv, app
<1>7. HeapInv' /\ ToldInv'
  BY <1>1, <1>3 DEF ChainmakerInv, HeapInv, HeapBalanced, ToldInv, SyncTold,
     InChain, app
<1> QED
  BY <1>4, <1>5, <1>6, <1>7 DEF ChainmakerInv

LEMMA ChainmakerNext == ChainmakerInv /\ [Next]_vars => ChainmakerInv'
<1> SUFFICES ASSUME ChainmakerInv, [Next]_vars PROVE ChainmakerInv'
  OBVIOUS
<1>1. CASE UNCHANGED vars
  BY <1>1 DEF vars, ChainmakerInv, TypeOK, ArgsInv, ArgsKept, IdInv, HeapInv,
     HeapBalanced, ToldInv, SyncTold, InChain
<1>2. CASE SdkSteps
  BY <1>2, InvSubmit, InvPoll, InvEnd, InvQuery DEF SdkSteps
<1> QED
  BY <1>1, <1>2, InvAddTxParam, InvAddTxParamFails, InvContractInvoke,
     InvContractQuery, InvResponseFree, InvCommit DEF Next

-----------------------------------------------------------------------------
(* The theorems *)

(* The state of a Chainmaker wallet stays well typed, and no response is   *)
(* kept beyond the synchronous invoke it belongs to.                       *)
THEOREM ChainmakerTypeCorrect == Spec => []TypeOK
<1>1. ChainmakerInv => TypeOK
  BY DEF ChainmakerInv
<1> QED
  BY <1>1, ChainmakerInit, ChainmakerNext, PTL DEF Spec

(* A synchronous invoke that tells success in its three codes has its      *)
(* transaction in the chain with success, for any number of rounds.        *)
THEOREM SuccessIsCommitted == Spec => []SyncTold
<1>1. ChainmakerInv => SyncTold
  BY DEF ChainmakerInv, ToldInv
<1> QED
  BY <1>1, ChainmakerInit, ChainmakerNext, PTL DEF Spec

(* No transaction reaches the node with the parameters of another call or  *)
(* of a question about a transaction.                                      *)
THEOREM ParametersAreTheCalls == Spec => []ArgsKept
<1>1. ChainmakerInv => ArgsKept
  BY DEF ChainmakerInv, ArgsInv
<1> QED
  BY <1>1, ChainmakerInit, ChainmakerNext, PTL DEF Spec

(* Responses and copied messages neither leak nor are freed twice, for any *)
(* number of rounds and any order of failures.                             *)
THEOREM HeapStaysBalanced == Spec => []HeapBalanced
<1>1. ChainmakerInv => HeapBalanced
  BY DEF ChainmakerInv, HeapInv
<1> QED
  BY <1>1, ChainmakerInit, ChainmakerNext, PTL DEF Spec
=============================================================================
