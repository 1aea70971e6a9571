----------------------------- MODULE IdTxProofs ------------------------------
(***************************************************************************)
(* Proofs about FISCO-BCOS and CITA calls, for any calls, limits and       *)
(* windows of the node with Limit <= Window, any number of sends and a     *)
(* node that loses, refuses, drops and mines at will.                      *)
(***************************************************************************)
EXTENDS IdTx, TLAPS

-----------------------------------------------------------------------------
(* The inductive invariant *)

(* Nonces that are out were drawn; one nonce stands for one limit and one  *)
(* call, and the node has it once, pending or mined.                       *)
NonceInv ==
    /\ tx.nonce \in 0..nonces
    /\ pc = "number" => tx.nonce = 0 /\ tx.call = {}
    /\ pc = "send" => tx.call # {}
    /\ tx.call # {} => tx.nonce # 0
    /\ \A t \in pool : t.nonce \in 1..nonces
    /\ \A m \in mined : m.nonce \in 1..nonces
    /\ \A t \in pool : t.nonce = tx.nonce => t.limit = tx.limit /\ t.call = tx.call
    /\ \A m \in mined : m.nonce = tx.nonce => m.limit = tx.limit /\ m.call = tx.call
    /\ \A t, u \in pool : t.nonce = u.nonce => t = u
    /\ \A t \in pool, m \in mined : t.nonce # m.nonce

(* A limit was read from a height that was not ahead of the chain, so that *)
(* it ends before the node forgets the nonce.                              *)
LimitInv ==
    /\ \A t \in pool : t.limit <= height + Limit[chain]
    /\ \A m \in mined : m.height <= height /\ m.limit < m.height + Limit[chain]

(* Of what was sent for one call, at most one transaction is still valid,  *)
(* and none once the call is executed.                                     *)
CallInv ==
    /\ \A t \in pool, m \in mined : t.call = m.call => t.limit <= height
    /\ \A t, u \in pool :
           t.call = u.call /\ t # u => t.limit <= height \/ u.limit <= height
    /\ \A t \in pool :
           t.call = tx.call /\ t.nonce # tx.nonce => t.limit <= height
    /\ \A m \in mined : m.call = tx.call => m.nonce = tx.nonce
    /\ \A t \in pool, c \in Calls :
           t.call = {c} => t.limit <= until[c] \/ t.limit <= height
    /\ \A c \in Calls : tx.call = {c} => until[c] = tx.limit

OnceInv == TypeOK /\ NonceInv /\ LimitInv /\ CallInv /\ ExecutedOnce

-----------------------------------------------------------------------------
(* The types *)

TxType == [sync : BOOLEAN, nonce : Nat, limit : Nat,
           call : {{}} \cup {{c} : c \in Calls}, hash : Nat]

LEMMA IdTypeInit == Init => TypeOK
BY IdAssumption DEF Init, TypeOK, Cleared, Results, Chains

LEMMA IdTypeFailed ==
    ASSUME TypeOK, Failed
    PROVE  /\ tx' \in TxType /\ tx'.limit = tx.limit /\ tx'.nonce = tx.nonce
           /\ tx'.call = tx.call
           /\ pc' = "idle" /\ left' = 0 /\ last' \in Results
<1>1. HashAtStart \in Nat /\ tx \in TxType
  BY DEF HashAtStart, TypeOK, TxType
<1> QED
  BY <1>1 DEF Failed, Return, TxType, Results

LEMMA IdTypeSent ==
    ASSUME TypeOK, NEW h \in Nat, Sent(h)
    PROVE  /\ tx' \in TxType /\ tx'.limit = tx.limit /\ tx'.nonce = tx.nonce
           /\ tx'.call = tx.call
           /\ pc' \in {"idle", "poll"} /\ left' \in 0..Polls
           /\ pc' = "poll" <=> left' > 0
           /\ last' \in Results
<1>1. tx \in TxType
  BY DEF TypeOK, TxType
<1>2. tx' \in TxType /\ tx'.limit = tx.limit /\ tx'.nonce = tx.nonce /\ tx'.call = tx.call
  BY <1>1 DEF Sent, TxType
<1> QED
  BY <1>2, IdAssumption DEF Sent, Return, Results, TypeOK

(* What a step of sending does to the tx, and what it adds to the pool.    *)
LEMMA SendCases ==
    ASSUME TypeOK, Send
    PROVE  /\ tx' \in TxType /\ tx'.limit = tx.limit /\ tx'.nonce = tx.nonce
           /\ tx'.call = tx.call
           /\ pc' \in {"idle", "poll"} /\ left' \in 0..Polls
           /\ pc' = "poll" <=> left' > 0
           /\ last' \in Results
           /\ sends' \in Nat
           /\ NodeAccepts \/ UNCHANGED pool
           /\ UNCHANGED <<chain, until, nonces, height, mined>>
<1>1. sends' \in Nat /\ UNCHANGED <<chain, until, nonces, height, mined>>
  BY DEF Send, TypeOK
<1>2. tx.hash \in Nat
  BY DEF TypeOK
<1>3. CASE NodeAccepts /\ Sent(sends')
  BY <1>1, <1>3, IdTypeSent
<1>4. CASE (NodeAccepts \/ UNCHANGED pool) /\ Failed
  BY <1>1, <1>4, IdTypeFailed, IdAssumption
<1>5. CASE NoMemory
  BY <1>1, <1>2, <1>5, IdTypeFailed, IdTypeSent, IdAssumption DEF NoMemory
<1> QED
  BY <1>3, <1>4, <1>5 DEF Send

LEMMA SignedType ==
    ASSUME TypeOK, tx.call # {} PROVE Signed \in Transaction
<1>1. tx.call \in {{c} : c \in Calls}
  BY DEF TypeOK
<1> QED
  BY <1>1 DEF Signed, Transaction, TypeOK

LEMMA IdTypeNext ==
    ASSUME TypeOK, pc = "send" => tx.call # {}, [Next]_vars PROVE TypeOK'
<1>1. tx \in TxType
  BY DEF TypeOK, TxType
<1>2. ASSUME NEW sync \in BOOLEAN, TxInit(sync) PROVE TypeOK'
  <2>1. tx' \in TxType /\ tx'.limit = 0
    BY <1>2, <1>1 DEF TxInit, Cleared, TxType
  <2>2. tx'.limit <= height + Limit[chain]
    BY <2>1, IdAssumption DEF TypeOK
  <2> QED
    BY <2>1, <2>2, <1>2, IdAssumption DEF TxInit, TypeOK, TxType, node, Transaction, Mined
<1>3. ASSUME NEW c \in Calls, Prepare(c) PROVE TypeOK'
  <2>1. tx' \in TxType /\ tx'.limit = tx.limit
    <3>1. {c} \in {{}} \cup {{d} : d \in Calls} /\ nonces + 1 \in Nat
      BY DEF TypeOK
    <3> QED
      BY <1>3, <1>1, <3>1 DEF Prepare, TxType
  <2>2. until' \in [Calls -> Nat]
    BY <1>3, <1>1 DEF Prepare, TypeOK, TxType
  <2> QED
    BY <2>1, <2>2, <1>3, IdAssumption
    DEF Prepare, TypeOK, TxType, node, Transaction, Mined, Results
<1>4. CASE TxSend
  BY <1>4 DEF TxSend, TypeOK, node, Transaction, Mined
<1>5. CASE GetBlockNumber
  <2>1. height + Limit[chain] \in Nat
    BY IdAssumption DEF TypeOK
  <2>2. tx' \in TxType /\ tx'.limit <= height + Limit[chain]
    <3>1. CASE tx' = [tx EXCEPT !.limit = height + Limit[chain]]
      BY <3>1, <2>1, <1>1 DEF TxType
    <3>2. CASE UNCHANGED tx
      BY <3>2, <1>1 DEF TypeOK
    <3> QED
      BY <3>1, <3>2, <1>5 DEF GetBlockNumber
  <2>3. pc' = "idle" /\ left' = 0 /\ last' \in Results
    BY <1>5 DEF GetBlockNumber, Return, Results
  <2> QED
    BY <2>2, <2>3, <1>5, IdAssumption DEF GetBlockNumber, TypeOK, TxType, node, Transaction, Mined
<1>6. CASE Send
  <2>1. pool' \subseteq Transaction
    <3>1. pool \subseteq Transaction
      BY DEF TypeOK
    <3>2. Signed \in Transaction
      BY <1>6, SignedType DEF Send
    <3> QED
      BY <3>1, <3>2, <1>6, SendCases DEF NodeAccepts
  <2>2. /\ mined' \subseteq Mined /\ chain' \in Chains /\ until' \in [Calls -> Nat]
        /\ nonces' \in Nat /\ height' \in Nat
    BY <1>6, SendCases DEF TypeOK, Mined
  <2>3. tx'.limit <= height' + Limit[chain']
    BY <1>6, SendCases DEF TypeOK
  <2> QED
    BY <2>1, <2>2, <2>3, <1>6, SendCases DEF TypeOK, TxType, Transaction, Mined
<1>7. CASE Poll
  <2>1. /\ pc' \in {"idle", "poll"} /\ left' \in 0..Polls
        /\ pc' = "poll" <=> left' > 0
        /\ last' \in Results
    BY <1>7, IdAssumption DEF Poll, NotYet, Return, Results, TypeOK
  <2> QED
    BY <2>1, <1>7 DEF Poll, TypeOK, node, Transaction, Mined
<1>8. CASE Mine
  <2>1. PICK B \in SUBSET {t \in pool : t.limit > height} :
           /\ mined' = mined \cup {[hash |-> t.hash, nonce |-> t.nonce,
                                    limit |-> t.limit, call |-> t.call,
                                    height |-> height + 1] : t \in B}
           /\ pool' = pool \ B
    BY <1>8 DEF Mine
  <2>2. mined' \subseteq Mined
    <3>1. ASSUME NEW t \in B
          PROVE  [hash |-> t.hash, nonce |-> t.nonce, limit |-> t.limit,
                  call |-> t.call, height |-> height + 1] \in Mined
      <4>1. t \in Transaction /\ height + 1 \in Nat
        BY DEF TypeOK
      <4> QED
        BY <4>1 DEF Transaction, Mined
    <3> QED
      BY <2>1, <3>1 DEF TypeOK
  <2>3. pool' \subseteq Transaction
    BY <2>1 DEF TypeOK
  <2>4. height' \in Nat /\ tx.limit <= height' + Limit[chain]
    BY <1>8, IdAssumption DEF Mine, TypeOK
  <2> QED
    BY <2>2, <2>3, <2>4, <1>8 DEF Mine, TypeOK, Transaction, Mined
<1>9. CASE Drop
  BY <1>9 DEF Drop, TypeOK, Transaction, Mined
<1>10. CASE UNCHANGED vars
  BY <1>10 DEF vars, TypeOK, Transaction, Mined
<1> QED
  BY <1>2, <1>3, <1>4, <1>5, <1>6, <1>7, <1>8, <1>9, <1>10 DEF Next, SdkSteps

-----------------------------------------------------------------------------
(* Every step keeps the invariant *)

LEMMA OnceInit == Init => OnceInv
<1> SUFFICES ASSUME Init PROVE OnceInv
  OBVIOUS
<1>1. TypeOK
  BY IdTypeInit
<1>2. NonceInv /\ LimitInv /\ CallInv /\ ExecutedOnce
  BY DEF Init, Cleared, NonceInv, LimitInv, CallInv, ExecutedOnce
<1> QED
  BY <1>1, <1>2 DEF OnceInv

(* Steps that leave the fields of the tx, the notes of the application and *)
(* the chain alone, and add nothing to the pool.                           *)
LEMMA OnceQuiet ==
    ASSUME OnceInv, TypeOK',
           UNCHANGED <<chain, until, nonces, height, mined>>,
           tx'.nonce = tx.nonce, tx'.limit = tx.limit, tx'.call = tx.call,
           pool' \subseteq pool,
           pc' = "number" => pc = "number",
           pc' = "send" => tx.call # {}
    PROVE  OnceInv'
<1>1. NonceInv'
  BY DEF OnceInv, NonceInv
<1>2. LimitInv'
  BY DEF OnceInv, LimitInv
<1>3. CallInv'
  BY DEF OnceInv, CallInv
<1>4. ExecutedOnce'
  BY DEF OnceInv, ExecutedOnce
<1> QED
  BY <1>1, <1>2, <1>3, <1>4 DEF OnceInv

LEMMA OnceTxInit ==
    ASSUME OnceInv, TypeOK', NEW sync \in BOOLEAN, TxInit(sync) PROVE OnceInv'
<1>1. /\ UNCHANGED <<chain, until, nonces, node>>
      /\ tx'.nonce = 0 /\ tx'.limit = 0 /\ tx'.call = {} /\ pc' = "number"
  BY DEF TxInit, Cleared
<1>2. NonceInv'
  BY <1>1 DEF OnceInv, NonceInv, TypeOK, node
<1>3. LimitInv' /\ ExecutedOnce'
  BY <1>1 DEF OnceInv, LimitInv, ExecutedOnce, node
<1>4. CallInv'
  <2>1. /\ \A t \in pool : t.call # {}
        /\ \A m \in mined : m.call # {}
    <3>1. \A c \in Calls : {c} # {}
      OBVIOUS
    <3> QED
      BY <3>1 DEF OnceInv, TypeOK, Transaction, Mined
  <2> QED
    BY <1>1, <2>1 DEF OnceInv, CallInv, node
<1> QED
  BY <1>2, <1>3, <1>4 DEF OnceInv

LEMMA OncePrepare ==
    ASSUME OnceInv, TypeOK', NEW c \in Calls, Prepare(c) PROVE OnceInv'
<1>1. /\ UNCHANGED <<chain, pc, node>> /\ pc = "idle"
      /\ nonces' = nonces + 1
      /\ tx'.nonce = nonces + 1 /\ tx'.limit = tx.limit /\ tx'.call = {c}
      /\ until[c] <= height /\ until'[c] = tx.limit
      /\ \A d \in Calls : d # c => until'[d] = until[d]
      /\ \A m \in mined : m.call # {c}
  BY DEF Prepare, OnceInv, TypeOK, Executed
<1>2. nonces \in Nat /\ height \in Nat /\ pool \subseteq Transaction
  BY DEF OnceInv, TypeOK
<1>3. NonceInv'
  BY <1>1, <1>2 DEF OnceInv, NonceInv, node, Transaction
<1>4. LimitInv' /\ ExecutedOnce'
  BY <1>1 DEF OnceInv, LimitInv, ExecutedOnce, node
<1>5. \A t \in pool : t.call = {c} => t.limit <= height
  BY <1>1, <1>2, until[c] \in Nat DEF OnceInv, CallInv, TypeOK, Transaction
<1>6. CallInv'
  <2>1. \A t \in pool, d \in Calls :
           t.call = {d} => t.limit <= until'[d] \/ t.limit <= height
    BY <1>1, <1>5 DEF OnceInv, CallInv
  <2>2. \A d \in Calls : tx'.call = {d} => until'[d] = tx'.limit
    <3>1. \A d \in Calls : {c} = {d} => c = d
      OBVIOUS
    <3> QED
      BY <1>1, <3>1
  <2> QED
    BY <1>1, <1>5, <2>1, <2>2 DEF OnceInv, CallInv, node
<1> QED
  BY <1>3, <1>4, <1>6 DEF OnceInv

LEMMA OnceGetBlockNumber ==
    ASSUME OnceInv, TypeOK', GetBlockNumber PROVE OnceInv'
<1>1. /\ UNCHANGED <<chain, until, nonces, node>> /\ pc' = "idle"
      /\ tx'.nonce = tx.nonce /\ tx'.call = tx.call
      /\ tx.nonce = 0 /\ tx.call = {}
  BY DEF GetBlockNumber, Return, OnceInv, NonceInv, TypeOK
<1>2. NonceInv'
  BY <1>1 DEF OnceInv, NonceInv, TypeOK, node
<1>3. LimitInv' /\ ExecutedOnce'
  BY <1>1 DEF OnceInv, LimitInv, ExecutedOnce, node
<1>4. CallInv'
  <2>1. \A c \in Calls : {c} # {}
    OBVIOUS
  <2> QED
    BY <1>1, <2>1 DEF OnceInv, CallInv, node
<1> QED
  BY <1>2, <1>3, <1>4 DEF OnceInv

(* A transaction the node takes: nothing with its nonce is pending, and    *)
(* nothing with its call mined, since the limit is over by the time the    *)
(* node forgets the nonce.                                                 *)
LEMMA AcceptedIsNew ==
    ASSUME OnceInv, NodeAccepts
    PROVE  /\ \A t \in pool : t.nonce # tx.nonce
           /\ \A m \in mined : m.nonce # tx.nonce /\ m.call # tx.call
<1>1. \A t \in pool : t.nonce # tx.nonce
  BY DEF NodeAccepts, Used
<1>2. ASSUME NEW m \in mined, m.nonce = tx.nonce PROVE FALSE
  <2>1. /\ height \in Nat /\ m.height \in Nat /\ m.limit \in Nat
        /\ Limit[chain] \in Nat /\ Window[chain] \in Nat
        /\ Limit[chain] <= Window[chain]
    BY IdAssumption DEF OnceInv, TypeOK, Mined
  <2>2. m.limit = tx.limit /\ m.limit < m.height + Limit[chain]
    BY <1>2 DEF OnceInv, NonceInv, LimitInv
  <2>3. height < tx.limit /\ ~(m.height > height - Window[chain])
    BY <1>2 DEF NodeAccepts, Used, Fits
  <2> QED
    BY <2>1, <2>2, <2>3
<1> QED
  BY <1>1, <1>2 DEF OnceInv, CallInv

LEMMA OnceSend == ASSUME OnceInv, TypeOK', Send PROVE OnceInv'
<1>1. /\ tx'.limit = tx.limit /\ tx'.nonce = tx.nonce /\ tx'.call = tx.call
      /\ pc' \in {"idle", "poll"}
      /\ NodeAccepts \/ UNCHANGED pool
      /\ UNCHANGED <<chain, until, nonces, height, mined>>
      /\ tx.call # {}
  BY SendCases DEF OnceInv, NonceInv, Send
<1>2. CASE UNCHANGED pool
  BY <1>1, <1>2, OnceQuiet
<1>3. CASE NodeAccepts
  <2> DEFINE s == Signed
  <2>1. /\ pool' = pool \cup {s}
        /\ s.nonce = tx.nonce /\ s.limit = tx.limit /\ s.call = tx.call
    BY <1>3 DEF NodeAccepts, Signed
  <2>2. /\ \A t \in pool : t.nonce # tx.nonce
        /\ \A m \in mined : m.nonce # tx.nonce /\ m.call # tx.call
    BY <1>3, AcceptedIsNew
  <2>3. /\ tx.nonce \in 1..nonces
        /\ tx.limit <= height + Limit[chain]
    BY <1>1 DEF OnceInv, NonceInv, TypeOK
  <2> HIDE DEF s
  <2>4. NonceInv'
    BY <1>1, <2>1, <2>2, <2>3 DEF OnceInv, NonceInv
  <2>5. LimitInv'
    BY <1>1, <2>1, <2>3 DEF OnceInv, LimitInv
  <2>6. CallInv'
    <3>1. \A c \in Calls : s.call = {c} => s.limit <= until[c]
      BY <2>1 DEF OnceInv, CallInv, TypeOK
    <3> QED
      BY <1>1, <2>1, <2>2, <3>1 DEF OnceInv, CallInv
  <2>7. ExecutedOnce'
    BY <1>1 DEF OnceInv, ExecutedOnce
  <2> QED
    BY <2>4, <2>5, <2>6, <2>7 DEF OnceInv
<1> QED
  BY <1>1, <1>2, <1>3

(* What a block takes was valid: no other valid transaction has its call.  *)
LEMMA OnceMine == ASSUME OnceInv, TypeOK', Mine PROVE OnceInv'
<1> DEFINE Block(t) == [hash |-> t.hash, nonce |-> t.nonce, limit |-> t.limit,
                        call |-> t.call, height |-> height + 1]
<1>1. PICK B \in SUBSET {t \in pool : t.limit > height} :
         /\ mined' = mined \cup {Block(t) : t \in B}
         /\ pool' = pool \ B
  BY DEF Mine
<1>2. /\ UNCHANGED <<chain, tx, pc, until, nonces>>
      /\ height' = height + 1
      /\ height \in Nat /\ Limit[chain] \in Nat /\ pool \subseteq Transaction
      /\ mined \subseteq Mined /\ nonces \in Nat
  BY IdAssumption DEF Mine, OnceInv, TypeOK
<1>3. /\ \A t \in B : t \in pool /\ t.limit > height /\ ~(t.limit <= height)
      /\ \A t \in pool : t.limit \in Nat
      /\ \A t \in pool : t.limit <= height => t.limit <= height + 1
  BY <1>2 DEF Transaction
<1>4. ASSUME NEW m \in mined'
      PROVE  m \in mined \/ \E t \in B : /\ m = Block(t)
                                        /\ m.nonce = t.nonce /\ m.call = t.call
                                        /\ m.limit = t.limit
                                        /\ m.height = height + 1
  BY <1>1
<1> HIDE DEF Block
<1>5. NonceInv'
  <2>1. \A m \in mined' : m.nonce \in 1..nonces
    BY <1>3, <1>4 DEF OnceInv, NonceInv
  <2>2. \A m \in mined' : m.nonce = tx.nonce => m.limit = tx.limit /\ m.call = tx.call
    BY <1>3, <1>4 DEF OnceInv, NonceInv
  <2>3. \A t \in pool', m \in mined' : t.nonce # m.nonce
    BY <1>1, <1>3, <1>4 DEF OnceInv, NonceInv
  <2> QED
    BY <1>1, <1>2, <2>1, <2>2, <2>3 DEF OnceInv, NonceInv
<1>6. LimitInv'
  <2>1. \A t \in pool' : t.limit <= height' + Limit[chain]
    BY <1>1, <1>2, <1>3 DEF OnceInv, LimitInv
  <2>2. ASSUME NEW m \in mined'
        PROVE  m.height <= height' /\ m.limit < m.height + Limit[chain]
    <3>1. CASE m \in mined
      BY <3>1, <1>2 DEF OnceInv, LimitInv, Mined
    <3>2. CASE m \notin mined
      BY <3>2, <1>2, <1>3, <1>4 DEF OnceInv, LimitInv
    <3> QED
      BY <3>1, <3>2
  <2> QED
    BY <1>2, <2>1, <2>2 DEF LimitInv
<1>7. CallInv'
  <2>1. \A t \in pool', m \in mined' : t.call = m.call => t.limit <= height'
    BY <1>1, <1>2, <1>3, <1>4 DEF OnceInv, CallInv
  <2>2. \A m \in mined' : m.call = tx.call => m.nonce = tx.nonce
    BY <1>3, <1>4 DEF OnceInv, CallInv
  <2>3. /\ \A t, u \in pool' :
               t.call = u.call /\ t # u => t.limit <= height' \/ u.limit <= height'
        /\ \A t \in pool' :
               t.call = tx.call /\ t.nonce # tx.nonce => t.limit <= height'
        /\ \A t \in pool', c \in Calls :
               t.call = {c} => t.limit <= until[c] \/ t.limit <= height'
    BY <1>1, <1>2, <1>3 DEF OnceInv, CallInv
  <2> QED
    BY <1>2, <2>1, <2>2, <2>3 DEF OnceInv, CallInv
<1>8. ExecutedOnce'
  <2>1. ASSUME NEW m \in mined', NEW n \in mined', m.call = n.call, m \notin mined
        PROVE  m = n
    <3>1. PICK t \in B : m = Block(t) /\ m.call = t.call
      BY <2>1, <1>4
    <3>2. CASE n \in mined
      BY <2>1, <3>1, <3>2, <1>3 DEF OnceInv, CallInv
    <3>3. CASE n \notin mined
      <4>1. PICK u \in B : n = Block(u) /\ n.call = u.call
        BY <3>3, <1>4
      <4>2. t = u
        BY <2>1, <3>1, <4>1, <1>3 DEF OnceInv, CallInv
      <4> QED
        BY <3>1, <4>1, <4>2
    <3> QED
      BY <3>2, <3>3
  <2> QED
    BY <2>1 DEF OnceInv, ExecutedOnce
<1> QED
  BY <1>5, <1>6, <1>7, <1>8 DEF OnceInv

LEMMA OnceNext == OnceInv /\ [Next]_vars => OnceInv'
<1> SUFFICES ASSUME OnceInv, [Next]_vars PROVE OnceInv'
  OBVIOUS
<1>1. TypeOK'
  BY IdTypeNext DEF OnceInv, NonceInv
<1>2. ASSUME NEW sync \in BOOLEAN, TxInit(sync) PROVE OnceInv'
  BY <1>1, <1>2, OnceTxInit
<1>3. ASSUME NEW c \in Calls, Prepare(c) PROVE OnceInv'
  BY <1>1, <1>3, OncePrepare
<1>4. CASE TxSend
  BY <1>1, <1>4, OnceQuiet DEF TxSend, node
<1>5. CASE GetBlockNumber
  BY <1>1, <1>5, OnceGetBlockNumber
<1>6. CASE Send
  BY <1>1, <1>6, OnceSend
<1>7. CASE Poll
  <2>1. UNCHANGED <<chain, until, nonces, node, tx>> /\ pc' \in {"idle", "poll"}
    BY <1>7 DEF Poll, NotYet, Return
  <2> QED
    BY <1>1, <2>1, OnceQuiet DEF node
<1>8. CASE Mine
  BY <1>1, <1>8, OnceMine
<1>9. CASE Drop
  BY <1>1, <1>9, OnceQuiet DEF Drop, OnceInv, NonceInv
<1>10. CASE UNCHANGED vars
  BY <1>1, <1>10, OnceQuiet DEF vars, OnceInv, NonceInv
<1> QED
  BY <1>2, <1>3, <1>4, <1>5, <1>6, <1>7, <1>8, <1>9, <1>10 DEF Next, SdkSteps

-----------------------------------------------------------------------------
(* A call that waited knows the transaction it sent                        *)
(*                                                                         *)
(* What is asked for in the wait is the hash of what was just signed, and  *)
(* nothing of that hash is or will be in the chain but the transaction of  *)
(* this call.  CITA without memory waits for the hash of an earlier one.   *)

SendsOrFails == chain = "fiscobcos" \/ ~MemoryEnds

SyncInv ==
    /\ \A t \in pool : t.hash <= sends
    /\ \A m \in mined : m.hash <= sends
    /\ pc = "number" => tx.call = {}
    /\ pc = "poll" => /\ \A t \in pool : t.hash = tx.hash => t.call = tx.call
                     /\ \A m \in mined : m.hash = tx.hash => m.call = tx.call
    /\ SyncMined

(* A step that leaves the wallet alone and moves transactions from the     *)
(* pool to the chain or drops them.                                        *)
LEMMA SyncQuiet ==
    ASSUME SyncInv, UNCHANGED <<tx, pc, sends, last>>, pool' \subseteq pool,
           mined \subseteq mined',
           \A m \in mined' : m \in mined \/ \E t \in pool : m.hash = t.hash /\ m.call = t.call
    PROVE  SyncInv'
BY DEF SyncInv, SyncMined, Receipt

LEMMA SyncSend ==
    ASSUME TypeOK, SendsOrFails, SyncInv, Send
    PROVE  SyncInv'
<1>1. sends \in Nat /\ sends' = sends + 1 /\ UNCHANGED mined /\ pc = "send"
  BY DEF Send, TypeOK
<1>2. (\A t \in pool : t.hash \in Nat) /\ (\A m \in mined : m.hash \in Nat)
  BY DEF TypeOK, Transaction, Mined
<1>3. CASE NodeAccepts /\ Sent(sends')
  <2>1. pool' = pool \cup {Signed} /\ Signed.hash = sends + 1 /\ Signed.call = tx.call
    BY <1>3 DEF NodeAccepts, Signed
  <2>2. tx'.hash = sends + 1 /\ tx'.call = tx.call /\ tx'.sync = tx.sync
    BY <1>1, <1>3 DEF Sent, TypeOK
  <2>3. \/ pc' = "poll" /\ UNCHANGED last
        \/ pc' = "idle" /\ ~tx.sync
    BY <1>3 DEF Sent, Return
  <2> HIDE DEF Sent, NodeAccepts
  <2>4. (\A t \in pool' : t.hash <= sends') /\ (\A m \in mined' : m.hash <= sends')
    BY <1>1, <1>2, <2>1 DEF SyncInv
  <2>5. /\ \A t \in pool' : t.hash = tx'.hash => t.call = tx'.call
        /\ \A m \in mined' : m.hash = tx'.hash => m.call = tx'.call
    BY <1>1, <1>2, <2>1, <2>2 DEF SyncInv
  <2> QED
    BY <2>2, <2>3, <2>4, <2>5 DEF SyncInv, SyncMined
<1>4. CASE (NodeAccepts \/ UNCHANGED pool) /\ Failed
  <2>1. pc' = "idle" /\ last' = "error"
    BY <1>4 DEF Failed, Return
  <2>2. pool' \subseteq pool \cup {Signed} /\ Signed.hash = sends + 1
    BY <1>4 DEF NodeAccepts, Signed
  <2>3. (\A t \in pool' : t.hash <= sends') /\ (\A m \in mined' : m.hash <= sends')
    BY <1>1, <1>2, <2>2 DEF SyncInv
  <2> QED
    BY <2>1, <2>3 DEF SyncInv, SyncMined
<1>5. CASE NoMemory
  <2>1. pc' = "idle" /\ last' = "error" /\ UNCHANGED pool
    BY <1>5 DEF NoMemory, SendsOrFails, Failed, Return
  <2>2. (\A t \in pool' : t.hash <= sends') /\ (\A m \in mined' : m.hash <= sends')
    BY <1>1, <1>2, <2>1 DEF SyncInv
  <2> QED
    BY <2>1, <2>2 DEF SyncInv, SyncMined
<1> QED
  BY <1>3, <1>4, <1>5 DEF Send

LEMMA SyncNext ==
    TypeOK /\ (SendsOrFails => SyncInv) /\ [Next]_vars => (SendsOrFails => SyncInv)'
<1> SUFFICES ASSUME TypeOK, SendsOrFails => SyncInv, [Next]_vars, SendsOrFails'
             PROVE  SyncInv'
  OBVIOUS
<1>1. UNCHANGED chain
  BY DEF Next, TxInit, Prepare, TxSend, SdkSteps, GetBlockNumber, Send, Poll,
         Mine, Drop, vars
<1>2. SendsOrFails /\ SyncInv
  BY <1>1 DEF SendsOrFails
<1>3. ASSUME NEW sync \in BOOLEAN, TxInit(sync) PROVE SyncInv'
  BY <1>2, <1>3 DEF TxInit, Cleared, node, SyncInv, SyncMined
<1>4. ASSUME NEW c \in Calls, Prepare(c) PROVE SyncInv'
  BY <1>2, <1>4 DEF Prepare, node, SyncInv, SyncMined
<1>5. CASE TxSend
  BY <1>2, <1>5 DEF TxSend, node, SyncInv, SyncMined
<1>6. CASE GetBlockNumber
  <2>1. tx'.call = tx.call /\ pc = "number" /\ pc' = "idle"
    BY <1>6 DEF GetBlockNumber, Return, TypeOK
  <2> QED
    BY <1>2, <1>6, <2>1 DEF GetBlockNumber, node, SyncInv, SyncMined
<1>7. CASE Send
  BY <1>2, <1>7, SyncSend
<1>8. CASE Poll
  <2>1. UNCHANGED <<tx, sends, pool, mined>> /\ pc = "poll"
    BY <1>8 DEF Poll, node
  <2>2. \/ pc' = "poll" /\ UNCHANGED last
        \/ pc' = "idle" /\ last' # "success"
        \/ pc' = "idle" /\ Receipt(tx.hash) # {}
    BY <1>8 DEF Poll, NotYet, Return
  <2> QED
    BY <1>2, <2>1, <2>2 DEF SyncInv, SyncMined, Receipt
<1>9. CASE Mine
  <2>1. /\ UNCHANGED <<tx, pc, sends, last>> /\ pool' \subseteq pool
        /\ mined \subseteq mined'
        /\ \A m \in mined' : m \in mined \/ \E t \in pool : m.hash = t.hash /\ m.call = t.call
    BY <1>9 DEF Mine
  <2> QED
    BY <1>2, <2>1, SyncQuiet
<1>10. CASE Drop
  <2>1. UNCHANGED <<tx, pc, sends, last, mined>> /\ pool' \subseteq pool
    BY <1>10 DEF Drop
  <2> QED
    BY <1>2, <2>1, SyncQuiet
<1>11. CASE UNCHANGED vars
  BY <1>2, <1>11, SyncQuiet DEF vars
<1> QED
  BY <1>3, <1>4, <1>5, <1>6, <1>7, <1>8, <1>9, <1>10, <1>11 DEF Next, SdkSteps

-----------------------------------------------------------------------------
(* The theorems *)

(* The state of a wallet of FISCO-BCOS or CITA stays well typed, and no    *)
(* transaction is prepared with a limit further ahead than BoatXTxInit     *)
(* gives it.                                                               *)
THEOREM IdTypeCorrect == Spec => []TypeOK
<1>1. OnceInv => TypeOK
  BY DEF OnceInv
<1> QED
  BY <1>1, OnceInit, OnceNext, PTL DEF Spec

(* No contract call is executed twice, however often BoatXTxSend repeats   *)
(* it and whatever is lost on the way, for every limit that does not go    *)
(* beyond the window in which the node remembers nonces.                   *)
THEOREM NeverExecutedTwice == Spec => []ExecutedOnce
<1>1. OnceInv => ExecutedOnce
  BY DEF OnceInv
<1> QED
  BY <1>1, OnceInit, OnceNext, PTL DEF Spec

(* When a call that waits succeeds, the contract call it was for is in the *)
(* chain: always with FISCO-BCOS, and with CITA as long as there is memory *)
(* for the packed transaction (without it CITA succeeds and sends nothing).*)
THEOREM SuccessIsExecuted ==
    Spec => [](chain = "fiscobcos" \/ ~MemoryEnds => SyncMined)
<1>1. Init => (SendsOrFails => SyncInv)
  BY DEF Init, Cleared, SyncInv, SyncMined
<1>2. OnceInv /\ (SendsOrFails => SyncInv) /\ [Next]_vars => (SendsOrFails => SyncInv)'
  BY SyncNext DEF OnceInv
<1>3. (SendsOrFails => SyncInv) => (chain = "fiscobcos" \/ ~MemoryEnds => SyncMined)
  BY DEF SendsOrFails, SyncInv
<1> QED
  BY <1>1, <1>2, <1>3, OnceInit, OnceNext, PTL DEF Spec
=============================================================================
