---------------------------- MODULE EthTxProofs ----------------------------
(***************************************************************************)
(* Proofs about Ethereum payments, for any payments, any number of polls   *)
(* and of sends, and a node that loses, refuses, drops and mines at will.  *)
(***************************************************************************)
EXTENDS EthTx, TLAPS

-----------------------------------------------------------------------------
(* The inductive invariant *)

(* The tx is the one of the payment the application asked for last.        *)
Sent == asked # <<>> /\ tx.payment = {Last}

(* A payment is asked for once, and only what was asked for is sent.       *)
AskedInv ==
    /\ \A i, j \in DOMAIN asked : asked[i] = asked[j] => i = j
    /\ tx.payment # {} => \E i \in DOMAIN asked : tx.payment = {asked[i]}
    /\ \A t \in pool : \E i \in DOMAIN asked : t.payment = {asked[i]}
    /\ \A k \in DOMAIN mined : \E i \in DOMAIN asked : mined[k].payment = {asked[i]}
    /\ asked = <<>> => pc = "idle" /\ last = "none"
    /\ pc = "count" => ~Sent
    /\ pc \in {"send", "poll"} => Sent

(* A payment keeps its nonce, the node has one copy of it at most, and     *)
(* none once it is mined.                                                  *)
NonceInv ==
    /\ \A t \in pool : t.nonce >= Len(mined)
    /\ \A t, u \in pool : t.payment = u.payment => t = u
    /\ \A t \in pool, k \in DOMAIN mined : t.payment # mined[k].payment
    /\ Sent =>
        /\ \A t \in pool : t.payment = tx.payment => t.nonce = tx.nonce
        /\ \A k \in DOMAIN mined : mined[k].payment = tx.payment => k = tx.nonce + 1
    /\ asked # <<>> /\ ~Sent =>
        /\ \A t \in pool : t.payment # {Last}
        /\ \A k \in DOMAIN mined : mined[k].payment # {Last}

PaidInv == TypeOK /\ AskedInv /\ NonceInv /\ PaidOnce

-----------------------------------------------------------------------------
(* Every step keeps it *)

LEMMA PaidInit == Init => PaidInv
BY EthAssumption
DEF Init, PaidInv, TypeOK, AskedInv, NonceInv, PaidOnce, Sent, NoTx, Results,
    Mined, Transaction

LEMMA PaidTransfer ==
    ASSUME PaidInv, NEW p \in Payments, Transfer(p) PROVE PaidInv'
<1> USE DEF PaidInv
<1>1. /\ asked' \in Seq(Payments)
      /\ asked' # <<>>
      /\ Len(asked') = Len(asked) + 1
      /\ \A i \in DOMAIN asked : i \in DOMAIN asked' /\ asked'[i] = asked[i]
      /\ \A i \in DOMAIN asked' : i \in DOMAIN asked \/ i = Len(asked) + 1
      /\ asked'[Len(asked')] = p
  BY DEF Transfer, TypeOK
<1>2. UNCHANGED <<tx, pool, mined, last, left, sends>> /\ pc' = "count"
  BY DEF Transfer, node
<1>3. TypeOK'
  BY <1>1, <1>2 DEF TypeOK, Transfer, Transaction, Mined
<1>4. /\ tx.payment # {p}
      /\ \A t \in pool : t.payment # {p}
      /\ \A k \in DOMAIN mined : mined[k].payment # {p}
  <2>1. \A i \in DOMAIN asked : {asked[i]} # {p}
    BY DEF Transfer
  <2>2. {} # {p}
    OBVIOUS
  <2> QED
    BY <2>1, <2>2, Zenon DEF AskedInv
<1>5. ~Sent' /\ Last' = p
  BY <1>1, <1>2, <1>4 DEF Sent, Last
<1>6. AskedInv'
  <2>1. \A i, j \in DOMAIN asked' : asked'[i] = asked'[j] => i = j
    BY <1>1 DEF AskedInv, Transfer
  <2> QED
    BY <2>1, <1>1, <1>2, <1>5 DEF AskedInv
<1>7. NonceInv'
  BY <1>1, <1>2, <1>4, <1>5 DEF NonceInv
<1>8. PaidOnce'
  BY <1>2 DEF PaidOnce
<1> QED
  BY <1>3, <1>6, <1>7, <1>8

(* Steps that leave tx, the requests and the node alone.                   *)
LEMMA PaidQuiet ==
    ASSUME PaidInv, TypeOK', UNCHANGED <<asked, pool, mined, tx>>,
           asked = <<>> => pc' = "idle" /\ last' = "none",
           pc' = "count" => ~Sent,
           pc' \in {"send", "poll"} => Sent
    PROVE  PaidInv' /\ (Sent' <=> Sent)
<1>1. Last' = Last /\ (Sent' <=> Sent)
  BY DEF Last, Sent
<1>2. AskedInv'
  BY <1>1 DEF PaidInv, AskedInv
<1>3. NonceInv'
  BY <1>1 DEF PaidInv, NonceInv
<1>4. PaidOnce'
  BY DEF PaidInv, PaidOnce
<1> QED
  BY <1>1, <1>2, <1>3, <1>4 DEF PaidInv

LEMMA PaidSendAgain == PaidInv /\ SendAgain => PaidInv'
<1> SUFFICES ASSUME PaidInv, SendAgain PROVE PaidInv'
  OBVIOUS
<1>1. UNCHANGED <<asked, pool, mined, tx, left, sends, last>> /\ pc' = "send"
  BY DEF SendAgain, node
<1>2. left = 0 /\ TypeOK'
  BY <1>1 DEF SendAgain, PaidInv, TypeOK, Transaction, Mined
<1>3. Sent
  BY DEF SendAgain, Unsent, Sent, PaidInv, AskedInv
<1> QED
  BY <1>1, <1>2, <1>3, PaidQuiet DEF Sent

LEMMA PaidGetCount == PaidInv /\ GetCount => PaidInv'
<1> SUFFICES ASSUME PaidInv, GetCount PROVE PaidInv'
  OBVIOUS
<1>1. /\ asked # <<>> /\ ~Sent /\ Len(asked) \in DOMAIN asked /\ Last \in Payments
      /\ UNCHANGED <<asked, pool, mined, sends>>
      /\ Last' = Last
  BY DEF GetCount, PaidInv, AskedInv, TypeOK, node, Last
<1>2. CASE UNCHANGED tx /\ Return("error")
  <2>1. TypeOK' /\ pc' = "idle"
    BY <1>1, <1>2, EthAssumption DEF Return, PaidInv, TypeOK, Results
  <2> QED
    BY <1>1, <1>2, <2>1, PaidQuiet DEF Return
<1>3. CASE /\ tx' = [tx EXCEPT !.nonce = Len(mined), !.payment = {Last}]
           /\ pc' = "send" /\ UNCHANGED <<left, last>>
  <2>1. tx'.nonce = Len(mined) /\ tx'.payment = {Last}
    BY <1>3 DEF PaidInv, TypeOK
  <2>2. TypeOK'
    <3>1. tx' \in [nonce : Nat, payment : {{}} \cup {{p} : p \in Payments}, hash : Nat]
      <4>1. Len(mined) \in Nat /\ {Last} \in {{}} \cup {{p} : p \in Payments}
        BY <1>1 DEF PaidInv, TypeOK
      <4> QED
        BY <1>3, <4>1 DEF PaidInv, TypeOK
    <3>2. pc = "count" /\ pc' # "poll"
      BY <1>3 DEF GetCount
    <3> QED
      BY <1>1, <1>3, <3>1, <3>2 DEF PaidInv, TypeOK
  <2>3. Sent'
    BY <1>1, <2>1 DEF Sent
  <2>4. AskedInv'
    BY <1>1, <1>3, <2>1, <2>3 DEF AskedInv, PaidInv, Last
  <2>5. NonceInv'
    BY <1>1, <2>1, <2>3 DEF NonceInv, PaidInv
  <2> QED
    BY <1>1, <2>2, <2>4, <2>5 DEF PaidInv, PaidOnce
<1> QED
  BY <1>2, <1>3 DEF GetCount

LEMMA PaidPoll == PaidInv /\ Poll => PaidInv' /\ Sent'
<1> SUFFICES ASSUME PaidInv, Poll PROVE PaidInv' /\ Sent'
  OBVIOUS
<1>1. UNCHANGED <<tx, asked, sends, pool, mined>> /\ Sent
  BY DEF Poll, node, PaidInv, AskedInv
<1>2. pc' \in {"idle", "poll"} /\ TypeOK'
  BY <1>1, EthAssumption
  DEF Poll, NotYet, Return, PaidInv, TypeOK, Results, Transaction, Mined
<1> QED
  BY <1>1, <1>2, PaidQuiet DEF Sent

(* The node takes what was sent, or never sees it.                         *)
LEMMA PoolAfterSend ==
    ASSUME PaidInv, Send
    PROVE  /\ UNCHANGED <<asked, mined>>
           /\ sends' = sends + 1 /\ sends \in Nat
           /\ tx'.nonce = tx.nonce /\ tx'.payment = tx.payment
           /\ Sent /\ Sent'
           /\ Signed.hash = sends + 1 /\ Signed.nonce = tx.nonce
           /\ Signed.payment = tx.payment
           /\ \/ NodeAccepts /\ \A t \in pool' : t = Signed \/ (t \in pool /\ t.nonce # tx.nonce)
              \/ pool' = pool
<1>1. Sent /\ UNCHANGED <<asked, mined>>
  BY DEF Send, PaidInv, AskedInv
<1>2. tx'.nonce = tx.nonce /\ tx'.payment = tx.payment
  BY DEF Send, SendFailed, PaidInv, TypeOK
<1>3. Sent'
  BY <1>1, <1>2 DEF Sent, Last
<1>4. sends' = sends + 1 /\ sends \in Nat
  BY EthAssumption DEF Send, PaidInv, TypeOK
<1>5. NodeAccepts \/ pool' = pool
  BY DEF Send
<1> QED
  BY <1>1, <1>2, <1>3, <1>4, <1>5 DEF NodeAccepts, Signed

LEMMA PaidSend == PaidInv /\ Send => PaidInv'
<1> SUFFICES ASSUME PaidInv, Send PROVE PaidInv'
  OBVIOUS
<1>1. /\ UNCHANGED <<asked, mined>>
      /\ tx'.nonce = tx.nonce /\ tx'.payment = tx.payment
      /\ Sent /\ Sent'
      /\ Signed.nonce = tx.nonce /\ Signed.payment = tx.payment
      /\ \/ NodeAccepts /\ \A t \in pool' : t = Signed \/ (t \in pool /\ t.nonce # tx.nonce)
         \/ pool' = pool
  BY PoolAfterSend
<1>2. TypeOK'
  <2>1. Len(asked) \in DOMAIN asked /\ tx.payment \in {{p} : p \in Payments}
    BY <1>1 DEF PaidInv, TypeOK, Sent, Last
  <2>2. Signed \in Transaction /\ sends' \in 1..MaxSends
    BY <2>1, EthAssumption DEF Signed, Transaction, Send, PaidInv, TypeOK
  <2>3. pool' \subseteq Transaction /\ \A t, u \in pool' : t.nonce = u.nonce => t = u
    BY <1>1, <2>2 DEF PaidInv, TypeOK
  <2>4. tx' \in [nonce : Nat, payment : {{}} \cup {{p} : p \in Payments}, hash : Nat]
    BY <2>2 DEF Send, SendFailed, PaidInv, TypeOK
  <2>5. /\ pc' \in {"idle", "poll"} /\ left' \in 0..Polls
        /\ pc' = "poll" <=> left' > 0 
        /\ last' \in Results
    BY EthAssumption DEF Send, SendFailed, Return, PaidInv, TypeOK, Results
  <2> QED
    BY <1>1, <2>2, <2>3, <2>4, <2>5 DEF PaidInv, TypeOK
<1>3. AskedInv'
  <2>1. \A t \in pool' : \E i \in DOMAIN asked : t.payment = {asked[i]}
    BY <1>1 DEF PaidInv, TypeOK, AskedInv, Sent, Last
  <2>2. pc' \in {"idle", "poll"}
    BY DEF Send, SendFailed, Return
  <2> QED
    BY <1>1, <2>1, <2>2 DEF PaidInv, AskedInv, Sent
<1>4. NonceInv'
  <2>1. \A t \in pool' : t.nonce >= Len(mined)
    BY <1>1 DEF PaidInv, NonceInv, NodeAccepts
  <2>2. \A t, u \in pool' : t.payment = u.payment => t = u
    BY <1>1 DEF PaidInv, NonceInv
  <2>3. \A t \in pool', k \in DOMAIN mined : t.payment # mined[k].payment
    <3>1. NodeAccepts => \A k \in DOMAIN mined : mined[k].payment # tx.payment
      BY <1>1 DEF PaidInv, NonceInv, NodeAccepts, TypeOK
    <3> QED
      BY <1>1, <3>1 DEF PaidInv, NonceInv
  <2> QED
    BY <1>1, <2>1, <2>2, <2>3 DEF PaidInv, NonceInv
<1> QED
  BY <1>1, <1>2, <1>3, <1>4 DEF PaidInv, PaidOnce

(* A pending transaction moves to the end of the chain.                    *)
LEMMA ChainAfterMine ==
    ASSUME PaidInv, Mine
    PROVE  \E t \in pool :
            /\ t.nonce = Len(mined) /\ pool' = pool \ {t}
            /\ mined' \in Seq(Mined) /\ Len(mined') = Len(mined) + 1
            /\ Len(mined) \in Nat
            /\ mined'[Len(mined) + 1].payment = t.payment
            /\ mined'[Len(mined) + 1].hash = t.hash
            /\ DOMAIN mined' = DOMAIN mined \cup {Len(mined) + 1}
            /\ \A k \in DOMAIN mined : mined'[k] = mined[k]
            /\ UNCHANGED <<tx, pc, asked, left, sends, last>>
<1>1. PICK t \in pool, status \in {"0x0", "0x1"} :
        /\ t.nonce = Len(mined)
        /\ mined' = Append(mined, [hash |-> t.hash, payment |-> t.payment,
                                   status |-> status])
        /\ pool' = pool \ {t}
        /\ UNCHANGED <<tx, pc, asked, left, sends, last>>
  BY DEF Mine
<1> DEFINE m == [hash |-> t.hash, payment |-> t.payment, status |-> status]
<1>2. m \in Mined /\ mined \in Seq(Mined)
  BY DEF PaidInv, TypeOK, Transaction, Mined
<1>3. m.hash = t.hash /\ m.payment = t.payment
  OBVIOUS
<1>4. mined' = Append(mined, m)
  BY <1>1
<1> HIDE DEF m
<1>5. /\ mined' \in Seq(Mined) /\ Len(mined') = Len(mined) + 1
      /\ Len(mined) \in Nat /\ mined'[Len(mined) + 1] = m
      /\ DOMAIN mined' = DOMAIN mined \cup {Len(mined) + 1}
      /\ \A k \in DOMAIN mined : mined'[k] = mined[k]
  BY <1>2, <1>4
<1> QED
  BY <1>1, <1>3, <1>5

LEMMA PaidMine == PaidInv /\ Mine => PaidInv'
<1> SUFFICES ASSUME PaidInv, Mine PROVE PaidInv'
  OBVIOUS
<1>1. PICK t \in pool :
        /\ t.nonce = Len(mined) /\ pool' = pool \ {t}
        /\ mined' \in Seq(Mined) /\ Len(mined') = Len(mined) + 1
        /\ Len(mined) \in Nat
        /\ mined'[Len(mined) + 1].payment = t.payment
        /\ mined'[Len(mined) + 1].hash = t.hash
        /\ DOMAIN mined' = DOMAIN mined \cup {Len(mined) + 1}
        /\ \A k \in DOMAIN mined : mined'[k] = mined[k]
        /\ UNCHANGED <<tx, pc, asked, left, sends, last>>
  BY ChainAfterMine
<1>2. Last' = Last /\ (Sent' <=> Sent)
  BY <1>1 DEF Last, Sent
<1>3. TypeOK'
  BY <1>1 DEF PaidInv, TypeOK
<1>4. AskedInv'
  BY <1>1, <1>2 DEF PaidInv, AskedInv
<1>5. NonceInv'
  <2>1. \A u \in pool' : u \in pool /\ u # t /\ u.nonce # t.nonce /\ u.nonce \in Nat
    BY <1>1 DEF PaidInv, TypeOK, Transaction
  <2>2. \A u \in pool' : u.nonce >= Len(mined')
    BY <1>1, <2>1 DEF PaidInv, NonceInv
  <2>3. \A u \in pool', k \in DOMAIN mined' : u.payment # mined'[k].payment
    BY <1>1, <2>1 DEF PaidInv, NonceInv
  <2>4. Sent => \A k \in DOMAIN mined' : mined'[k].payment = tx.payment => k = tx.nonce + 1
    BY <1>1 DEF PaidInv, NonceInv
  <2>5. asked # <<>> /\ ~Sent => \A k \in DOMAIN mined' : mined'[k].payment # {Last}
    BY <1>1 DEF PaidInv, NonceInv
  <2> QED
    BY <1>1, <1>2, <2>1, <2>2, <2>3, <2>4, <2>5 DEF PaidInv, NonceInv
<1>6. PaidOnce'
  BY <1>1 DEF PaidInv, PaidOnce, NonceInv
<1> QED
  BY <1>3, <1>4, <1>5, <1>6 DEF PaidInv

LEMMA PaidDrop == PaidInv /\ Drop => PaidInv'
<1> SUFFICES ASSUME PaidInv, Drop PROVE PaidInv'
  OBVIOUS
<1>1. pool' \subseteq pool /\ UNCHANGED <<tx, pc, asked, left, sends, last, mined>>
  BY DEF Drop
<1>2. Last' = Last /\ (Sent' <=> Sent)
  BY <1>1 DEF Last, Sent
<1>3. TypeOK'
  BY <1>1 DEF PaidInv, TypeOK
<1>4. AskedInv'
  BY <1>1, <1>2 DEF PaidInv, AskedInv
<1>5. NonceInv'
  BY <1>1, <1>2 DEF PaidInv, NonceInv
<1> QED
  BY <1>1, <1>3, <1>4, <1>5 DEF PaidInv, PaidOnce

LEMMA PaidNext == PaidInv /\ [Next]_vars => PaidInv'
<1> SUFFICES ASSUME PaidInv, [Next]_vars PROVE PaidInv'
  OBVIOUS
<1>1. CASE UNCHANGED vars
  <2>1. UNCHANGED <<tx, pc, asked, left, sends, last, pool, mined>>
    BY <1>1 DEF vars
  <2>2. TypeOK'
    BY <2>1 DEF PaidInv, TypeOK
  <2> QED
    BY <2>1, <2>2, PaidQuiet DEF PaidInv, AskedInv
<1> QED
  BY <1>1, PaidTransfer, PaidSendAgain, PaidGetCount, PaidSend, PaidPoll,
     PaidMine, PaidDrop DEF Next, SdkSteps

LEMMA PaidInvariance == Spec => []PaidInv
BY PaidInit, PaidNext, PTL DEF Spec

(* Every reachable state is well typed: the wait for a receipt is counted  *)
(* down and never starts at or below nothing.                              *)
THEOREM EthTypeCorrect == Spec => []TypeOK
<1>1. PaidInv => TypeOK
  BY DEF PaidInv
<1> QED
  BY <1>1, PaidInvariance, PTL

(* Synchronous or not, no payment is made twice, however many requests and *)
(* answers are lost and however often it is sent again.                    *)
THEOREM NeverPaidTwice == Spec => []PaidOnce
<1>1. PaidInv => PaidOnce
  BY DEF PaidInv
<1> QED
  BY <1>1, PaidInvariance, PTL

-----------------------------------------------------------------------------
(* Synchronous payments                                                    *)
(*                                                                         *)
(* That a success tells of a mined payment, and that a nonce is fresh,     *)
(* hang together: the application goes on to the next payment when the one *)
(* before is mined, and so the node has nothing pending but that one.      *)

Waiting == pc = "poll" \/ (IsSync /\ pc = "idle" /\ last = "success")

(* A hash is used once; a wait is for the hash of the last sending, and    *)
(* ends in success with its receipt.                                       *)
HashInv ==
    /\ \A t \in pool : t.hash <= sends
    /\ \A k \in DOMAIN mined : mined[k].hash <= sends
    /\ Waiting =>
        /\ Sent
        /\ \A t \in pool : t.hash = tx.hash => t.payment = tx.payment
        /\ \A k \in DOMAIN mined : mined[k].hash = tx.hash => mined[k].payment = tx.payment
    /\ IsSync /\ pc = "idle" /\ last = "success" =>
        \E k \in DOMAIN mined : mined[k].hash = tx.hash

(* The node has nothing pending but the payment asked for last, and what   *)
(* has used up the nonce of that payment is that payment.                  *)
PoolInv ==
    IsSync =>
        /\ \A t \in pool : Sent /\ t.payment = tx.payment
        /\ Sent /\ tx.nonce < Len(mined) => mined[tx.nonce + 1].payment = tx.payment

SyncInv == HashInv /\ PoolInv

LEMMA SyncInit == Init => SyncInv
BY DEF Init, SyncInv, HashInv, PoolInv, Waiting, Sent

LEMMA SyncTransfer ==
    ASSUME PaidInv, SyncInv, NEW p \in Payments, Transfer(p) PROVE SyncInv'
<1>1. UNCHANGED <<tx, pool, mined, last, left, sends>> /\ pc' = "count" /\ pc = "idle"
  BY DEF Transfer, node
<1>2. ~Sent'
  BY PaidTransfer, <1>1 DEF PaidInv, AskedInv
<1>3. IsSync => pool = {}
  <2>1. CASE last = "success"
    <3>1. IsSync => \E k \in DOMAIN mined : mined[k].payment = tx.payment
      BY <1>1, <2>1 DEF SyncInv, HashInv, Waiting
    <3> QED
      BY <3>1 DEF SyncInv, PoolInv, PaidInv, NonceInv
  <2>2. CASE asked = <<>> \/ Unsent
    BY <2>2 DEF SyncInv, PoolInv, Sent, Unsent
  <2> QED
    BY <2>1, <2>2 DEF Transfer
<1> QED
  BY <1>1, <1>2, <1>3 DEF SyncInv, HashInv, PoolInv, Waiting

LEMMA SyncSendAgain == PaidInv /\ SyncInv /\ SendAgain => SyncInv'
<1> SUFFICES ASSUME PaidInv, SyncInv, SendAgain PROVE SyncInv'
  OBVIOUS
<1>1. UNCHANGED <<asked, pool, mined, tx, left, sends, last>> /\ pc' = "send"
  BY DEF SendAgain, node
<1> QED
  BY <1>1 DEF SyncInv, HashInv, PoolInv, Waiting, Sent, Last

LEMMA SyncGetCount == PaidInv /\ SyncInv /\ GetCount => SyncInv'
<1> SUFFICES ASSUME PaidInv, SyncInv, GetCount PROVE SyncInv'
  OBVIOUS
<1>1. ~Sent /\ UNCHANGED <<asked, pool, mined, sends>>
  BY DEF GetCount, PaidInv, AskedInv, node
<1>2. IsSync => pool = {}
  BY <1>1 DEF SyncInv, PoolInv
<1>3. CASE UNCHANGED tx /\ Return("error")
  BY <1>1, <1>3 DEF SyncInv, HashInv, PoolInv, Waiting, Return, Sent, Last
<1>4. CASE /\ tx' = [tx EXCEPT !.nonce = Len(mined), !.payment = {Last}]
           /\ pc' = "send" /\ UNCHANGED <<left, last>>
  <2>1. tx'.nonce = Len(mined) /\ Len(mined) \in Nat
    BY <1>4 DEF PaidInv, TypeOK
  <2> QED
    BY <1>1, <1>2, <1>4, <2>1 DEF SyncInv, HashInv, PoolInv, Waiting
<1> QED
  BY <1>3, <1>4 DEF GetCount

LEMMA SyncSend == PaidInv /\ SyncInv /\ Send => SyncInv'
<1> SUFFICES ASSUME PaidInv, SyncInv, Send PROVE SyncInv'
  OBVIOUS
<1>1. /\ UNCHANGED <<asked, mined>>
      /\ sends' = sends + 1 /\ sends \in Nat
      /\ tx'.nonce = tx.nonce /\ tx'.payment = tx.payment
      /\ Sent /\ Sent'
      /\ Signed.hash = sends + 1 /\ Signed.payment = tx.payment
      /\ \A t \in pool' : t = Signed \/ t \in pool
  BY PoolAfterSend
<1>2. Waiting' => pc' = "poll" /\ tx'.hash = sends'
  BY DEF Send, SendFailed, Return, Waiting, PaidInv, TypeOK
<1>3. /\ \A t \in pool : t.hash \in Nat
      /\ \A k \in DOMAIN mined : mined[k].hash \in Nat
  <2>1. \A k \in DOMAIN mined : mined[k] \in Mined
    BY DEF PaidInv, TypeOK
  <2>2. \A m \in Mined : m.hash \in Nat
    BY DEF Mined
  <2> QED
    BY <2>1, <2>2 DEF PaidInv, TypeOK, Transaction
<1>4. HashInv'
  <2>1. /\ \A t \in pool' : t.hash <= sends'
        /\ \A k \in DOMAIN mined : mined[k].hash < sends'
    BY <1>1, <1>3 DEF SyncInv, HashInv
  <2>2. Waiting' => \A t \in pool' : t.hash = tx'.hash => t.payment = tx.payment
    BY <1>1, <1>2, <1>3 DEF SyncInv, HashInv
  <2>3. Waiting' => \A k \in DOMAIN mined : mined[k].hash # tx'.hash
    BY <1>1, <1>2, <1>3, <2>1
  <2>4. \A k \in DOMAIN mined : mined[k].hash <= sends'
    BY <1>1, <1>3, <2>1
  <2>5. ~(IsSync /\ pc' = "idle" /\ last' = "success")
    BY <1>2 DEF Waiting
  <2> QED
    BY <1>1, <2>1, <2>2, <2>3, <2>4, <2>5 DEF HashInv
<1>5. PoolInv'
  BY <1>1 DEF SyncInv, PoolInv
<1> QED
  BY <1>4, <1>5 DEF SyncInv

LEMMA SyncPoll == PaidInv /\ SyncInv /\ Poll => SyncInv'
<1> SUFFICES ASSUME PaidInv, SyncInv, Poll PROVE SyncInv'
  OBVIOUS
<1>1. UNCHANGED <<tx, asked, sends, pool, mined>> /\ Waiting
  BY DEF Poll, node, Waiting
<1>2. Sent' <=> Sent
  BY <1>1 DEF Sent, Last
<1>3. pc' = "idle" /\ last' = "success" => Receipt(tx.hash) # {}
  BY DEF Poll, NotYet, Return, PaidInv, TypeOK
<1> QED
  BY <1>1, <1>2, <1>3 DEF SyncInv, HashInv, PoolInv, Receipt

LEMMA SyncMine == PaidInv /\ SyncInv /\ Mine => SyncInv'
<1> SUFFICES ASSUME PaidInv, SyncInv, Mine PROVE SyncInv'
  OBVIOUS
<1>1. PICK t \in pool :
        /\ t.nonce = Len(mined) /\ pool' = pool \ {t}
        /\ mined' \in Seq(Mined) /\ Len(mined') = Len(mined) + 1
        /\ Len(mined) \in Nat
        /\ mined'[Len(mined) + 1].payment = t.payment
        /\ mined'[Len(mined) + 1].hash = t.hash
        /\ DOMAIN mined' = DOMAIN mined \cup {Len(mined) + 1}
        /\ \A k \in DOMAIN mined : mined'[k] = mined[k]
        /\ UNCHANGED <<tx, pc, asked, left, sends, last>>
  BY ChainAfterMine
<1>2. (Sent' <=> Sent) /\ (Waiting' <=> Waiting)
  BY <1>1 DEF Last, Sent, Waiting
<1>3. HashInv'
  BY <1>1, <1>2 DEF SyncInv, HashInv
<1>4. PoolInv'
  <2>1. ASSUME IsSync, Sent, tx.nonce < Len(mined')
        PROVE  mined'[tx.nonce + 1].payment = tx.payment
    <3>1. tx.nonce \in Nat /\ DOMAIN mined = 1..Len(mined)
      BY DEF PaidInv, TypeOK
    <3>2. CASE tx.nonce = Len(mined)
      BY <1>1, <2>1, <3>2 DEF SyncInv, PoolInv
    <3>3. CASE tx.nonce < Len(mined)
      BY <1>1, <2>1, <3>1, <3>3 DEF SyncInv, PoolInv
    <3> QED
      BY <1>1, <2>1, <3>1, <3>2, <3>3
  <2> QED
    BY <1>1, <1>2, <2>1 DEF SyncInv, PoolInv
<1> QED
  BY <1>3, <1>4 DEF SyncInv

LEMMA SyncDrop == SyncInv /\ Drop => SyncInv'
<1> SUFFICES ASSUME SyncInv, Drop PROVE SyncInv'
  OBVIOUS
<1>1. pool' \subseteq pool /\ UNCHANGED <<tx, pc, asked, left, sends, last, mined>>
  BY DEF Drop
<1>2. (Sent' <=> Sent) /\ (Waiting' <=> Waiting)
  BY <1>1 DEF Last, Sent, Waiting
<1> QED
  BY <1>1, <1>2 DEF SyncInv, HashInv, PoolInv

LEMMA SyncNext == PaidInv /\ SyncInv /\ [Next]_vars => SyncInv'
<1> SUFFICES ASSUME PaidInv, SyncInv, [Next]_vars PROVE SyncInv'
  OBVIOUS
<1>1. CASE UNCHANGED vars
  BY <1>1 DEF vars, SyncInv, HashInv, PoolInv, Waiting, Sent, Last
<1> QED
  BY <1>1, SyncTransfer, SyncSendAgain, SyncGetCount, SyncSend, SyncPoll,
     SyncMine, SyncDrop DEF Next, SdkSteps

LEMMA SyncInvariance == Spec => [](PaidInv /\ SyncInv)
BY PaidInit, PaidNext, SyncInit, SyncNext, PTL DEF Spec

(* When a synchronous call succeeds, the payment asked for last is in the  *)
(* chain: a receipt is never that of an earlier payment.                   *)
THEOREM SuccessIsMined == Spec => []SyncMined
<1>1. PaidInv /\ SyncInv => SyncMined
  BY DEF SyncInv, HashInv, Waiting, SyncMined, Receipt, Sent
<1> QED
  BY <1>1, SyncInvariance, PTL

(* An application that waits for each payment never sends one under the    *)
(* nonce of another, though no nonce is remembered between two calls.      *)
THEOREM NonceIsFresh == ASSUME IsSync PROVE Spec => []FreshNonce
<1>1. PaidInv /\ SyncInv => FreshNonce
  BY DEF SyncInv, PoolInv, FreshNonce, PaidInv, AskedInv
<1> QED
  BY <1>1, SyncInvariance, PTL
=============================================================================
