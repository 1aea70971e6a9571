----------------------------- MODULE Web3Proofs -----------------------------
(***************************************************************************)
(* The type correctness of Web3 and its three safety properties, for every *)
(* step size, every length of requests and every size of chunks.           *)
(*                                                                         *)
(* The inductive invariant adds to the properties what holds in between:   *)
(* while chunks arrive the response already is in order, and what was      *)
(* delivered but for chunks without memory; it is never longer than that,  *)
(* and a string buffer that is there has one step at least.                *)
(***************************************************************************)
EXTENDS Web3, TLAPS

Running == pc \in {"build", "receive", "parse", "copy"}

Whole == response.got = node.sent /\ response.len = node.len

\* What holds of the answer from the moment its request is sent.
AnswerInv ==
    /\ (told = "raw" \/ pc \in {"receive", "parse", "copy"}) =>
          OwnInOrder /\ (~lost => Whole)
    /\ pc \in {"receive", "parse", "copy"} => response.len <= node.len
    /\ told = "read" => result.ptr /\ (result.of = id \/ MayReadEarlier)

\* What is kept of a call that has ended.
Ended == [NoCall EXCEPT !.reads = call.reads]

\* What holds of a call until it ends.
CallInv ==
    /\ Running => told = "nothing"
    /\ pc = "build" => call.len \in RequestLens /\ node = Nothing
    /\ pc = "copy" => call.text < response.len

ContextInv ==
    /\ protocol = NoWallet =>
          /\ ~json.ptr /\ ~result.ptr /\ ~Running
          /\ told \in {"nothing", "error"}
    /\ result.ptr => result.space >= Step

Inv == TypeOK /\ BuffersFit /\ HeapBalanced /\ AnswerInv /\ CallInv /\ ContextInv

-----------------------------------------------------------------------------
(* The number of steps is enough for the text and its terminator, and no   *)
(* step more (curlport.c:101-102).                                         *)

LEMMA QuotientBound ==
    ASSUME NEW a \in Nat, NEW b \in Nat, b > 0
    PROVE  /\ a \div b \in Nat
           /\ (a \div b) * b <= a
           /\ a < (a \div b) * b + b
<1>1. a \div b \in Int /\ a % b \in 0 .. b - 1 /\ a = b * (a \div b) + (a % b)
  BY SMT
<1>2. DEFINE q == a \div b
<1>3. q \in Int /\ b * q <= a /\ a < b * q + b
  BY <1>1, SMT
<1>4. q >= 0
  <2>1. SUFFICES ASSUME q <= -1 PROVE FALSE
    BY <1>3, SMT
  <2>2. b * q <= -b
    BY <1>3, <2>1, SMT
  <2> QED
    BY <1>3, <2>2, SMT
<1> QED
  BY <1>3, <1>4, SMT

LEMMA OneMoreStep ==
    ASSUME NEW q \in Nat, NEW b \in Nat
    PROVE  (q + 1) * b = q * b + b /\ q * b \in Nat
  BY SMT

LEMMA StepsSuffice ==
    ASSUME NEW n \in Nat, Step \in Nat, Step > 4,
           response.space \in Nat, response.len \in Nat,
           response.space - response.len <= n,
           response.len < response.space
    PROVE  /\ ExpandSteps(n) * Step + response.space \in Nat
           /\ response.len + n < ExpandSteps(n) * Step + response.space
           /\ ExpandSteps(n) * Step + response.space <= response.len + n + Step
<1>1. PICK a \in Nat : a = n - (response.space - response.len)
  BY SMT
<1>2. PICK q \in Nat : q = a \div Step /\ q * Step <= a /\ a < q * Step + Step
  BY QuotientBound, SMT
<1>3. ExpandSteps(n) = q + 1
  BY <1>1, <1>2, Zenon DEF ExpandSteps
<1>4. (q + 1) * Step = q * Step + Step /\ q * Step \in Nat
  BY OneMoreStep, Zenon
<1>5. PICK p \in Nat : p = (q + 1) * Step /\ p = q * Step + Step
  BY <1>4, SMT
<1>6. a < p /\ p <= a + Step
  BY <1>2, <1>4, <1>5, SMT
<1>7. /\ p + response.space \in Nat
      /\ response.len + n < p + response.space
      /\ p + response.space <= response.len + n + Step
  BY <1>1, <1>6, SMT
<1> QED
  BY <1>3, <1>5, <1>7, Zenon

-----------------------------------------------------------------------------
(* Init, and the actions that make and take a context.                     *)

FieldType == [ptr : BOOLEAN, space : Nat, len : Nat, of : Nat]

LEMMA NullFieldType == NullField \in FieldType
<1>1. FALSE \in BOOLEAN /\ 0 \in Nat /\ NoId \in Nat
  BY Web3Assumption, SMT DEF NoId
<1> QED
  BY <1>1, Zenon DEF NullField, FieldType

\* A step that leaves the response, or the call, alone keeps what is said of it.
LEMMA SameAnswer ==
    ASSUME response' = response, node' = node, id' = id
    PROVE  (OwnInOrder' <=> OwnInOrder) /\ (Whole' <=> Whole)
  BY Zenon DEF OwnInOrder, Whole

LEMMA SameReads ==
    ASSUME call'.reads = call.reads, protocol' = protocol
    PROVE  MayReadEarlier' <=> MayReadEarlier
  BY Zenon DEF MayReadEarlier

CallType ==
    [len : RequestLens \cup {0}, reads : {"raw", "string", "child", "grandchild"}, text : Nat]

LEMMA EndedType ==
    ASSUME TypeOK
    PROVE  Ended \in CallType /\ Ended.reads = call.reads
<1>1. Ended = [len |-> 0, reads |-> call.reads, text |-> 0]
  BY SMT DEF Ended, NoCall
<1>2. call.reads \in {"raw", "string", "child", "grandchild"}
  BY SMT DEF TypeOK
<1>3. 0 \in RequestLens \cup {0} /\ 0 \in Nat
  BY SMT
<1> QED
  BY <1>1, <1>2, <1>3, Zenon DEF CallType

LEMMA InvInit == Init => Inv
<1> SUFFICES ASSUME Init PROVE Inv
  OBVIOUS
<1> USE Web3Assumption DEF Init
<1>1. TypeOK
  <2>1. lost \in BOOLEAN /\ json \in FieldType /\ result \in FieldType
    BY NullFieldType, Zenon
  <2> QED
    BY <2>1, SMT DEF TypeOK, Empty, Nothing, NoCall, Blocks, FieldType
<1>2. BuffersFit /\ HeapBalanced
  BY SMT DEF BuffersFit, HeapBalanced, NullField, Empty, NoWallet, Blocks
<1>3. AnswerInv /\ CallInv /\ ContextInv
  BY SMT DEF AnswerInv, CallInv, ContextInv, Running, NullField
<1> QED
  BY <1>1, <1>2, <1>3 DEF Inv

LEMMA InvMake ==
    ASSUME Inv, web3_init
    PROVE  Inv'
<1> USE Web3Assumption DEF Inv, web3_init
<1>1. TypeOK'
  BY SMT DEF TypeOK, HeapBalanced, Field, NoId, Empty, Blocks, Allocated
<1>2. BuffersFit'
  BY SMT DEF BuffersFit, Field, Empty
<1>3. HeapBalanced'
  BY SMT DEF HeapBalanced, TypeOK, Field, Allocated, Blocks, Protocols, NoWallet
<1>4. AnswerInv' /\ CallInv' /\ ContextInv'
  BY SMT DEF AnswerInv, CallInv, ContextInv, Running, Field, Protocols, NoWallet
<1> QED
  BY <1>1, <1>2, <1>3, <1>4

LEMMA InvMakeFails ==
    ASSUME Inv, web3_init_fails \/ web3_init_frees_unset
    PROVE  Inv'
<1> USE Web3Assumption DEF Inv, web3_init_fails, web3_init_frees_unset, buffers
<1>1. TypeOK'
  BY SMT DEF TypeOK
<1>2. BuffersFit' /\ HeapBalanced'
  BY SMT DEF BuffersFit, HeapBalanced
<1>3. AnswerInv' /\ CallInv' /\ ContextInv'
  BY SMT DEF AnswerInv, CallInv, ContextInv, Running
<1> QED
  BY <1>1, <1>2, <1>3

LEMMA InvDeinit ==
    ASSUME Inv, web3_deinit
    PROVE  Inv'
<1> USE Web3Assumption DEF Inv, web3_deinit
<1>1. HeapBalanced' /\ live' \in [Blocks -> 0 .. 1]
  BY SMT DEF HeapBalanced, TypeOK, NullField, Freed, Blocks
<1>2. TypeOK'
  <2>1. json' \in FieldType /\ result' \in FieldType
    BY NullFieldType, Zenon
  <2>2. /\ protocol' = NoWallet /\ response' = Empty(0) /\ told' = "nothing"
        /\ UNCHANGED <<id, call, node, lost, pc>>
    BY Zenon
  <2> HIDE DEF web3_deinit
  <2> QED
    BY <1>1, <2>1, <2>2, SMT DEF TypeOK, Empty, FieldType
<1>3. BuffersFit'
  BY SMT DEF BuffersFit, NullField, Empty, NoWallet
<1>4. AnswerInv' /\ CallInv' /\ ContextInv'
  BY SMT DEF AnswerInv, CallInv, ContextInv, Running, NullField
<1> QED
  BY <1>1, <1>2, <1>3, <1>4

-----------------------------------------------------------------------------
(* A call, whichever it is.                                                *)

Reads == {"raw", "string", "child", "grandchild"}

LEMMA InvCall ==
    ASSUME NEW protocols, NEW reads \in Reads, NoWallet \notin protocols,
           Inv, Call(protocols, reads)
    PROVE  Inv'
<1> USE Web3Assumption DEF Inv, Call, buffers
<1>1. id' \in Nat /\ id' < Ids
  BY SMT DEF TypeOK
<1>2. TypeOK'
  <2>1. lost' \in BOOLEAN
    BY Zenon
  <2> QED
    BY <1>1, <2>1, SMT DEF TypeOK, Nothing, Reads
<1>3. BuffersFit' /\ HeapBalanced'
  BY SMT DEF BuffersFit, HeapBalanced
<1>4. AnswerInv' /\ CallInv' /\ ContextInv'
  BY SMT DEF AnswerInv, CallInv, ContextInv, Running
<1> QED
  BY <1>2, <1>3, <1>4

LEMMA InvBadArgument ==
    ASSUME Inv, BadArgument
    PROVE  Inv'
<1> USE Web3Assumption DEF Inv, BadArgument, buffers
<1>1. id' \in Nat /\ id' < Ids
  BY SMT DEF TypeOK
<1>2. TypeOK'
  BY <1>1, SMT DEF TypeOK
<1>3. BuffersFit' /\ HeapBalanced'
  BY SMT DEF BuffersFit, HeapBalanced
<1>4. AnswerInv' /\ CallInv' /\ ContextInv'
  BY SMT DEF AnswerInv, CallInv, ContextInv, Running
<1> QED
  BY <1>2, <1>3, <1>4

LEMMA InvCalls ==
    ASSUME Inv, Calls
    PROVE  Inv'
<1>1. SUFFICES ASSUME ~BadArgument
               PROVE  \E P \in SUBSET Protocols, r \in Reads : Call(P, r)
  BY InvBadArgument, InvCall, SMT DEF Protocols, NoWallet
<1> USE DEF Reads, Protocols, HasCount
<1>2. CASE \/ web3_getTransactionCount \/ web3_gasPrice \/ web3_getBalance
           \/ web3_getStorageAt
  BY <1>2, SMT DEF web3_getTransactionCount, web3_gasPrice, web3_getBalance, web3_getStorageAt
<1>3. CASE \/ web3_sendRawTransaction \/ web3_getTransactionReceiptStatus
  BY <1>3, SMT DEF web3_sendRawTransaction, web3_getTransactionReceiptStatus
<1>4. CASE \/ web3_call \/ platon_web3_call
           \/ web3_fillTransaction \/ web3_sendRawPrivateTransaction
  BY <1>4, SMT DEF web3_call, platon_web3_call, web3_fillTransaction,
                   web3_sendRawPrivateTransaction
<1>5. CASE \/ web3_fiscobcos_call \/ web3_fiscobcos_sendRawTransaction
           \/ web3_fiscobcos_getTransactionReceiptStatus \/ web3_fiscobcos_getBlockNumber
  BY <1>5, SMT DEF web3_fiscobcos_call, web3_fiscobcos_sendRawTransaction,
                   web3_fiscobcos_getTransactionReceiptStatus, web3_fiscobcos_getBlockNumber
<1>6. CASE \/ web3_cita_call \/ web3_cita_sendRawTransaction
           \/ web3_cita_getTransactionReceiptStatus \/ web3_cita_getBlockNumber
  BY <1>6, SMT DEF web3_cita_call, web3_cita_sendRawTransaction,
                   web3_cita_getTransactionReceiptStatus, web3_cita_getBlockNumber
<1> QED
  BY <1>1, <1>2, <1>3, <1>4, <1>5, <1>6 DEF Calls

-----------------------------------------------------------------------------
(* The request.                                                            *)

\* What a buffer is after it grew, and how often its block is allocated.
LEMMA Expanded ==
    ASSUME NEW buf \in FieldType, NEW memory \in BOOLEAN
    PROVE  LET grown == malloc_size_expand(buf, memory)
           IN  /\ grown \in FieldType
               /\ grown.len = 0
               /\ memory => grown.ptr /\ grown.space = buf.space + Step
               /\ ~memory => ~grown.ptr /\ grown.space = 0
<1>1. CASE memory
  <2>1. malloc_size_expand(buf, memory) = Field(buf.space + Step)
    BY <1>1, Zenon DEF malloc_size_expand
  <2>2. PICK n \in Nat : n = buf.space + Step
    BY Web3Assumption, SMT DEF FieldType
  <2>3. TRUE \in BOOLEAN /\ 0 \in Nat /\ NoId \in Nat
    BY Web3Assumption, SMT DEF NoId
  <2>4. Field(n) \in FieldType /\ Field(n).ptr = TRUE /\ Field(n).len = 0 /\ Field(n).space = n
    BY <2>3, Zenon DEF Field, FieldType
  <2> QED
    BY <1>1, <2>1, <2>2, <2>4, Zenon
<1>2. CASE ~memory
  <2>1. malloc_size_expand(buf, memory) = NullField
    BY <1>2, Zenon DEF malloc_size_expand
  <2>2. NullField.ptr = FALSE /\ NullField.len = 0 /\ NullField.space = 0
    BY Zenon DEF NullField
  <2> QED
    BY <1>2, <2>1, <2>2, NullFieldType, Zenon
<1> QED
  BY <1>1, <1>2

LEMMA FieldTypes == TypeOK <=> /\ TypeOK
                               /\ json \in FieldType /\ result \in FieldType
  BY Zenon DEF TypeOK, FieldType

LEMMA LiveCounts ==
    ASSUME Inv
    PROVE  /\ live \in [Blocks -> 0 .. 1]
           /\ protocol # NoWallet =>
                 /\ live["json"] = IF json.ptr THEN 1 ELSE 0
                 /\ live["result"] = IF result.ptr THEN 1 ELSE 0
  BY SMT DEF Inv, TypeOK, HeapBalanced, Blocks

LEMMA ReallocatedOnce ==
    ASSUME NEW b \in Blocks, NEW buf, NEW memory \in BOOLEAN,
           live[b] = IF buf.ptr THEN 1 ELSE 0
    PROVE  Reallocated(b, buf, memory) = [live EXCEPT ![b] = IF memory THEN 1 ELSE 0]
<1>1. live[b] - (IF buf.ptr THEN 1 ELSE 0) + (IF memory THEN 1 ELSE 0)
        = IF memory THEN 1 ELSE 0
  BY SMT
<1> QED
  BY <1>1, Zenon DEF Reallocated

LEMMA InvGrowRequest ==
    ASSUME Inv, GrowRequest
    PROVE  Inv'
<1>1. PICK memory \in BOOLEAN :
         /\ json' = malloc_size_expand(json, memory)
         /\ live' = Reallocated("json", json, memory)
         /\ IF memory THEN UNCHANGED <<pc, told, call>> ELSE End("error")
  BY Zenon DEF GrowRequest
<1>2. /\ pc = "build" /\ call.len >= json.space
      /\ UNCHANGED <<protocol, result, response, id, node, lost>>
  BY Zenon DEF GrowRequest
<1>3. json \in FieldType /\ result \in FieldType
  BY FieldTypes DEF Inv
<1>4. /\ json' \in FieldType
      /\ json'.len = 0
      /\ memory => json'.ptr /\ json'.space = json.space + Step
      /\ ~memory => ~json'.ptr /\ json'.space = 0
  BY <1>1, <1>3, Expanded, Zenon
<1>5. protocol # NoWallet
  BY <1>2, SMT DEF Inv, ContextInv, Running
<1>6. HeapBalanced' /\ live' \in [Blocks -> 0 .. 1]
  <2>1. live' = [live EXCEPT !["json"] = IF memory THEN 1 ELSE 0]
    BY <1>1, <1>5, LiveCounts, ReallocatedOnce, Zenon DEF Blocks
  <2> QED
    BY <2>1, <1>2, <1>4, <1>5, LiveCounts, SMT DEF Inv, HeapBalanced, Blocks
<1>7. /\ pc' = IF memory THEN "build" ELSE "idle"
      /\ told' = IF memory THEN told ELSE "error"
      /\ call' = IF memory THEN call ELSE Ended
  BY <1>1, <1>2, Zenon DEF End, Ended
<1>8. TypeOK'
  BY <1>2, <1>3, <1>4, <1>6, <1>7, EndedType, SMT DEF Inv, TypeOK, FieldType, CallType
<1>9. BuffersFit'
  <2>1. json.space \in Nat /\ call.len \in RequestLens
    BY <1>2, <1>3, SMT DEF Inv, CallInv, FieldType
  <2>2. json'.ptr => json'.space = json.space + Step /\ json'.len = 0
    BY <1>4, Zenon
  <2>3. ~json'.ptr => json'.space = 0 /\ json'.len = 0
    BY <1>4, Zenon
  <2>4. \A buf \in {json', result'} :
           IF buf.ptr THEN buf.len < buf.space ELSE buf.space = 0 /\ buf.len = 0
    BY <2>1, <2>2, <2>3, <1>2, Web3Assumption, SMT DEF Inv, BuffersFit
  <2>5. json'.space > Step => \E n \in RequestLens : json'.space <= n + Step
    <3>1. PICK n \in RequestLens : n = call.len
      BY <2>1, Zenon
    <3>2. n \in Nat /\ json.space <= n
      BY <3>1, <1>2, Web3Assumption, SMT
    <3>3. json'.space = json.space + Step \/ json'.space = 0
      BY <2>2, <2>3, Zenon
    <3>4. json'.space <= n + Step
      BY <2>1, <3>2, <3>3, Web3Assumption, SMT
    <3> QED
      BY <3>4, Zenon
  <2> QED
    BY <2>4, <2>5, <1>2, SMT DEF Inv, BuffersFit
<1>10. AnswerInv' /\ CallInv' /\ ContextInv'
  BY <1>2, <1>5, <1>7, SMT DEF Inv, AnswerInv, CallInv, ContextInv, Running
<1> QED
  BY <1>6, <1>8, <1>9, <1>10 DEF Inv

\* What a buffer is after a text was written to it.
LEMMA Written ==
    ASSUME NEW buf \in FieldType, NEW n \in Nat
    PROVE  LET written == [buf EXCEPT !.len = n]
           IN  /\ written \in FieldType
               /\ written.len = n /\ written.ptr = buf.ptr
               /\ written.space = buf.space /\ written.of = buf.of
  BY Zenon DEF FieldType

LEMMA InvRequest ==
    ASSUME Inv, CurlPortRequestSync
    PROVE  Inv'
<1>1. /\ pc = "build" /\ pc' = "receive"
      /\ call.len < json.space
      /\ json' = [json EXCEPT !.len = call.len]
      /\ response' = Empty(response.space)
      /\ UNCHANGED <<protocol, result, live, id, call, node, lost, told>>
  BY Zenon DEF CurlPortRequestSync
<1>2. PICK n \in Nat : n = call.len
  BY <1>1, Web3Assumption, SMT DEF Inv, CallInv
<1>3. json \in FieldType /\ result \in FieldType
  BY FieldTypes DEF Inv
<1>4. /\ json' \in FieldType /\ json'.len = n
      /\ json'.ptr = json.ptr /\ json'.space = json.space
  <2>1. json' = [json EXCEPT !.len = n]
    BY <1>1, <1>2, Zenon
  <2> QED
    BY <1>3, <2>1, Written, Zenon
<1>5. /\ response'.space = response.space /\ response'.len = 0 /\ response'.got = << >>
      /\ response' \in [space : Nat, len : Nat, got : Seq(Nat \X Nat)]
  BY <1>1, SMT DEF Inv, TypeOK, Empty
<1>6. node'.len = 0 /\ node'.sent = << >>
  BY <1>1, SMT DEF Inv, CallInv, Nothing
<1>7. TypeOK'
  BY <1>1, <1>3, <1>4, <1>5, SMT DEF Inv, TypeOK, FieldType
<1>8. BuffersFit'
  <2>1. IF json'.ptr THEN json'.len < json'.space ELSE json'.space = 0 /\ json'.len = 0
    <3>1. json.ptr
      BY <1>1, <1>2, SMT DEF Inv, BuffersFit
    <3>2. json'.ptr
      BY <1>4, <3>1, Zenon
    <3>3. json'.len < json'.space
      BY <1>1, <1>2, <1>4, SMT
    <3> QED
      BY <3>2, <3>3, Zenon
  <2>2. protocol' # NoWallet => response'.len < response'.space
    BY <1>1, <1>5, SMT DEF Inv, BuffersFit, TypeOK
  <2>3. \A s \in {result'.space, response'.space} : s <= MaxAnswer + Step
    BY <1>1, <1>5, SMT DEF Inv, BuffersFit
  <2>4. json'.space > Step => \E m \in RequestLens : json'.space <= m + Step
    BY <1>4, SMT DEF Inv, BuffersFit
  <2> QED
    BY <1>1, <2>1, <2>2, <2>3, <2>4, SMT DEF Inv, BuffersFit
<1>9. HeapBalanced'
  BY <1>1, <1>4, Zenon DEF Inv, HeapBalanced
<1>10. AnswerInv'
  <2>1. told' = "nothing" /\ pc' = "receive" /\ response'.len <= node'.len
    BY <1>1, <1>5, <1>6, SMT DEF Inv, CallInv, Running
  <2>2. Whole'
    BY <1>5, <1>6, Zenon DEF Whole
  <2>3. OwnInOrder'
    BY <1>5, SMT DEF OwnInOrder
  <2> QED
    BY <2>1, <2>2, <2>3, SMT DEF AnswerInv
<1>11. CallInv' /\ ContextInv'
  BY <1>1, <1>4, SMT DEF Inv, CallInv, ContextInv, Running
<1> QED
  BY <1>7, <1>8, <1>9, <1>10, <1>11 DEF Inv

-----------------------------------------------------------------------------
(* The answer.                                                             *)

\* Chunks of one owner, with increasing numbers below m.
Ordered(got, owner, m) ==
    \A i \in DOMAIN got :
        /\ got[i][1] = owner
        /\ got[i][2] < m
        /\ \A j \in DOMAIN got : j < i => got[j][2] < got[i][2]

\* One more chunk, with the next number, keeps the order.
LEMMA OrderedAppend ==
    ASSUME NEW got \in Seq(Nat \X Nat), NEW owner \in Nat, NEW m \in Nat,
           Ordered(got, owner, m), NEW more, more = Append(got, <<owner, m>>)
    PROVE  Ordered(more, owner, m + 1)
<1> USE DEF Ordered
<1>1. <<owner, m>> \in Nat \X Nat
  BY SMT
<1>2. PICK l \in Nat : l = Len(got) /\ DOMAIN got = 1 .. l
  BY SMT
<1>3. /\ DOMAIN more = 1 .. l + 1
      /\ \A i \in 1 .. l : more[i] = got[i]
      /\ more[l + 1] = <<owner, m>>
  BY <1>1, <1>2, SMT
<1>4. \A i \in 1 .. l : got[i][1] = owner /\ got[i][2] \in Nat /\ got[i][2] < m
  BY <1>2, SMT
<1>5. SUFFICES ASSUME NEW i \in DOMAIN more
               PROVE  /\ more[i][1] = owner /\ more[i][2] < m + 1
                      /\ \A j \in DOMAIN more : j < i => more[j][2] < more[i][2]
  BY Zenon
<1>6. CASE i = l + 1
  <2>1. more[i][1] = owner /\ more[i][2] = m
    BY <1>3, <1>6, SMT
  <2>2. \A j \in DOMAIN more : j < i => j \in 1 .. l /\ more[j] = got[j]
    BY <1>2, <1>3, <1>6, SMT
  <2> QED
    BY <1>4, <2>1, <2>2, SMT
<1>7. CASE i # l + 1
  <2>1. i \in 1 .. l /\ more[i] = got[i]
    BY <1>2, <1>3, <1>7, SMT
  <2>2. \A j \in DOMAIN more : j < i => j \in DOMAIN got /\ more[j] = got[j]
    BY <1>2, <1>3, <2>1, SMT
  <2>3. more[i][2] < m + 1
    BY <1>4, <2>1, SMT
  <2> QED
    BY <1>2, <1>4, <2>1, <2>2, <2>3, Zenon
<1> QED
  BY <1>6, <1>7

\* A chunk that is stored in a response with room for it and its terminator.
LEMMA StoredChunk ==
    ASSUME Inv, NEW n \in ChunkSizes, Deliver(n), NEW space \in Nat,
           response' = Stored(n, space), UNCHANGED lost,
           response.len + n < space, space <= MaxAnswer + Step
    PROVE  Inv'
<1>1. /\ pc = "receive" /\ node.len + n <= MaxAnswer
      /\ node' = [len |-> node.len + n, sent |-> Append(node.sent, <<id, Len(node.sent)>>)]
      /\ UNCHANGED <<protocol, json, result, live, id, call, pc, told>>
  BY Zenon DEF Deliver
<1>2. /\ response'.space = space /\ response'.len = response.len + n
      /\ response'.got = Append(response.got, <<id, Len(node.sent)>>)
      /\ node'.len = node.len + n
      /\ node'.sent = Append(node.sent, <<id, Len(node.sent)>>)
  BY <1>1, SMT DEF Stored
<1>3. /\ n \in Nat /\ response.len \in Nat /\ node.len \in 0 .. MaxAnswer /\ id \in Nat
      /\ response.got \in Seq(Nat \X Nat) /\ node.sent \in Seq(Nat \X Nat)
  BY Web3Assumption, SMT DEF Inv, TypeOK
<1>4. <<id, Len(node.sent)>> \in Nat \X Nat
  BY <1>3, SMT
<1>5. /\ response' \in [space : Nat, len : Nat, got : Seq(Nat \X Nat)]
      /\ node' \in [len : 0 .. MaxAnswer, sent : Seq(Nat \X Nat)]
  <2>1. /\ Append(response.got, <<id, Len(node.sent)>>) \in Seq(Nat \X Nat)
        /\ Append(node.sent, <<id, Len(node.sent)>>) \in Seq(Nat \X Nat)
    BY <1>3, <1>4, SMT
  <2>2. response.len + n \in Nat /\ node.len + n \in 0 .. MaxAnswer
    BY <1>1, <1>3, Web3Assumption, SMT
  <2> QED
    BY <1>1, <2>1, <2>2, Zenon DEF Stored
<1>6. TypeOK'
  BY <1>1, <1>5, SMT DEF Inv, TypeOK
<1>7. BuffersFit'
  BY <1>1, <1>2, <1>3, SMT DEF Inv, BuffersFit
<1>8. HeapBalanced'
  BY <1>1, Zenon DEF Inv, HeapBalanced
<1>9. ~lost => Whole'
  <2>1. SUFFICES ASSUME ~lost PROVE Whole'
    OBVIOUS
  <2>2. Whole
    BY <1>1, <2>1, SMT DEF Inv, AnswerInv
  <2>3. response'.got = node'.sent
    BY <1>2, <2>2, Zenon DEF Whole
  <2>4. response'.len = node'.len
    BY <1>2, <2>2, Zenon DEF Whole
  <2> QED
    BY <2>3, <2>4 DEF Whole
<1>10. OwnInOrder'
  <2>1. PICK m \in Nat, owner \in Nat, got \in Seq(Nat \X Nat) :
           m = Len(node.sent) /\ owner = id /\ got = response.got
    <3>1. Len(node.sent) \in Nat
      BY <1>3, SMT
    <3> QED
      BY <1>3, <3>1, Zenon
  <2>2. PICK more : more = Append(got, <<owner, m>>)
    BY Zenon
  <2>3. Ordered(got, owner, m)
    <3>1. OwnInOrder
      BY <1>1, SMT DEF Inv, AnswerInv
    <3> QED
      BY <2>1, <3>1, Zenon DEF OwnInOrder, Ordered
  <2>4. Ordered(more, owner, m + 1)
    BY <2>1, <2>2, <2>3, OrderedAppend, Zenon
  <2>5. response'.got = more /\ id' = owner
    BY <1>1, <1>2, <2>1, <2>2, Zenon
  <2>6. Len(node'.sent) = m + 1
    BY <1>2, <1>3, <2>1, SMT
  <2> QED
    BY <2>4, <2>5, <2>6, Zenon DEF OwnInOrder, Ordered
<1>11. AnswerInv'
  BY <1>1, <1>2, <1>3, <1>9, <1>10, SMT DEF Inv, AnswerInv, CallInv, Running
<1>12. CallInv' /\ ContextInv'
  BY <1>1, SMT DEF Inv, CallInv, ContextInv, Running
<1> QED
  BY <1>6, <1>7, <1>8, <1>11, <1>12 DEF Inv

LEMMA InvChunk ==
    ASSUME Inv, CurlPortWriteMemoryCallback
    PROVE  Inv'
<1>1. PICK n \in ChunkSizes : Deliver(n) /\ (ChunkFits(n) \/ ChunkGrows(n) \/ ChunkLost(n))
  BY Zenon DEF CurlPortWriteMemoryCallback
<1>2. /\ pc = "receive" /\ node.len + n <= MaxAnswer
      /\ node' = [len |-> node.len + n, sent |-> Append(node.sent, <<id, Len(node.sent)>>)]
      /\ UNCHANGED <<protocol, json, result, live, id, call, pc, told>>
  BY <1>1, Zenon DEF Deliver
<1>3. /\ n \in Nat /\ response.len \in Nat /\ response.space \in Nat
      /\ node.len \in 0 .. MaxAnswer /\ id \in Nat
      /\ node.sent \in Seq(Nat \X Nat)
  BY Web3Assumption, SMT DEF Inv, TypeOK
<1>4. response.len <= node.len /\ protocol # NoWallet
  BY <1>2, SMT DEF Inv, AnswerInv, ContextInv, Running
<1>5. response.len < response.space /\ response.space <= MaxAnswer + Step
  BY <1>4, SMT DEF Inv, BuffersFit
<1>6. CASE ChunkFits(n)
  BY <1>1, <1>3, <1>5, <1>6, StoredChunk, SMT DEF ChunkFits
<1>7. CASE ChunkGrows(n)
  <2>1. response.space - response.len <= n
    BY <1>7, Zenon DEF ChunkGrows
  <2>2. PICK space \in Nat : /\ space = ExpandSteps(n) * Step + response.space
                             /\ response.len + n < space
                             /\ space <= response.len + n + Step
    BY <1>3, <1>5, <2>1, StepsSuffice, Web3Assumption, Zenon
  <2>3. response.len + n + Step <= MaxAnswer + Step /\ space <= MaxAnswer + Step
    <3>1. /\ node.len + n <= MaxAnswer /\ node.len \in 0 .. MaxAnswer
          /\ response.len <= node.len /\ response.len \in Nat /\ n \in Nat
      BY <1>2, <1>3, <1>4, Zenon
    <3>2. MaxAnswer \in Nat /\ Step \in Nat
      BY Web3Assumption, SMT
    <3>3. response.len + n <= MaxAnswer
      BY <3>1, <3>2, SMT
    <3>4. space \in Nat /\ space <= response.len + n + Step
      BY <2>2, Zenon
    <3> QED
      BY <3>1, <3>2, <3>3, <3>4, SMT
  <2>4. response' = Stored(n, space) /\ UNCHANGED lost
    BY <1>7, <2>2, Zenon DEF ChunkGrows
  <2> QED
    BY <1>1, <2>2, <2>3, <2>4, StoredChunk, Zenon
<1>8. CASE ChunkLost(n)
  <2>1. lost' = TRUE /\ response' = response
    BY <1>8, Zenon DEF ChunkLost
  <2>2. lost' /\ lost' \in BOOLEAN
    BY <2>1, Zenon
  <2>3. node' \in [len : 0 .. MaxAnswer, sent : Seq(Nat \X Nat)]
    <3>1. Append(node.sent, <<id, Len(node.sent)>>) \in Seq(Nat \X Nat)
      BY <1>3, SMT
    <3>2. node.len + n \in 0 .. MaxAnswer
      BY <1>2, <1>3, Web3Assumption, SMT
    <3> QED
      BY <1>2, <3>1, <3>2, Zenon
  <2>4. response.len <= node'.len
    BY <1>2, <1>3, <1>4, SMT
  <2>5. TypeOK'
    BY <1>2, <2>1, <2>2, <2>3, SMT DEF Inv, TypeOK
  <2>6. BuffersFit' /\ HeapBalanced'
    BY <1>2, <2>1, SMT DEF Inv, BuffersFit, HeapBalanced
  <2>7. OwnInOrder'
    <3>1. Len(node'.sent) = Len(node.sent) + 1
      BY <1>2, <1>3, SMT
    <3>2. response.got \in Seq(Nat \X Nat)
      BY SMT DEF Inv, TypeOK
    <3>3. \A i \in DOMAIN response.got : response.got[i][2] \in Nat
      BY <3>2, SMT
    <3>4. OwnInOrder
      BY <1>2, SMT DEF Inv, AnswerInv
    <3>5. Len(node.sent) \in Nat
      BY <1>3, SMT
    <3>6. \A i \in DOMAIN response.got : response.got[i][2] < Len(node'.sent)
      BY <3>1, <3>3, <3>4, <3>5, SMT DEF OwnInOrder
    <3> QED
      BY <1>2, <2>1, <3>4, <3>6, Zenon DEF OwnInOrder
  <2>8. told' = "nothing"
    BY <1>2, SMT DEF Inv, CallInv, Running
  <2>9. AnswerInv' /\ CallInv' /\ ContextInv'
    BY <1>2, <2>1, <2>2, <2>4, <2>7, <2>8, SMT DEF Inv, AnswerInv, CallInv, ContextInv, Running
  <2> QED
    BY <2>5, <2>6, <2>9 DEF Inv
<1> QED
  BY <1>1, <1>6, <1>7, <1>8

LEMMA InvRequestEnds ==
    ASSUME Inv, RequestFails \/ RequestDone
    PROVE  Inv'
<1>1. /\ pc = "receive"
      /\ \/ pc' = "idle" /\ told' \in {"error", "raw"} /\ call' = Ended
         \/ pc' = "parse" /\ UNCHANGED <<told, call>>
      /\ UNCHANGED <<protocol, json, result, response, live, id, node, lost>>
  BY SMT DEF RequestFails, RequestDone, End, Ended, buffers
<1>2. TypeOK'
  BY <1>1, EndedType, SMT DEF Inv, TypeOK, CallType
<1>3. BuffersFit' /\ HeapBalanced'
  BY <1>1, SMT DEF Inv, BuffersFit, HeapBalanced
<1>4. AnswerInv'
  BY <1>1, SameAnswer, SameReads, EndedType, SMT DEF Inv, AnswerInv, CallInv, Running
<1>5. CallInv' /\ ContextInv'
  BY <1>1, SMT DEF Inv, CallInv, ContextInv, Running
<1> QED
  BY <1>2, <1>3, <1>4, <1>5 DEF Inv

-----------------------------------------------------------------------------
(* The string in the answer.                                               *)

LEMMA InvParse ==
    ASSUME Inv, ParseFails \/ ParseString
    PROVE  Inv'
<1>1. /\ pc = "parse"
      /\ \/ pc' = "idle" /\ told' = "error" /\ call' = Ended
         \/ /\ pc' = "copy" /\ UNCHANGED told
            /\ \E n \in 0 .. response.len - 1 : call' = [call EXCEPT !.text = n]
      /\ UNCHANGED <<protocol, json, result, response, live, id, node, lost>>
  BY SMT DEF ParseFails, ParseString, End, Ended, buffers
<1>2. call' \in [len : RequestLens \cup {0},
                 reads : {"raw", "string", "child", "grandchild"}, text : Nat]
  <2>1. CASE call' = Ended
    BY <2>1, EndedType, Zenon DEF Inv, CallType
  <2>2. CASE \E n \in 0 .. response.len - 1 : call' = [call EXCEPT !.text = n]
    <3>1. PICK n \in 0 .. response.len - 1 : call' = [call EXCEPT !.text = n]
      BY <2>2
    <3>2. n \in Nat
      BY SMT DEF Inv, TypeOK
    <3>3. call \in [len : RequestLens \cup {0},
                    reads : {"raw", "string", "child", "grandchild"}, text : Nat]
      BY Zenon DEF Inv, TypeOK
    <3> QED
      BY <3>1, <3>2, <3>3, Zenon
  <2> QED
    BY <1>1, <2>1, <2>2
<1>3. TypeOK'
  BY <1>1, <1>2, SMT DEF Inv, TypeOK
<1>4. BuffersFit' /\ HeapBalanced'
  BY <1>1, SMT DEF Inv, BuffersFit, HeapBalanced
<1>5. AnswerInv'
  BY <1>1, SameAnswer, SMT DEF Inv, AnswerInv, CallInv, Running
<1>6. pc' = "copy" => call'.text < response'.len
  <2>1. SUFFICES ASSUME pc' = "copy" PROVE call'.text < response'.len
    OBVIOUS
  <2>2. PICK n \in 0 .. response.len - 1 : call' = [call EXCEPT !.text = n]
    BY <1>1, <2>1
  <2>3. call'.text = n
    BY <2>2, SMT DEF Inv, TypeOK
  <2>4. n < response.len
    BY SMT DEF Inv, TypeOK
  <2> QED
    BY <1>1, <2>3, <2>4, SMT
<1>7. CallInv' /\ ContextInv'
  BY <1>1, <1>6, SMT DEF Inv, CallInv, ContextInv, Running
<1> QED
  BY <1>3, <1>4, <1>5, <1>7 DEF Inv

LEMMA InvParseOther ==
    ASSUME Inv, ParseOther \/ ParseOtherNested
    PROVE  Inv'
<1>1. /\ pc = "parse"
      /\ \/ /\ pc' = "idle" /\ told' = "read" /\ call' = Ended
            /\ result.ptr /\ MayReadEarlier
         \/ pc' = "undefined" /\ UNCHANGED <<told, call>>
      /\ UNCHANGED <<protocol, json, result, response, live, id, node, lost>>
  BY SMT DEF ParseOther, ParseOtherNested, NothingParsed, End, Ended, buffers, MayReadEarlier
<1>2. TypeOK'
  BY <1>1, EndedType, SMT DEF Inv, TypeOK, CallType
<1>3. BuffersFit' /\ HeapBalanced'
  BY <1>1, SMT DEF Inv, BuffersFit, HeapBalanced
<1>4. AnswerInv'
  BY <1>1, SameAnswer, SameReads, EndedType, SMT DEF Inv, AnswerInv, CallInv, Running
<1>5. CallInv' /\ ContextInv'
  BY <1>1, SMT DEF Inv, CallInv, ContextInv, Running
<1> QED
  BY <1>2, <1>3, <1>4, <1>5 DEF Inv

\* What a buffer is after the call was noted that its text is from.
LEMMA Marked ==
    ASSUME NEW buf \in FieldType, NEW i \in Nat
    PROVE  LET marked == [buf EXCEPT !.of = i]
           IN  /\ marked \in FieldType
               /\ marked.of = i /\ marked.ptr = buf.ptr
               /\ marked.space = buf.space /\ marked.len = buf.len
  BY Zenon DEF FieldType

\* A result that was written is that of the call, and fits.
LEMMA ResultRead ==
    ASSUME Inv, NEW n \in Nat, n < result.space, protocol # NoWallet,
           result' = [result EXCEPT !.len = n, !.of = id], End("read"),
           UNCHANGED <<protocol, json, response, live, id, node, lost>>
    PROVE  Inv'
<1>1. result \in FieldType /\ json \in FieldType /\ id \in Nat
  BY FieldTypes, Zenon DEF Inv, TypeOK
<1>2. result.ptr
  BY SMT DEF Inv, BuffersFit
<1>3. /\ result' \in FieldType /\ result'.len = n /\ result'.of = id
      /\ result'.ptr = result.ptr /\ result'.space = result.space
  <2>1. result' = [[result EXCEPT !.len = n] EXCEPT !.of = id]
    BY <1>1, Zenon DEF FieldType
  <2>2. PICK written \in FieldType : /\ written = [result EXCEPT !.len = n]
                                    /\ written.len = n /\ written.ptr = result.ptr
                                    /\ written.space = result.space
    BY <1>1, Written, Zenon
  <2>3. result' = [written EXCEPT !.of = id]
    BY <2>1, <2>2, Zenon
  <2>4. PICK marked \in FieldType : /\ marked = [written EXCEPT !.of = id]
                                   /\ marked.of = id /\ marked.ptr = written.ptr
                                   /\ marked.space = written.space
                                   /\ marked.len = written.len
    BY <1>1, Marked, Zenon
  <2>5. result' = marked
    BY <2>3, <2>4, Zenon
  <2> QED
    BY <2>2, <2>4, <2>5, Zenon
<1>4. result'.ptr
  BY <1>2, <1>3, Zenon
<1>5. pc' = "idle" /\ told' = "read" /\ call' = Ended
  BY Zenon DEF End, Ended
<1>6. TypeOK'
  BY <1>1, <1>3, <1>5, EndedType, SMT DEF Inv, TypeOK, FieldType, CallType
<1>7. BuffersFit'
  <2>1. \A s \in {result'.space, response'.space} : s <= MaxAnswer + Step
    BY <1>3, SMT DEF Inv, BuffersFit
  <2>2. result'.len < result'.space
    BY <1>3, Zenon
  <2> QED
    BY <1>4, <2>1, <2>2, SMT DEF Inv, BuffersFit
<1>8. HeapBalanced'
  BY <1>3, Zenon DEF Inv, HeapBalanced
<1>9. AnswerInv'
  BY <1>3, <1>4, <1>5, SMT DEF Inv, AnswerInv
<1>10. ContextInv'
  BY <1>3, <1>5, SMT DEF Inv, ContextInv
<1>11. CallInv'
  BY <1>5, SMT DEF CallInv, Running
<1> QED
  BY <1>6, <1>7, <1>8, <1>9, <1>10, <1>11 DEF Inv

LEMMA InvParseOtherCita ==
    ASSUME Inv, ParseOtherCita
    PROVE  Inv'
<1>1. CASE result.ptr
  <2>1. 4 < result.space
    BY <1>1, Web3Assumption, SMT DEF Inv, ContextInv, TypeOK
  <2>2. protocol # NoWallet
    BY SMT DEF ParseOtherCita, NoWallet
  <2>3. 4 \in Nat
    BY SMT
  <2> QED
    BY <1>1, <2>1, <2>2, <2>3, ResultRead, Zenon DEF ParseOtherCita
<1>2. CASE ~result.ptr
  <2>1. /\ pc = "parse" /\ pc' = "undefined"
        /\ UNCHANGED <<protocol, json, result, response, live, id, call, node, lost, told>>
    BY <1>2, Zenon DEF ParseOtherCita
  <2>2. TypeOK' /\ BuffersFit' /\ HeapBalanced'
    BY <2>1, SMT DEF Inv, TypeOK, BuffersFit, HeapBalanced
  <2>3. AnswerInv' /\ CallInv' /\ ContextInv'
    BY <2>1, SameAnswer, SameReads, SMT DEF Inv, AnswerInv, CallInv, ContextInv, Running
  <2> QED
    BY <2>2, <2>3 DEF Inv
<1> QED
  BY <1>1, <1>2

LEMMA InvCopyResult ==
    ASSUME Inv, CopyResult
    PROVE  Inv'
<1>1. /\ pc = "copy" /\ call.text < result.space
      /\ result' = [result EXCEPT !.len = call.text, !.of = id]
      /\ End("read")
      /\ UNCHANGED <<protocol, json, response, live, id, node, lost>>
  BY Zenon DEF CopyResult
<1>2. call.text \in Nat /\ protocol # NoWallet
  BY <1>1, SMT DEF Inv, TypeOK, ContextInv, Running
<1> QED
  BY <1>1, <1>2, ResultRead, Zenon

LEMMA InvGrowResult ==
    ASSUME Inv, GrowResult
    PROVE  Inv'
<1>1. PICK memory \in BOOLEAN :
         /\ result' = malloc_size_expand(result, memory)
         /\ live' = Reallocated("result", result, memory)
         /\ IF memory THEN UNCHANGED <<pc, told, call>> ELSE End("error")
  BY Zenon DEF GrowResult
<1>2. /\ pc = "copy" /\ call.text >= result.space
      /\ UNCHANGED <<protocol, json, response, id, node, lost>>
  BY Zenon DEF GrowResult
<1>3. json \in FieldType /\ result \in FieldType
  BY FieldTypes DEF Inv
<1>4. /\ result' \in FieldType
      /\ result'.len = 0
      /\ memory => result'.ptr /\ result'.space = result.space + Step
      /\ ~memory => ~result'.ptr /\ result'.space = 0
  BY <1>1, <1>3, Expanded, Zenon
<1>5. protocol # NoWallet
  BY <1>2, SMT DEF Inv, ContextInv, Running
<1>6. HeapBalanced' /\ live' \in [Blocks -> 0 .. 1]
  <2>1. live' = [live EXCEPT !["result"] = IF memory THEN 1 ELSE 0]
    BY <1>1, <1>5, LiveCounts, ReallocatedOnce, Zenon DEF Blocks
  <2> QED
    BY <2>1, <1>2, <1>4, <1>5, LiveCounts, SMT DEF Inv, HeapBalanced, Blocks
<1>7. /\ pc' = IF memory THEN "copy" ELSE "idle"
      /\ told' = IF memory THEN told ELSE "error"
      /\ call' = IF memory THEN call ELSE Ended
  BY <1>1, <1>2, Zenon DEF End, Ended
<1>8. TypeOK'
  BY <1>2, <1>3, <1>4, <1>6, <1>7, EndedType, SMT DEF Inv, TypeOK, FieldType, CallType
<1>9. BuffersFit'
  <2>1. result.space \in Nat /\ call.text \in Nat /\ response.len \in Nat /\ node.len \in 0 .. MaxAnswer
    BY <1>2, <1>3, SMT DEF Inv, TypeOK, FieldType
  <2>2. result.space <= MaxAnswer
    BY <2>1, <1>2, Web3Assumption, SMT DEF Inv, CallInv, AnswerInv
  <2>3. result'.ptr => result'.space = result.space + Step /\ result'.len = 0
    BY <1>4, Zenon
  <2>4. ~result'.ptr => result'.space = 0 /\ result'.len = 0
    BY <1>4, Zenon
  <2>5. result'.space <= MaxAnswer + Step
    <3>1. result'.space = result.space + Step \/ result'.space = 0
      BY <2>3, <2>4, Zenon
    <3> QED
      BY <2>1, <2>2, <3>1, Web3Assumption, SMT
  <2>6. \A buf \in {json', result'} :
           IF buf.ptr THEN buf.len < buf.space ELSE buf.space = 0 /\ buf.len = 0
    BY <2>1, <2>3, <2>4, <1>2, Web3Assumption, SMT DEF Inv, BuffersFit
  <2> QED
    BY <2>5, <2>6, <1>2, SMT DEF Inv, BuffersFit
<1>10. result'.ptr => result'.space >= Step
  <2>1. result'.ptr => result'.space = result.space + Step
    BY <1>4, Zenon
  <2> QED
    BY <1>3, <2>1, Web3Assumption, SMT DEF FieldType
<1>11. AnswerInv'
  <2>1. told = "nothing"
    BY <1>2, SMT DEF Inv, CallInv, Running
  <2> QED
    BY <1>2, <1>7, <2>1, SameAnswer, SMT DEF Inv, AnswerInv
<1>12. CallInv' /\ ContextInv'
  BY <1>2, <1>5, <1>7, <1>10, SMT DEF Inv, CallInv, ContextInv, Running
<1> QED
  BY <1>6, <1>8, <1>9, <1>11, <1>12 DEF Inv

-----------------------------------------------------------------------------
(* The theorems.                                                           *)

LEMMA InvStutters ==
    ASSUME Inv, UNCHANGED vars
    PROVE  Inv'
<1> USE DEF vars
<1>1. TypeOK' /\ BuffersFit' /\ HeapBalanced'
  BY SMT DEF Inv, TypeOK, BuffersFit, HeapBalanced
<1>2. AnswerInv' /\ CallInv' /\ ContextInv'
  BY SameAnswer, SameReads, SMT DEF Inv, AnswerInv, CallInv, ContextInv, Running
<1> QED
  BY <1>1, <1>2 DEF Inv

LEMMA InvHolds == Spec => []Inv
<1>1. ASSUME Inv, [Next]_vars
      PROVE  Inv'
  <2>1. CASE Wallet
    BY <1>1, <2>1, InvMake, InvMakeFails, InvDeinit, Zenon DEF Wallet
  <2>2. CASE Calls
    BY <1>1, <2>2, InvCalls
  <2>3. CASE Work
    BY <1>1, <2>3, InvGrowRequest, InvRequest, InvChunk, InvRequestEnds, InvParse,
       InvParseOther, InvParseOtherCita, InvGrowResult, InvCopyResult, Zenon DEF Work
  <2> QED
    BY <1>1, <2>1, <2>2, <2>3, InvStutters, Zenon DEF Next
<1> QED
  BY <1>1, InvInit, PTL DEF Spec

\* Whatever allocation fails, a context and its buffers are what the code
\* takes them for (web3intf.c, curlport.c).
THEOREM Web3TypeCorrect == Spec => []TypeOK
  BY InvHolds, PTL DEF Inv

\* No request, chunk or result is written behind the end of its buffer, for
\* every step size and whatever sizes chunks have (curlport.c:91-118).
THEOREM BuffersNeverOverrun == Spec => []BuffersFit
  BY InvHolds, PTL DEF Inv

\* An answer holds nothing of another request, nothing twice and nothing out of
\* order, and is whole if there was memory for it; and the only calls that can
\* succeed with the string of an earlier one are those that read the child of
\* an object (curlport.c:91-118, boatethereum.c:548-622).
THEOREM AnswersAreWhole == Spec => []AnswerWhole
<1>1. Inv => AnswerWhole
  BY SMT DEF Inv, AnswerInv, AnswerWhole, Whole
<1> QED
  BY <1>1, InvHolds, PTL

\* The blocks of a context are freed exactly once, also the ones that lost
\* their memory while they grew (web3intf.c:97-123).
THEOREM ContextFreedOnce == Spec => []HeapBalanced
  BY InvHolds, PTL DEF Inv
=============================================================================
