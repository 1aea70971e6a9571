-------------------------------- MODULE Web3 --------------------------------
(***************************************************************************)
(* JSON-RPC over HTTP, as all wallets of the Ethereum family, FISCO-BCOS   *)
(* and CITA use it: the interface context of a wallet with its three       *)
(* growing buffers, the request of a web3 call, the answer that libcurl    *)
(* delivers in chunks, and the string which is parsed out of it.           *)
(*                                                                         *)
(* Texts are abstracted to their lengths and to what they are the text of: *)
(* a chunk is the id of its request and its number.  Memory may be short   *)
(* at each allocation, a request may fail at any moment.  Once the code    *)
(* has freed an unset pointer or read through a null one, anything could   *)
(* follow: "undefined".                                                    *)
(***************************************************************************)
EXTENDS Integers, Sequences

CONSTANTS
    Step,         \* WEB3_STRING_BUF_STEP_SIZE and CURLPORT_RECV_BUF_SIZE_STEP
    Ids,          \* message ids are taken modulo this, 2^32 in the code
    RequestLens,  \* the lengths of requests
    ChunkSizes,   \* the sizes of the chunks that libcurl delivers
    MaxAnswer     \* bound: no answer of a node is longer

\* A step has room for the "null" of CITA and its terminator.
ASSUME Web3Assumption ==
    /\ Step \in Nat /\ Step > 4
    /\ Ids \in Nat /\ Ids > 0
    /\ RequestLens \subseteq Nat
    /\ ChunkSizes \subseteq Nat \ {0}
    /\ MaxAnswer \in Nat

\* Venachain and PlatONE make the calls of Ethereum.
Protocols == {"ethereum", "platon", "quorum", "fiscobcos", "cita"}
NoWallet == "none"
Blocks == {"context", "json", "result", "port", "response"}

VARIABLES
    protocol,  \* of the wallet that has an interface context
    json,      \* web3_json_string_buf
    result,    \* web3_result_string_buf
    response,  \* curlport_response
    live,      \* how often each block of the context is allocated
    id,        \* web3_message_id
    call,      \* length of the request; what its caller reads of the answer,
               \* kept when the call has ended
    node,      \* what libcurl delivered since the request was sent (external)
    lost,      \* was a chunk of it dropped (history)
    pc,        \* the next step of the call
    told       \* what the call ended with

vars == <<protocol, json, result, response, live, id, call, node, lost, pc, told>>
buffers == <<json, result, response, live>>

\* A fresh buffer holds the text of no call.
NoId == Ids
Field(space) == [ptr |-> TRUE, space |-> space, len |-> 0, of |-> NoId]
NullField == [ptr |-> FALSE, space |-> 0, len |-> 0, of |-> NoId]
Empty(space) == [space |-> space, len |-> 0, got |-> << >>]
Nothing == [len |-> 0, sent |-> << >>]
NoCall == [len |-> 0, reads |-> "raw", text |-> 0]

Init ==
    /\ protocol = NoWallet
    /\ json = NullField /\ result = NullField /\ response = Empty(0)
    /\ live = [b \in Blocks |-> 0]
    /\ id = 0
    /\ call = NoCall
    /\ node = Nothing /\ lost = FALSE
    /\ pc = "idle" /\ told = "nothing"

-----------------------------------------------------------------------------
(* The context of a wallet.                                                *)

Allocated(bs) == [b \in Blocks |-> IF b \in bs THEN live[b] + 1 ELSE live[b]]
Freed(bs) == [b \in Blocks |-> IF b \in bs THEN live[b] - 1 ELSE live[b]]

web3_init ==
    /\ pc = "idle" /\ protocol = NoWallet
    /\ protocol' \in Protocols
    /\ json' = Field(Step) /\ result' = Field(Step) /\ response' = Empty(Step)
    /\ live' = Allocated(Blocks)
    /\ id' \in 0 .. Ids - 1
    /\ told' = "nothing"
    /\ UNCHANGED <<call, node, lost, pc>>

\* Everything is freed again, also after CurlPortInit had no memory for its
\* context or its buffer.
web3_init_fails ==
    /\ pc = "idle" /\ protocol = NoWallet
    /\ told' = "error"
    /\ UNCHANGED <<protocol, buffers, id, call, node, lost, pc>>

\* No memory for one of the string buffers: the clean up frees pointers of
\* the context that were never set, if they happen not to be NULL.
web3_init_frees_unset ==
    /\ pc = "idle" /\ protocol = NoWallet
    /\ pc' = "undefined"
    /\ UNCHANGED <<protocol, buffers, id, call, node, lost, told>>

\* Mutant: the string buffers are freed without a look at their pointers.
web3_deinit_unchecked ==
    /\ pc = "idle" /\ protocol # NoWallet
    /\ live' = Freed(Blocks)
    /\ protocol' = NoWallet
    /\ json' = NullField /\ result' = NullField /\ response' = Empty(0)
    /\ told' = "nothing"
    /\ UNCHANGED <<id, call, node, lost, pc>>

web3_deinit ==
    /\ pc = "idle" /\ protocol # NoWallet
    /\ live' = Freed({"context", "port", "response"}
                     \cup (IF json.ptr THEN {"json"} ELSE {})
                     \cup (IF result.ptr THEN {"result"} ELSE {}))
    /\ protocol' = NoWallet
    /\ json' = NullField /\ result' = NullField /\ response' = Empty(0)
    /\ told' = "nothing"
    /\ UNCHANGED <<id, call, node, lost, pc>>

-----------------------------------------------------------------------------
(* The calls.  They differ in the request they write, in the protocols     *)
(* that use them, and in what the SDK reads of the answer: the string      *)
(* "result", a child of the object "result", a child of a child, or        *)
(* nothing: the application gets the raw answer.                           *)

Call(protocols, reads) ==
    /\ pc = "idle" /\ protocol \in protocols
    /\ id' = (id + 1) % Ids
    /\ told' = "nothing"
    /\ \E n \in RequestLens : call' = [len |-> n, reads |-> reads, text |-> 0]
    /\ pc' = "build"
    /\ node' = Nothing /\ lost' = FALSE
    /\ UNCHANGED <<protocol, buffers>>

HasCount == {"ethereum", "platon", "quorum"}

web3_getTransactionCount == Call(HasCount, "string")
web3_gasPrice == Call(HasCount \ {"quorum"}, "string")
web3_getBalance == Call(HasCount, "raw")
web3_getStorageAt == Call(HasCount, "raw")
web3_sendRawTransaction ==
    \/ Call(HasCount \ {"quorum"}, "string")
    \/ Call({"quorum"}, "grandchild")
web3_getTransactionReceiptStatus ==
    \/ Call(HasCount \ {"quorum"}, "child")
    \/ Call({"quorum"}, "grandchild")
web3_call == Call(HasCount \ {"platon"}, "raw")
platon_web3_call == Call({"platon"}, "raw")
web3_fillTransaction == Call({"quorum"}, "grandchild")
web3_sendRawPrivateTransaction == Call({"quorum"}, "grandchild")
web3_fiscobcos_call == Call({"fiscobcos"}, "raw")
web3_fiscobcos_sendRawTransaction == Call({"fiscobcos"}, "string")
web3_fiscobcos_getTransactionReceiptStatus == Call({"fiscobcos"}, "child")
web3_fiscobcos_getBlockNumber == Call({"fiscobcos"}, "string")
web3_cita_call == Call({"cita"}, "raw")
web3_cita_sendRawTransaction == Call({"cita"}, "child")
web3_cita_getTransactionReceiptStatus == Call({"cita"}, "child")
web3_cita_getBlockNumber == Call({"cita"}, "string")

\* A call with a NULL argument has only taken an id.
BadArgument ==
    /\ pc = "idle" /\ protocol # NoWallet
    /\ id' = (id + 1) % Ids
    /\ told' = "error"
    /\ UNCHANGED <<protocol, buffers, call, node, lost, pc>>

-----------------------------------------------------------------------------
(* The request.  A buffer grows by one step at a time: it is freed first,  *)
(* and the text is written again.                                          *)

malloc_size_expand(buf, memory) ==
    IF memory THEN Field(buf.space + Step) ELSE NullField

\* Mutant: the smaller block is not freed.
ReallocatedLeaks(b, buf, memory) ==
    [live EXCEPT ![b] = @ + (IF memory THEN 1 ELSE 0)]

\* The block of a buffer before and after it grew.
Reallocated(b, buf, memory) ==
    [live EXCEPT ![b] = @ - (IF buf.ptr THEN 1 ELSE 0) + (IF memory THEN 1 ELSE 0)]

End(what) == pc' = "idle" /\ told' = what /\ call' = [NoCall EXCEPT !.reads = call.reads]

GrowRequest ==
    /\ pc = "build" /\ call.len >= json.space
    /\ \E memory \in BOOLEAN :
          /\ json' = malloc_size_expand(json, memory)
          /\ live' = Reallocated("json", json, memory)
          /\ IF memory THEN UNCHANGED <<pc, told, call>> ELSE End("error")
    /\ UNCHANGED <<protocol, result, response, id, node, lost>>

\* Mutant: the length of the response before is kept.
CurlPortRequestUncleared ==
    /\ pc = "build" /\ call.len < json.space
    /\ json' = [json EXCEPT !.len = call.len]
    /\ pc' = "receive"
    /\ UNCHANGED <<protocol, result, response, live, id, call, node, lost, told>>

\* The buffer holds the request: the response is cleared and the request sent.
CurlPortRequestSync ==
    /\ pc = "build" /\ call.len < json.space
    /\ json' = [json EXCEPT !.len = call.len]
    /\ response' = Empty(response.space)
    /\ pc' = "receive"
    /\ UNCHANGED <<protocol, result, live, id, call, node, lost, told>>

-----------------------------------------------------------------------------
(* The answer.                                                             *)

Deliver(n) ==
    /\ pc = "receive" /\ node.len + n <= MaxAnswer
    /\ node' = [len |-> node.len + n, sent |-> Append(node.sent, <<id, Len(node.sent)>>)]
    /\ UNCHANGED <<protocol, json, result, live, id, call, pc, told>>

Stored(n, space) ==
    [space |-> space, len |-> response.len + n,
     got |-> Append(response.got, <<id, Len(node.sent)>>)]

ChunkFits(n) ==
    /\ response.space - response.len > n
    /\ response' = Stored(n, response.space)
    /\ UNCHANGED lost

\* Mutant: no byte for the terminator.
ExpandStepsShort(n) == (n - (response.space - response.len) - 1) \div Step + 1

\* The number of steps that hold what is missing, and a terminator.
ExpandSteps(n) == (n - (response.space - response.len)) \div Step + 1

ChunkGrows(n) ==
    /\ response.space - response.len <= n
    /\ response' = Stored(n, ExpandSteps(n) * Step + response.space)
    /\ UNCHANGED lost

\* libcurl is told that the chunk was written.
ChunkLost(n) ==
    /\ response.space - response.len <= n
    /\ lost' = TRUE
    /\ UNCHANGED response

CurlPortWriteMemoryCallback ==
    \E n \in ChunkSizes :
        /\ Deliver(n)
        /\ ChunkFits(n) \/ ChunkGrows(n) \/ ChunkLost(n)

\* libcurl or the node fails, or half a minute is over.
RequestFails ==
    /\ pc = "receive"
    /\ End("error")
    /\ UNCHANGED <<protocol, buffers, id, node, lost>>

\* Status 200 or 201: the caller gets a pointer to the response buffer.
RequestDone ==
    /\ pc = "receive"
    /\ IF call.reads = "raw" THEN End("raw") ELSE pc' = "parse" /\ UNCHANGED <<told, call>>
    /\ UNCHANGED <<protocol, buffers, id, node, lost>>

-----------------------------------------------------------------------------
(* The string in the answer.                                               *)

\* No JSON, no "result", or one that is no string and no object, or null.
ParseFails ==
    /\ pc = "parse"
    /\ End("error")
    /\ UNCHANGED <<protocol, buffers, id, node, lost>>

\* The string is part of the text that was received.
ParseString ==
    /\ pc = "parse"
    /\ \E n \in 0 .. response.len - 1 : call' = [call EXCEPT !.text = n]
    /\ pc' = "copy"
    /\ UNCHANGED <<protocol, buffers, id, node, lost, told>>

\* A success without a result: the SDK reads what is left in the buffer.
NothingParsed ==
    /\ response.len > 0
    /\ IF result.ptr THEN End("read") ELSE pc' = "undefined" /\ UNCHANGED <<told, call>>
    /\ UNCHANGED <<protocol, buffers, id, node, lost>>

\* The child is no string.  (A call for a string asks for the child "", and no
\* node is taken to answer with an object that has a member of that name.)
ParseOther ==
    /\ pc = "parse" /\ protocol # "cita" /\ call.reads = "child"
    /\ NothingParsed

\* Quorum: the child is no string and no object, or its child is no string.
ParseOtherNested ==
    /\ pc = "parse" /\ call.reads = "grandchild"
    /\ NothingParsed

\* CITA writes "null" then, whether there is a buffer or not.
ParseOtherCita ==
    /\ pc = "parse" /\ protocol = "cita" /\ call.reads = "child" /\ response.len > 0
    /\ IF result.ptr
       THEN /\ result' = [result EXCEPT !.len = 4, !.of = id]
            /\ End("read")
       ELSE /\ pc' = "undefined"
            /\ UNCHANGED <<result, told, call>>
    /\ UNCHANGED <<protocol, json, response, live, id, node, lost>>

GrowResult ==
    /\ pc = "copy" /\ call.text >= result.space
    /\ \E memory \in BOOLEAN :
          /\ result' = malloc_size_expand(result, memory)
          /\ live' = Reallocated("result", result, memory)
          /\ IF memory THEN UNCHANGED <<pc, told, call>> ELSE End("error")
    /\ UNCHANGED <<protocol, json, response, id, node, lost>>

CopyResult ==
    /\ pc = "copy" /\ call.text < result.space
    /\ result' = [result EXCEPT !.len = call.text, !.of = id]
    /\ End("read")
    /\ UNCHANGED <<protocol, json, response, live, id, node, lost>>

-----------------------------------------------------------------------------
Wallet == web3_init \/ web3_init_fails \/ web3_init_frees_unset \/ web3_deinit

Calls ==
    \/ web3_getTransactionCount \/ web3_gasPrice \/ web3_getBalance
    \/ web3_getStorageAt \/ web3_sendRawTransaction
    \/ web3_getTransactionReceiptStatus \/ web3_call \/ platon_web3_call
    \/ web3_fillTransaction \/ web3_sendRawPrivateTransaction
    \/ web3_fiscobcos_call \/ web3_fiscobcos_sendRawTransaction
    \/ web3_fiscobcos_getTransactionReceiptStatus \/ web3_fiscobcos_getBlockNumber
    \/ web3_cita_call \/ web3_cita_sendRawTransaction
    \/ web3_cita_getTransactionReceiptStatus \/ web3_cita_getBlockNumber
    \/ BadArgument

Work ==
    \/ GrowRequest \/ CurlPortRequestSync
    \/ CurlPortWriteMemoryCallback \/ RequestFails \/ RequestDone
    \/ ParseFails \/ ParseString \/ ParseOther \/ ParseOtherNested \/ ParseOtherCita
    \/ GrowResult \/ CopyResult

Next == Wallet \/ Calls \/ Work

Spec == Init /\ [][Next]_vars

-----------------------------------------------------------------------------
\* Every variable stays in its type; the types bound the buffers too.
TypeOK ==
    /\ protocol \in Protocols \cup {NoWallet}
    /\ \A buf \in {json, result} : buf \in [ptr : BOOLEAN, space : Nat, len : Nat, of : Nat]
    /\ response \in [space : Nat, len : Nat, got : Seq(Nat \X Nat)]
    /\ live \in [Blocks -> 0 .. 1]
    /\ id \in Nat /\ id < Ids
    /\ call \in [len : RequestLens \cup {0}, reads : {"raw", "string", "child", "grandchild"},
                 text : Nat]
    /\ node \in [len : 0 .. MaxAnswer, sent : Seq(Nat \X Nat)]
    /\ lost \in BOOLEAN
    /\ pc \in {"idle", "build", "receive", "parse", "copy", "undefined"}
    /\ told \in {"nothing", "error", "raw", "read"}

\* No text is longer than its buffer holds with its terminator, whatever
\* growth came before and also after one that had no memory; and no buffer is
\* more than a step larger than the longest text it may have to hold
\* (boatutility.c:651-670, curlport.c:91-118).
BuffersFit ==
    /\ \A buf \in {json, result} :
          IF buf.ptr THEN buf.len < buf.space ELSE buf.space = 0 /\ buf.len = 0
    /\ protocol # NoWallet => response.len < response.space
    /\ \A s \in {result.space, response.space} : s <= MaxAnswer + Step
    /\ json.space > Step => \E n \in RequestLens : json.space <= n + Step

\* The chunks in the response are chunks of the current request, in the order
\* in which they came, and none is there twice.
OwnInOrder ==
    \A i \in DOMAIN response.got :
        /\ response.got[i][1] = id
        /\ response.got[i][2] < Len(node.sent)
        /\ \A j \in DOMAIN response.got : j < i => response.got[j][2] < response.got[i][2]

\* The calls whose success may leave the result buffer as it was: those that
\* read a child of an object, but for CITA.
MayReadEarlier ==
    \/ call.reads = "grandchild"
    \/ call.reads = "child" /\ protocol # "cita"

\* Of an answer that is handed out or parsed, nothing is left over from an
\* earlier one, and nothing is twice or out of order; it is whole, with the
\* length that was delivered, if there was memory for every chunk (where there
\* was none, curlport.c:105 drops the chunk and the answer has a hole).  And a
\* success of which the SDK reads a string, be it from its own answer or not,
\* has a buffer; only a call that reads the child of an object can find the
\* string of an earlier call there (boatethereum.c:585-588): a nonce, a gas
\* price, a block number, the hash of a transaction of all but CITA and
\* Quorum, and whatever CITA reads, is from the call's own answer
\* (curlport.c:91-118, 277-278, boatethereum.c:548-622, boatcita.c:331).
AnswerWhole ==
    /\ (told = "raw" \/ pc \in {"parse", "copy"}) =>
          /\ OwnInOrder
          /\ ~lost => response.got = node.sent /\ response.len = node.len
    /\ told = "read" => result.ptr /\ (result.of = id \/ MayReadEarlier)

\* Each block of the context is allocated once while a wallet has it and not at
\* all afterwards, whichever growth had no memory (web3intf.c:59-124).
HeapBalanced ==
    \A b \in Blocks :
        live[b] = IF \/ protocol = NoWallet
                     \/ b = "json" /\ ~json.ptr
                     \/ b = "result" /\ ~result.ptr
                  THEN 0 ELSE 1
=============================================================================
