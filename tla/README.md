# BoAT-X framework: models, checks and proofs

The repository holds the BoAT-X framework, a blockchain SDK for devices in C
(`src/BoAT-X-Framework`), and a small application around it: a tunnel daemon in C++, two
pieces of a Java back end and an Android app. The logic of its own that is hard to
get right is in the SDK: a key store and a network store in flash that are updated with
several unprotected writes, transactions that talk to peers which fail, calls that take memory
step by step and must give it back from wherever they end, and the bytes that are signed and sent.
This directory holds TLA+ modules of that logic, TLC configurations that check them on small
instances, and TLAPS proofs for all instances.

Paths below are relative to `src/BoAT-X-Framework` unless they begin with `src/`.

    tlc -config Keystore_failures.cfg MCKeystore.tla      # any run, see the table of runs
    tlapm KeystoreProofs.tla                              # proofs; the other seven:
    # ProtocolProofs FabricTxProofs EthTxProofs IdTxProofs ChainmakerTxProofs RawTxProofs Web3Proofs

## 1. The system

| component | source | state it keeps | operations |
|---|---|---|---|
| Keypair store | `sdk/keypair/boatkeypair.c`, `vendor/keystore/soft/boat_keystore.c`, `vendor/common/storage/persiststore.c` | two lists in one flash file: keypairs (index, name, public key) and private keys (index, key), each behind a four byte count; the onetime keypair in RAM | create and delete, persistent or onetime; list, lookup by index, next free index |
| Network configurations | `sdk/network/*/network_*.c` (ten protocols) | one list in flash shared by all protocols; one onetime network in RAM | create, delete, lookup, list, free |
| Wallets | `sdk/wallet/api_*.c` (ten protocols), generated contract functions | a wallet: copies of a keypair and a network, the RPC context; a tx with its fields | init and deinit of wallet and tx, setters, transfer, contract call, send, query |
| Ethereum transaction | `sdk/wallet/api_ethereum.c`, `sdk/protocol/boatethereum` and relatives | the tx: nonce, value, hash of the last sending | transfer, send, wait for the receipt |
| FISCO-BCOS and CITA transaction | `sdk/wallet/api_fiscobcos.c`, `api_cita.c`, `sdk/protocol/boatfiscobcos`, `boatcita` | the tx: random nonce, block limit | init, send, wait for the receipt |
| Transactions of the Ethereum family | `sdk/protocol/boat{ethereum,platon,platone,venachain,quorum,fiscobcos}` | the list of fields, the streams, the signature | build, sign and post a raw transaction |
| Fabric transaction | `sdk/wallet/api_hlfabric.c`, `sdk/protocol/boathlfabric`, `sdk/protocol/common/http2intf` | the tx: nonce, endorsements and their count, result of an evaluation; the receive buffer of the connection | init, deinit, evaluate, submit |
| HW-BCS transaction | `sdk/wallet/api_hw_bcs.c`, `sdk/protocol/boathwbcs` | as Fabric | as Fabric |
| Chainmaker transaction | `sdk/wallet/api_chainmaker.c`, `sdk/protocol/boatchainmaker_v2` | the tx, the answer of the node | invoke (polled when synchronous), query |
| RPC over HTTP | `vendor/platform/linux-default/src/rpc/curlport.c`, `rpcintf.c`, `sdk/protocol/common/web3intf/web3intf.c` and the parsers of the answers | a request, a response buffer that grows chunk by chunk, a string buffer for the result | init, deinit, one function per RPC |
| Encodings | `sdk/rlp`, `sdk/utilities` | none | RLP, big endian integers, length-value fields, hex, base64 |
| Platform port, crypto, TLS | `vendor/platform/linux-default` | sockets, files | connect, send, receive, sign, read and write of a file |
| Ports to cellular modules | `vendor/platform/*` | per device | as above |
| Vendored and generated code, demos and tests | `sdk/third-party`, protobuf code, `demo`, `tests` | | |
| Tunnel daemon | `src/source` | a flag and a closed library | start, wait for a signal |
| VCPE controllers, data middleware | `src/VCPE交互代码`, `src/数据协议中间件交互代码` | none here (database and queue are elsewhere) | HTTP handlers, MQTT and TCP callbacks |
| Android application | `src/app` | user interface | |

How they interact. A wallet is made from the index of a keypair and the index of a network: it
reads both stores, copies what it finds, and later signs with the private key found in the
keystore *under the same index*. A transaction uses the wallet, builds a request with the
encodings, and sends it over HTTP (JSON-RPC, the Ethereum family; gRPC's own client for Chainmaker) or
over HTTP/2 (Fabric and HW-BCS). Calls are synchronous and the SDK takes no lock: `BoatIotSdkInit` has
the place for it (`sdk/keypair/boatkeypair.c:1305`, "For Multi-Thread Support: CreateMutex Here"). So what
interleaves with a call is not another call but the outside: power, storage, memory, and peers.

What is hard, and what makes each component correct:

* **Keypair store.** A create is four writes, a delete is four, in two lists, and each can fail
  or be the last one before a power loss; on a failed write the code tries to undo. It is correct when
  both lists stay readable, when the index of a keypair never finds another one's private key, when a
  call either does what it reports or changes nothing, and when a failure costs no keypair but the one in hand.
* **Network configurations.** The same with one list, ten writers that know only their own
  records, and an undo with a different mistake in each branch. Correct: every network counted can be
  found, a call touches only its network, a list returns what is there.
* **Wallets.** A call is a dozen steps, each of which may fail and none of which undoes the ones in front of it.
  Correct: what is sent is what the application last asked for, whatever call failed in between, and memory is
  given back.
* **Transactions.** Requests and answers are lost, the wait for a receipt ends before the
  transaction does, a nonce is read from the node each time (Ethereum) or drawn for each call (FISCO-BCOS, CITA).
  Correct: nothing is executed twice, a success is the success of *this* transaction, what
  an orderer gets carries enough endorsements by different endorsers, all of one proposal.
* **Raw transactions.** Two lists of fields, one hashed and one sent, share the encoder and half of the fields.
  Correct: the node can rebuild the signed list from the sent one; the length computed is the length written.
* **RPC, encodings.** Lengths: growth of a buffer, fields of one, two or three length bytes, limits
  at 55, 0xFF, 0xFFFF. Correct: what is decoded is what was encoded; no buffer is overrun; an answer is whole.

`PROJECT.json` lists every hazard at its line, with the properties that would show it going
wrong, or why there is none.

## 2. The modules

| module | what it is |
|---|---|
| `RecordRegion` | one list in the NVRAM file: count field, records, stale bytes behind them; the three writes the code does (`SetNum`, `Put`, `Drop`) |
| `Keystore`, `KeyVault`, `MCKeystore`, `KeystoreProofs` | create and delete of keypairs over two regions, one action per storage write; what the API promises: a table from index to key, changed in one step |
| `BoatProtocols` | the ten protocols |
| `NetworkStore`, `Networks`, `MCNetworks` | create, delete, list and free of networks over one region; what differs between the ten protocols |
| `Wallet`, `Wallets`, `MCWallets` | a wallet and a tx, one action per API call, a call as a sequence of steps; the calls of the ten protocols |
| `ProtocolProofs` | proofs about networks and wallets, the two components with a file for each protocol |
| `EthTx`, `MCEthTx`, `EthTxProofs` | transfer, repeated sending, wait for the receipt, and the node |
| `IdTx`, `MCIdTx`, `IdTxProofs` | the same for FISCO-BCOS and CITA: random nonce and block limit |
| `ChainmakerTx`, `MCChainmakerTx`, `ChainmakerTxProofs` | invoke, polled invoke and query, with the arguments and the answers on the heap |
| `FabricTx`, `HwbcsTx`, `MCFabricTx`, `FabricTxProofs` | evaluate and submit, one action per request; HW-BCS as the second chain |
| `Rlp` | the encoder, the lengths it computes, a strict decoder as reference |
| `RawTx`, `RawTxs`, `MCRawTx`, `RawTxProofs` | from the fields of a tx to the stream that is posted; the six functions that do it; proofs about them and about RLP |
| `Web3`, `MCWeb3`, `Web3Proofs` | the context of a wallet: request, response and string buffer |

The `MC` modules give the constants their values; `*Proofs` modules extend the module of their component and hold
theorems only. `NetworkStore` and `Wallet` hold the operations with what a protocol does differently as parameters; `Networks` and `Wallets`
have one action per function of each protocol, read from ten files that were copied from each other and changed since.

### Keystore (and RecordRegion)

`kp` and `pk` are the regions `BOAT_STORE_KEYPAIR` and `BOAT_STORE_PRIKEY`, `onetime` says which of the two
RAM arrays hold index 0, `pc` names the next storage write of the running call and `loc` its
locals. An action is the code from one write to the next, so each state between two actions
is one that a power loss leaves in flash.

| code | actions |
|---|---|
| `BoatKeypairCreate` up to the index | `CreateFlash` |
| `BoATKeypair_DataCtx_Store` | `StoreRecord`, `StoreNum` (shared with the restore: `AppendKeypair`) |
| `BoAT_Keystore_store_prikey` | `CheckPrikey`, `PrikeyRecord`, `PrikeyNum` |
| `BoATIotKeypairDelete`, called by the application or to take a failed create back | `DeleteFlash`, `FindKeypair`, `DeleteNum`, `DeleteData`, `DeleteUndo`, `RestoreRecord`, `RestoreNum` |
| `BoAT_DeletePirkeyByIndex` | `FindPrikey`, `DeletePrikeyNum`, `DeletePrikeyData`, `DeletePrikeyUndo` |
| index 0 | `CreateOnetime`, `DeleteOnetime` |
| power loss and restart | `Crash` |

Failures are chosen freely up to `MaxFaults`: a failed write (which writes nothing), a failed
allocation, a failed read, a crash. Records of a region have the same length, which holds for names of equal
length; then a record written at position p covers exactly the p-th one. A freshly generated key differs
from those stored. `Fits` is the number of records that `BOAT_STORAGE_KEYPAIR_MAXLEN` has room for.

`KeyVault` is the abstract specification. The refinement mapping takes the keypairs that can be *used*
(in both lists), where "in the list" is what the list held when a call began until the write that
decides: a count that was taken down and may be put back has not removed anything yet. So a keypair that a failed roll back
leaves in the list without a private key (`sdk/keypair/boatkeypair.c:1048`) is not in the table: it cannot sign, and the hazards name it.
The onetime keypair stands beside the table and has less: a failed onetime create may cost the one that was there before.

### NetworkStore and Networks

`flash` is the shared list, `ram` the onetime network. The record is stored by three writes (protocol, index,
data), so a store can leave a torn record *behind* the count. The undo of a delete is as the code has it:
for the last record the old count is written over the record itself, which hides it as the delete
should, and the delete succeeds; a failed read or allocation in front of the move returns without
any undo. `Networks` has the functions of the ten files; they differ in what happens without memory while a record is packed or
read (an error, a leak, or the end of the program). No file looks into the records of another protocol, so the
run takes the ten in five pairs: records of one's own and of one other are all there is to tell apart (the proofs
take any set of protocols). A list is made by the loop over the records (`Own`), then the onetime network.

Records are abstracted to their owner and index. Their lengths differ, but a stale record becomes visible only right after
the undo of its own delete, so that equal lengths lose nothing. Left out: a record that could not be packed and is stored
hollow (the `-1` of `add_L_withOffset`, `sdk/utilities/boatutility.c:938`, is ignored by the four protobuf files), and a failed
read of the count, which passes for an empty list (as in the keypair store).

### Wallet and Wallets

One action is one call of the API. A call is a sequence of steps (take a value that the application gave, parse one, ask the
node, draw a random number, clear a field, check that one is set), and it may end at each step that can fail, with the
steps before done (`Ends`); of the steps that set a field the last one decides (`After`). A field holds the number of the call that set it (0: zeroed), `want` what the application last
asked for each field, `posted` what was sent, what was wanted then, and whether the data it points to was still there.
`heap` holds the blocks that are allocated, `wallet` and `txs` the pointers: the application's to its wallet, the wallet's to its
parts, and those of two Fabric or HW-BCS txs to their strings and to the wallet. `orphans` has the calls that left blocks behind.

The application keeps the rules of the headers: it sends when every field was set; after `TX_PENDING` it repeats with
`TxSend` and after any other error begins again with the setters; it keeps its own data until it was sent. Where the code has
rules of its own they are in the model: the data of a PlatONE transfer lives in the frame of that call
(`sdk/wallet/api_platone.c:641`), so it must not be repeated; a contract call sends the value that is in the tx. Fabric and HW-BCS
copy strings when a tx begins; without memory for one they free the *addresses* of the fields, and the program ends
(`Dies`). Their `TxDeInit` frees the wallet too, against its own comment, and the tx keeps its pointer to it. The application may
free wallets and txs in any order, use two txs with one wallet, free a tx twice, begin it again without freeing it, and go on with a pointer to a wallet that a
tx has freed: the call that follows such a pointer ends the program. What each file frees is a set of its own
(`EthereumFrees`, `HlfabricFrees`, ...), read from its `WalletDeInit`, and not what the wallet happens to hold. http2 contexts may be freed by
the function that makes them and still be pointed to (`sdk/protocol/common/http2intf/http2intf.c:271`).

`HeapBalanced` says which leaks and dangling pointers there are and that there are no others: blocks are lost by a wallet initialisation that fails and by
a tx that is begun again, never a connection; what a live wallet and a tx point to is allocated, but for such a context; the application's
pointer dangles only beside a tx of that wallet. Queries and the configuration of a wallet are `Ask`. Not here: private
transactions of Quorum (in `RawTx`), the node list of PlatONE, what a query answers (in `Web3`).

### EthTx

`tx` is the `BoatEthTx` (nonce, value, hash), `pool` and `mined` the external node: one pending transaction
for a nonce, nonces mined in order, anything pending may be dropped, refused or replaced; a request or an answer may be
lost. The application asks for each payment with one `BoatEthTransfer`, goes on when that was a success, and
repeats a failed one with `BoatEthTxSend`, which keeps the nonce (a second `BoatEthTransfer` could
pay again: the SDK cannot tell). Only this wallet uses the account, and the node that is asked is not behind the
chain. With `IsSync` the call waits for the receipt.

### IdTx

Here the nonce is a random number and the tx carries the last block in which it may be mined: `Limit[chain]` above the
height that the node told (500 for FISCO-BCOS, 100 for CITA). The node (external) refuses a nonce it has pending or in its last `Window`
blocks and a limit it has passed; that it looks back as far as a limit reaches (`Limit <= Window`) is implied by
`sdk/wallet/api_fiscobcos.c:187` and `:220` and is the assumption of everything here. `TxInit` and `GetBlockNumber` begin a tx,
`Prepare` draws the nonce and sets the call, `TxSend`, `Send` and `Poll` send it and wait. The application may send what it prepared as often as
it likes, and prepares the same call again only when the limit it had is over and the call is not in the chain. The
generated contract functions draw a new nonce on each use, so they must not be used to repeat a call that is pending.

### ChainmakerTx

The default build, Chainmaker V2. The parameters of the call are copied into the tx one by one, the request is packed and sent, the
answer is kept in `tx_response` until the next call, and a synchronous invoke asks for the transaction by its id up to
`Retry` times. `heap` counts the blocks of parameters, requests and answers; the node is external and may lose, refuse, commit or
fail. With V1 `tx_response` is freed and not cleared, which is the mutant of `HeapBalanced`.

### FabricTx and HwbcsTx

`responses` is `tx_ptr->endorserResponse`, `buf` what the HTTP/2 callback has appended to the receive buffer,
`call` the indices of the loops, `envelope` the transaction offered to the orderers, `ledger` (external)
what orderers took. `AskEndorser` and `AskOrderer` are one request each, with every outcome: an error
or not, and all, some or none of the answer received. Two answers in one buffer, or a piece
and an answer, do not parse. An answer freed by the code and read again for the next orderer
(undefined behaviour) is taken for bytes that do not parse. Only the first layout is modelled: the
code returns before it gets to a second one.

`HwbcsTx` adds the other chain, which was made out of this one. Its step of the endorsers writes each good endorsement through
`parsePtr`, which is NULL there (`sdk/wallet/api_hw_bcs.c:92`, `:211`; it is set at `:307`, in the step of the orderers). So a call ends
with an error or with the program (`Dies`), no endorsement is ever kept, and the step of the orderers, which needs them, is not
reached; this is why it is not modelled.

### Rlp, RawTx and RawTxs

`Rlp` is `sdk/rlp/boatrlp.c` and the integer conversions of `sdk/utilities/boatutility.c`: strings are sequences of bytes, a list is a
sequence of strings (no protocol nests lists). The encoder computes the length of the stream, allocates it, and writes it
with a second computation of its own; `Decode` is the strict decoder of a node, the reference.

`RawTx` is what all six `XSendRawtx` do: append the fields, encode, hash and sign, put v, r and s into the list, encode again, post. Every
allocation may fail; `stream` has the bytes allocated and the bytes written, `held` and `lost` count blocks. The
node decodes the stream, takes chain id and parity from v and checks the signature against the list that it rebuilds.
`RawTxs` has the six functions field by field, in the order and with the conversions of each file, and the run checks those;
that each is a case of the general one is proved. Quorum's private transaction is sent with the hash the manager returned for the data.

Abstracted: the hex string in the request (its buffer is allocated from the length of the stream), nested lists, private transactions with EIP-155
(no v tells a node of both).

### Web3

The interface context of a wallet: the three buffers, the request of a call, the chunks libcurl delivers and the string parsed out of the
answer. Texts are lengths; a chunk is the id of its request and its number, and a result carries the id of the answer it was parsed from,
so that a stale or missing one is seen.
Ethereum stands for Venachain and PlatONE too, which make its calls; the parsers of five protocols are copies of each
other. After a pointer that was never set, or NULL, was used the model is in the state "undefined" and stops. A chunk without memory is dropped and
reported to libcurl as written (`curlport.c:105`), so an answer with a hole is a success: `lost` says so, and `AnswerWhole` says of it
only that its chunks are its own and in order. A call whose answer has an object without a string in it succeeds with the string of an earlier call
(`sdk/protocol/boatethereum/boatethereum.c:585`); `AnswerWhole` says which calls can: those that read the child of an object (`MayReadEarlier`), and no other.

## 3. Runs

| run | configuration | properties | what it shows |
|---|---|---|---|
| `keystore_failures` | 3 keypairs, 4 keys, one failure: write, allocation or crash | `TypeOK`, `KeyMatch`, `ListsReadable`, `LosesAtMostOne` | lists stay readable and in step; no index finds another one's key; a failure costs one keypair of others at most |
| `keystore_atomic` | 3 keypairs, 4 keys, room for 2 (the byte limit), one failed write or allocation | `ImplementsVault` | calls on persistent keypairs are atomic and their results are true; only a failed onetime create costs a keypair, the onetime one |
| `keystore_onetime` | 2 keypairs, no failure | `OnetimeErased` (violated) | deleting the onetime keypair keeps its private key |
| `network_failures` | ten protocols in five pairs, 3 networks, one failure: write, allocation or crash | `TypeOK`, `Addressed`, `ListsWhatIsFound`, `LosesAtMostOne`, `CallsAtomic` | every network counted is found and listed; a call touches its own network only |
| `wallet_safety` | ten protocols, 6 calls, 2 polls | `WalletsTypeOK`, `HeapBalanced`, `SentAsAsked` | a transaction is sent as it was asked for, whichever call failed in between; blocks are lost, and pointers dangle, in the ways that section 2 lists and no others |
| `fabric_safety` | both chains, groups of 2 and 3 endorsers with quotas 1 and 2, 2 orderers, 3 proposals | `TypeOK`, `EndorsedEnough`, `OneProposal`, `EvaluateFresh`, `Returns` | what an orderer gets is endorsed as configured; every call returns |
| `fabric_told` | the same, one proposal | `SubmitTold` (violated) | Submit succeeds although no orderer accepted |
| `eth_safety` | 3 payments, 2 polls, 4 sendings, synchronous | `TypeOK`, `PaidOnce`, `SyncMined`, `FreshNonce`, `Returns` | nothing is paid twice; success means mined; every call returns |
| `idtx_safety` | both chains, 2 calls, 3 sendings and nonces, height 4, windows equal to and larger than the limit | `TypeOK`, `ExecutedOnce`, `SyncMined` | nothing is executed twice, although nonces are random; success means mined |
| `chainmaker_safety` | 2 calls, 3 rounds, 2 invokes, 1 query | `TypeOK`, `SyncTold`, `ArgsKept`, `HeapBalanced` | a synchronous success is the success of this invoke; its arguments are its own; memory is given back |
| `rawtx_safety` | six protocols with and without EIP-155, integers of 16 bits, chain ids at the limits, data of 0 to 256 bytes on both sides of each RLP limit, 2 calls | `TypeOK`, `StreamExact`, `RoundTrip`, `SignatureHolds`, `Canonical`, `Freed` | the stream fills its memory, decodes to the fields and verifies; integers have no leading zeros, with three exceptions (section 4); memory is given back |
| `web3_safety` | five protocols, steps of 5, requests of 4 and 11, chunks of 4, 5 and 10, answers up to 10, 3 ids | `TypeOK`, `BuffersFit`, `AnswerWhole`, `HeapBalanced` | no buffer is overrun; an answer is whole but for dropped chunks; only calls that read the child of an object can tell an earlier string |

**Bounds.** Three keypairs (networks) are the fewest with a record in front of and one behind the deleted one, and a full list
is reached in every store run; four keys let a list be full while another key is generated. One
failure per behaviour is where the code claims to cope (its undo paths); with two, even the undo
fails, and `KeyMatch` does not hold (section 4). Crashes and failures happen at every write of every call, after any sequence of
calls: nothing bounds the number of store calls. The networks run leaves failed reads out: a failed read of the count
passes for an empty list, and indexes are given twice.
Six wallet calls are: make the wallet, begin a tx, set a field, send, begin again, send again, with a failure in any of them; or
make a wallet, begin two txs, free one, make another wallet, free the other.
In `FabricTx` one group has slack (2 for 1) and so
has the other with a quota above one (3 for 2); two orderers are the fewest with a second one;
three proposals let an evaluate and a submit follow a call that failed. In `EthTx` three payments let two be
mined before one is in doubt, four sendings let a payment be repeated; two polls are a first and a last one.
In `IdTx` a height of 4 lets the first limit (2 blocks) run out and the window (3) forget a nonce. Three rounds of Chainmaker are one
that fails before, at and after the answer. In `RawTx` the word is 16 bits in the run (TLC's integers are 32 bits signed) and
any up to 2^32 in the proofs. In `Web3` a step of 5 is the smallest that has room for the text "null"; requests and answers fit, fill a buffer but for the
terminator, and need one or two more steps.
The bounds `MaxProposals`, `MaxSends`, `MaxNonces`, `MaxHeight`, `MaxInvokes`, `MaxAsks` and `MaxCalls` cap counters that only grow.

**Symmetry** is used in runs with safety properties only: keys and payments are only compared for equality. Liveness is checked without it.

**Deadlock** is checked in the stores and in `FabricTx`. In `EthTx`, `IdTx`, `ChainmakerTx`, `RawTx` and `Wallets` the system may really stop:
everything was asked for or the calls are used up; in `RawTx` and `Web3` also because a call that freed or read an unset pointer may end the program.

**Fairness.** The stores, wallets, raw transactions and RPC have none, and no liveness property: a call is a straight line of code. In `FabricTx` the
steps of a call that was made are weakly fair: `BoatConnect` gives each socket a send and receive timeout of
500 ms (`vendor/platform/linux-default/src/port_crypto_default/boatplatform_internal.c:428`),
so a request ends whatever the peer does. In `EthTx` likewise: `CURLOPT_TIMEOUT_MS` is 30000
(`vendor/platform/linux-default/src/rpc/curlport.c:258`) and `BoatSleep` ends. Nothing is assumed of peers,
of the chain or of the application: `Returns` holds although no transaction is ever mined.

## 4. Findings and observations

Two runs show that the code does not do what it says; the quotations are in `PROJECT.json`.

1. `keystore_onetime`: `BoATIotKeypairDelete(0)` returns before the private key is deleted; the branch that would do it is never reached.
2. `fabric_told`: if the last orderer was reached, Submit returns success, whatever it answered.

The following was met while modelling. Where a model needs it, it follows the code; no run is spent on it.

* *Keypairs*: a second onetime create overwrites the record of the first; if it then finds no memory, it is taken back by `BoATIotKeypairDelete(0)` (`sdk/keypair/boatkeypair.c:1049`), and
  the earlier onetime keypair is gone. When the private key could not be erased and the count was put back, the delete returns success with the private key in place.
  Two power losses can pair an index with an older private key: one in a delete after the record of the keypair is gone and before the private key's
  is, and one in a later create of that index, between the count of the keypairs (`StoreNum`) and the look at the private keys (`CheckPrikey`) that would have found the old one.
* *Networks*: a hollow record when packing fails (`-1` of `add_L_withOffset`); a failed read of the count; lists of CITA and Chainmaker dimensioned one too
  small; `FreeNetworkContext` of three protocols goes over entries that only other protocols have, which were never filled.
* *Ethereum family*: any receipt is a success, also one with a status other than `0x1` (`sdk/wallet/api_ethereum.c:693`); the nonce is the number of *mined*
  transactions, so asynchronous transfers "continuously in a short time" (`include/protocolapi/api_ethereum.h:305`) have the
  same nonce; a contract call after a transfer on the same tx sends that transfer's value; a malformed value string is a transfer of 0
  (`api_ethereum.c:618`); an error of a transfer does not tell whether the value was set.
* *FISCO-BCOS, CITA*: a contract function used again after `TX_PENDING` draws a new nonce and may execute twice; CITA without memory for the answer returns success
  (`sdk/protocol/boatcita/boatcita.c:102`); `include/protocolapi/api_cita.h:260` says the nonce is from the network, and it is random; `BoatCitaTxSetQuotaLimit` has no return value.
* *Chainmaker*: an error may be told of a transaction that was submitted, so a repeat executes twice; `tests` expect success of an invoke of a contract
  that does not exist, V2 returns `BOAT_ERROR`.
* *Wallets*: `TxDeInit` of Fabric and HW-BCS frees the wallet and keeps the pointer (`sdk/wallet/api_hlfabric.c:597`), so the wallet freed as well, or the tx freed twice, frees a block twice;
  a failed initialisation of any wallet loses its blocks; `http2Init` without memory for its buffer returns a pointer to the context that it freed, which the release of the wallet frees again.
* *Fabric, HW-BCS*: a failed Submit leaves its endorsements in the tx, and the next Submit on that tx appends to them (so the application of
  `fabric_safety` begins a new tx); `parsePtr`, above; HW-BCS does not look for five bytes before it skips them (`:179`) nor whether the payload parsed (`:190`), and
  `hwbcsPayloadPacked` reads `parseDataPtr` into the frame of an earlier call (`sdk/protocol/boathwbcs/boathwbcs.c:69`).
* *Raw transactions*: chain id 0 with EIP-155 does not verify and one above (2^32 - 37) / 2 overflows; a nonce of 0 set by the application, and PlatONE's txtype 0,
  are sent as the byte 0, and the automatic nonce of FISCO-BCOS is 32 random bytes that are not trimmed (`sdk/wallet/api_fiscobcos.c:273`), one in 256 of which begins with a zero (`Canonical` excepts
  these three); a call of Quorum loses six streams; without memory for a descriptor the clean-up frees pointers never set; repeating
  a private transaction without data sends the hash of the last one as data.
* *RPC*: the dropped chunk, above; a result that is no string (`boatethereum.c:587`) is a success with an old result or none; CITA copies "null" without a look at the buffer; a string returned
  is valid until the next call only.

## 5. Proofs

Eight modules hold theorems; all are checked to the last leaf.

**Keypair store** (`KeystoreProofs`), for any number of keypairs, keys, records that fit, and failures, from
`RegionAssumption` and `KeystoreAssumption`:

* `TypeCorrect`: `Spec => []TypeOK`. Not inductive alone: the position and count in the locals of a call must be
  within the list, and a call that is going to append must have room (`LocalsOK`). `TypeInv` is both.
* `ListsStayReadable`: `Spec => []ListsReadable`, if reads work (`ReadsWork`: `"read" \notin FaultKinds`). A failed read
  of the count passes for an empty list in the code, and then the next create overwrites the first
  record; so the assumption is needed. The property is not inductive: a count that is put up or put back makes
  records visible which nobody could see before. `ReadInv` says what those hidden records are: while
  a delete is between its two writes the list is readable *up to the old count*; while a create
  is between its two, the record behind the last one has the index of the call, which no visible
  record has. There is one lemma per action, and below it lemmas about the three writes.
* `KeysStayMatched`: `Spec => []KeyMatch` from `OneFailureAtMost` (reads work, `MaxFaults <= 1`); with two failures it is false (section 4). `MatchInv`
  has two halves. Before a failure (`NoFailure`) the two lists differ exactly in what the running call has done, so each is a part of one readable list
  (`AgreeNow`), which is what a failure leaves. After it (`OneFailure`) nothing fails any more, and the lists agree, but for the index of a create that met an old private key and is being taken back.
* `StoreImplementsVault`: `Spec => ImplementsVault`, the refinement, from `OneFailedCall` (no power loss, no failed read, one failure); a onetime create may fail with or without the earlier onetime keypair. `VaultStep` says what each kind of step (silent,
  starting, creating, deleting, failing) is to the table; one lemma per action says of which kind it is. `CallInv` has what this needs: the key
  of a create is not in the list of private keys, a create's index is not in use, and a restore finds room in flash, because the record it writes back was there before.
* `LossIsBounded`: `Spec => [][...]_vars`, that is `LosesAtMostOne`, from `OneFailureAtMost`, so with a power loss at any write. It takes the same lemmas; only
  a power loss is no step of the table, and `CrashLoses` finds the one record whose count was already taken down.

**Network configurations** (`ProtocolProofs`, part 1), for any capacity, protocols, configurations and failures, from `NetworkAssumption` and `ProtocolAssumption`. Ten files
do the same in ten ways, so the argument begins with `Effect`: eleven kinds of steps that name no protocol (take an index, count, write a record, tear one, find, take the count down, drop, recover, ...). One
lemma says that every action of every protocol is one of them, and all that follows is about these.

* `NetworksTypeCorrect`: `Spec => []TypeOK`. As in the keypair store, the locals of a call must be known too (`LocalsOK`): a record to append has a place, and a position that was found is one of the records counted. That
  there is a free index while there is room is a pigeonhole argument.
* `NetworksAddressed`: `Addressed` holds until a read or the length of a protobuf record fails, with any number of failed writes and allocations and any power loss. It
  needs the records that are *behind* the count too: up to the count that a delete may put back no two records share an index (`ReadInv`) and none is without a body (`WholeInv`), nor is the one that a create is about to count.
* `NetworkLossIsBounded`: `Spec => LosesAtMostOne`, if reads work, from `ReadInv`; no step of any call, not of an undo and not a power loss, costs two networks besides the one in hand.
* `NetworkCallsAtomic`: `Spec => CallsAtomic`, if `MaxFaults <= 1`. What a call reports is compared with the networks that there were when it began; `BeforeInv` says that these are there between any two of its writes, also where the undo of a delete writes the count over a record and the call succeeds all the same (`Recovers`).
* `NetworkListCorrect`: `Spec => []ListsWhatIsFound`. The list is made in a loop, so this is a loop invariant (`OwnInv`: after n records the list has those of the protocol among them, each once)
  and then a bijection between the list and the indexes that `GetNetworkByIndex` finds, the onetime network among them, which may belong to another protocol (`ViewInv`).

**Wallets** (`ProtocolProofs`, part 2), for any number of calls and polls, from `WalletAssumption` and `ProtocolsAssumption` (no protocol is of both transports): `WalletsTypeCorrect`, `WalletsHeapBalanced`, `WalletsSendAsAsked`.

* `SentAsAsked` speaks of what was sent, so it says nothing of a tx that is not sent yet. `Believed` does: a field that the application believes to know holds the value that
  it believes, and if it believes to know the data, the storage of the data is still there. `WalletInv` is `Believed` and `PartsHeld` with the three properties.
* `HeapBalanced` needs `PartsHeld`: a wallet has a block of its own, and one of the seven protocols over `web3intf.c` no network data. With it each file's release frees all that its
  wallets hold (`HeldFreed`), which is what leaves nothing behind; without it the lemma about a release (`WalletDeInitKeeps`) does not apply. That strings are lost only with the call that copied them, and are
  nobody else's, follows from the numbers of the blocks: those of a call are new (`BlocksMade`).
* A call does what its program of steps does. `Delivers` says of the programs of `XTxInit` that after them every field but the nonce has the value of the call or is zero, whatever was in the tx: one
  lemma for the general reason (`TidyDelivers`: the memset first, then each field at most once) and one per file. `Fulfils` says of transfers and contract functions that they set or clear the data
  and set no field that the caller does not know of; it is why a call that fails half way costs the application's belief in those fields and in no other.
  The mutant of the run, a transfer that does not clear the data, is not `Fulfils`.
* One lemma per kind of call (`WalletInitKeeps`, `TxInitKeeps`, `SetKeeps`, `SendKeeps`, `SetAndSendKeeps`, `CopyStringsKeeps`, ...), then one per file that names its calls.

**Fabric and HW-BCS** (`FabricTxProofs`), for layouts of any size, from `FabricAssumption` and `Careful` (the layout fits the array, the application begins
a new tx after a failed Submit): `FabricTypeCorrect`, `AlwaysEndorsed`, `NeverMixed`, `AnswersAreFresh`. What an orderer gets is only as good as what was counted, so the
invariant follows the loop: `CallInv` says how many responses there are at each group (the sum of the quotas before it and what this group has given), `OriginInv` that all are for the current
nonce, that each group before this one has its quota, and that whoever was counted in this group comes before the peer that is asked. The receive buffer is the difficulty: a failed request leaves an
answer in it that may be read for a *later* endorser. `Uncounted` is why that is harmless: such an answer is of this group and proposal, and nobody counted comes from its peer or
from one behind it. The quota is a cardinality of different endorsers (`OneMore`).

**Ethereum payments** (`EthTxProofs`), for any payments, polls and sendings, from `EthAssumption`:

* `EthTypeCorrect`, `NeverPaidTwice`, `SuccessIsMined`, and `NonceIsFresh` (the last for `IsSync`).
* The argument: a payment is asked for once (`AskedInv`), and from the moment its nonce is read it keeps
  that nonce; so the node, which has one transaction for a nonce and never mines a nonce twice, has one copy of it at
  most, and none when it is mined (`NonceInv`). This is why repeating a sending is safe, and why it must keep the nonce.
  For a success: hashes grow with the sendings, so the one that is waited for is not an earlier one's (`HashInv`). For
  a fresh nonce: the application goes on only when the payment is mined, so nothing else is pending (`PoolInv`).

**FISCO-BCOS and CITA** (`IdTxProofs`), for any limits with `Limit <= Window` (`IdAssumption`): `IdTypeCorrect`, `NeverExecutedTwice`. One nonce stands for one call and one limit
(`NonceInv`), and a limit ends before the node forgets the nonce (`LimitInv`); so a copy is refused while the nonce is known and is too late afterwards, and a call is prepared again only after that.
`SuccessIsExecuted`: `SyncMined`, on FISCO-BCOS always and on CITA if memory never ends: without memory CITA reports a success of nothing (section 4), so it needs that hypothesis. While a call waits, every
transaction with the hash that it asks for is of this call (`SyncInv`), although CITA does not clear the hash of the sending before.

**Chainmaker** (`ChainmakerTxProofs`): `ChainmakerTypeCorrect`, `SuccessIsCommitted`, `ParametersAreTheCalls`, `HeapStaysBalanced`.

**RLP** (`RawTxProofs`, its first part): `EncoderIsExact`: for every list the encoder writes as many bytes as it allocated. `DecoderInvertsEncoder`: a strict decoder gets the list back, for every list whose
lengths fit 32 bits. Both are inductions over data. The library's induction theorems take an operator as a parameter, which the provers cannot instantiate; here the induction is over a *set*, that of the
counterexamples' lengths, whose smallest element is refuted (`Smallest`, from the well-foundedness of the naturals).

**Raw transactions** (`RawTxProofs`), for any fields, signatures, number of calls and words up to 2^32, data up to 16 MB, from `RawAssumption`: `RawTypeCorrect`, `EveryStreamIsExact`,
`EveryStreamDecodes`, `SignaturesVerify` (for chain ids whose v fits), `IntegersAreCanonical`, `CallsFreeTheirMemory`. The invariant `RawInv` says what the list holds at each step of a call (`ListInv`:
`ToSign` before the signature, `ToSend` after it, or what is left of the last call), what was hashed (`SignedInv`), what the stream is (`StreamInv`), and how many blocks the call may still lose (`HeapInv`).
`ProtocolsSendAlike`: the six transcribed functions implement the general one, step by step, so all of this holds of each.

**RPC** (`Web3Proofs`): `Web3TypeCorrect`, `BuffersNeverOverrun`, `AnswersAreWhole`, `ContextFreedOnce`, for any steps, requests, chunks and answers; `StepsSuffice` is the arithmetic of the
growing buffers: after as many steps as the code takes, what is appended and its terminator fit. `AnswersAreWhole` is about what was delivered and about what is told: an invariant says
whose string is in the result buffer while a call parses, and only `MayReadEarlier` calls end with a success over another one's.

**Only model-checked**: the liveness properties `Returns`, which are out of reach of the prover (as is ENABLED). Every safety property of the passing runs is a theorem. Where the theorem has a
hypothesis (reads work, one failure at most, memory does not end) the property is false without it, and section 4 or the hazards say how; the runs are configured within the hypotheses.

## 6. Not modelled, and why

* Hex strings, base64, the length-value fields and bech32: pure conversions of text. Messages of protobuf (Fabric, HW-BCS, Chainmaker, CITA) are packed by generated code; in the models a message is what it means.
* The step of the orderers of HW-BCS: no call reaches it (section 2). The list of nodes of PlatONE (`sdk/wallet/api_platone.c:254`): a query over memory that is freed and used.
* What a query of a contract returns to the application, and certificates and host names in a network configuration.
* Threads: the SDK asks the application to call it from one thread at a time.
* Damaged flash, and a write that is torn inside: each write is atomic. The count field has a checksum that would
  catch some of it, the records have none.
* Platform, crypto and TLS: their results are free choices in the models. Ports to cellular modules and third-party code: not this project's logic.
* The tunnel daemon, the Java and Android parts: start-up code and glue around closed libraries and services that are not in the
  repository; no state worth a model is left in them.

## 7. Plan

Done: keypairs, networks of all protocols, wallets, the transactions of all protocols, raw transactions and RLP, RPC. Left, in order of importance:

1. The lemmas on regions that the proofs of keypairs and of networks both have, moved to a module of their own.
2. The length byte and length-value fields (`UtilityGetTLV_LL_from_len`, `add_L_withOffset`, `UtilityGetLVData_L`) and hex strings, checked against reference definitions.
3. An abstract payment (asked, paid at most once, told) that `EthTx` and `IdTx` implement, as `KeyVault` is for `Keystore`.
4. A wallet composed with `Keystore` and `NetworkStore`: an index that was deleted and given to another keypair between two uses.
