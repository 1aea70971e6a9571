-------------------------------- MODULE RawTx --------------------------------
(***************************************************************************)
(* XSendRawtx of the protocols that send RLP: sdk/protocol/boatethereum,   *)
(* boatplaton, boatvenachain, boatplatone, boatquorum and boatfiscobcos.   *)
(*                                                                         *)
(* A call appends the fields of the tx to a list, encodes it, signs the    *)
(* hash of the stream, puts v, r and s into the list, encodes it again and *)
(* posts the stream.  With EIP-155 the first list ends in the chain id and *)
(* two empty strings, which v, r and s replace.  Every allocation may      *)
(* fail.  The node is external: it decodes the stream, takes the chain id  *)
(* and the parity out of v and checks the signature against the list that  *)
(* it believes was signed.                                                 *)
(*                                                                         *)
(* One tx is used for several calls; the fields r and s of the last one    *)
(* are still there when the next one begins.                               *)
(***************************************************************************)
EXTENDS Rlp

CONSTANTS Wallets,    \* [protocol, eip155, chain, private]: the network of the
                      \* wallet, and is_private of BoatQuorumTxInit
          Payloads,   \* [auto, nonce, random, data, txtype]: what a call is
                      \* made with; random is what BoatRandom would give
          Signatures, \* [parity, r, s]: what BoatSignature may return
          Word,       \* 2^32, BUINT32
          MaxCalls    \* bound

Protocols ==
    {"ethereum", "platon", "venachain", "platone", "quorum", "fiscobcos"}

Wallet == [protocol : Protocols, eip155 : BOOLEAN, chain : 0..(Word - 1),
           private : BOOLEAN]
Payload == [auto : BOOLEAN, nonce : 0..(Word - 1), random : [1..32 -> Byte],
            data : Seq(Byte), txtype : 0..(Word - 1)]
Signature == [parity : 0..1, r : [1..32 -> Byte], s : [1..32 -> Byte]]

(* Only Quorum has private transactions, FISCO-BCOS does without EIP-155,  *)
(* and no v tells a node of a private transaction with EIP-155.  The data  *)
(* of a call is far from the length that 32 bits cannot count.             *)
ASSUME RawAssumption ==
    /\ Word \in Nat /\ Word > 255 /\ (Word - 1) \div 16777216 <= 255
    /\ Wallets \subseteq Wallet
    /\ \A w \in Wallets :
        /\ w.private => w.protocol = "quorum" /\ ~w.eip155
        /\ w.protocol = "fiscobcos" => ~w.eip155
    /\ Payloads \subseteq Payload
    /\ \A p \in Payloads : Len(p.data) <= 16777216
    /\ Signatures \subseteq Signature
    /\ MaxDesc \in Nat /\ MaxDesc >= 13
    /\ MaxCalls \in Nat

VARIABLES wallet,    \* the wallet of the tx
          call,      \* the fields of the tx that the application set
          sig,       \* rawtx_fields.sig: r and s with their lengths
          pc,        \* what the running call does next
          list,      \* the strings of tx_rlp_object
          stream,    \* its encoded stream: bytes allocated, bytes written
          digest,    \* the stream that was hashed
          signature, \* what BoatSignature returned
          held,      \* the other blocks the call holds
          lost,      \* how many blocks nothing points to any more
          calls      \* how many calls were made

vars == <<wallet, call, sig, pc, list, stream, digest, signature, held, lost,
          calls>>
heap == <<stream, held, lost>>
signing == <<digest, signature, sig>>

Zero == [i \in 1..32 |-> 0]
NoCall ==
    [auto |-> FALSE, nonce |-> 0, random |-> Zero, data |-> <<>>, txtype |-> 0]
NoStream == [size |-> 0, bytes |-> <<>>]
NoSignature == [parity |-> 0, r |-> Zero, s |-> Zero]

Init ==
    /\ wallet \in Wallets
    /\ call = NoCall
    /\ sig = [r |-> <<>>, s |-> <<>>]
    /\ pc = "idle"
    /\ list = <<>>
    /\ stream = NoStream
    /\ digest = <<>>
    /\ signature = NoSignature
    /\ held = {}
    /\ lost = 0
    /\ calls = 0

-----------------------------------------------------------------------------
(* The fields *)

(* BoatEthTxSetNonce: a nonce from the network is trimmed to nothing when  *)
(* it is zero, one that the application gives to one byte.                 *)
NonceField == IF call.auto /\ call.nonce = 0 THEN <<>> ELSE Big(call.nonce)

(* BoatFiscobcosTxSetNonce: an automatic nonce is 32 random bytes as they  *)
(* are, and nothing is read from the network.                              *)
FiscobcosNonce == IF call.auto THEN call.random ELSE Big(call.nonce)

Gas == <<82, 8>>
Recipient == [i \in 1..20 |-> i - 1]
Value == <<>>

EthereumFields == <<NonceField, Gas, Gas, Recipient, Value, call.data>>
PlatonFields == EthereumFields
VenachainFields == EthereumFields
PlatoneFields == Append(EthereumFields, Big(call.txtype))

(* The hash of the payload that eth_fillTransaction answered.              *)
Filled == [i \in 1..64 |-> 255]
QuorumFields ==
    IF wallet.private THEN <<NonceField, Gas, Gas, Recipient, Value, Filled>>
    ELSE EthereumFields

BlockLimit == <<2, 0>>
ChainId == <<1>>
GroupId == <<1>>
ExtraData == <<>>
FiscobcosFields ==
    <<FiscobcosNonce, Gas, Gas, BlockLimit, Recipient, Value, call.data,
      ChainId, GroupId, ExtraData>>

Fields ==
    CASE wallet.protocol = "ethereum"  -> EthereumFields
      [] wallet.protocol = "platon"    -> PlatonFields
      [] wallet.protocol = "venachain" -> VenachainFields
      [] wallet.protocol = "platone"   -> PlatoneFields
      [] wallet.protocol = "quorum"    -> QuorumFields
      [] OTHER                         -> FiscobcosFields

-----------------------------------------------------------------------------
(* The calls of the application *)

Call(p) ==
    /\ pc = "idle"
    /\ calls < MaxCalls
    /\ calls' = calls + 1
    /\ call' = p
    /\ pc' = IF wallet.private THEN "fill" ELSE "init"
    /\ UNCHANGED <<wallet, signing, list, heap>>

(* QuorumSendFilltx: the two hex strings are never freed.                  *)
Fill ==
    /\ pc = "fill"
    /\ lost' = lost + 2
    /\ \/ pc' = "init" /\ UNCHANGED call
       \/ pc' = "idle" /\ call' = NoCall
    /\ UNCHANGED <<wallet, signing, list, stream, held, calls>>

-----------------------------------------------------------------------------
(* The steps of XSendRawtx *)

InitList ==
    /\ pc = "init"
    /\ \/ pc' = "append" /\ held' = {"descriptors"}
       \/ pc' = "unset" /\ UNCHANGED held  \* no memory
    /\ UNCHANGED <<wallet, call, signing, list, stream, lost, calls>>

Unreached == IF stream = NoStream THEN 0 ELSE 1

(* Quorum encodes after each field, over the pointer to the stream that is *)
(* there already, and goes on when that fails.  The 64 bytes that it       *)
(* allocates for the data of a private transaction are never freed.        *)
EncodeEach ==
    /\ \/ stream' = Encode(list')
       \/ stream' = NoStream  \* no memory
    /\ lost' = lost + Unreached
                   + (IF wallet.private /\ Len(list) = 5 THEN 1 ELSE 0)

(* The index that RlpEncoderAppendObjectToList returns is looked at, but   *)
(* not for the gas limit nor, in FISCO-BCOS, the data; there is room.      *)
AppendField ==
    /\ pc = "append" /\ Len(list) < Len(Fields)
    /\ list' = AppendObject(list, Fields[Len(list) + 1])
    /\ pc' = IF HasRoom(list) THEN "append" ELSE "cleanup"
    /\ IF wallet.protocol = "quorum" THEN EncodeEach
       ELSE UNCHANGED <<stream, lost>>
    /\ UNCHANGED <<wallet, call, signing, held, calls>>

NoMemoryForData ==
    /\ pc = "append" /\ wallet.private /\ Len(list) = 5
    /\ pc' = "cleanup"
    /\ UNCHANGED <<wallet, call, signing, list, heap, calls>>

Appended(l, a, b, c) == AppendObject(AppendObject(AppendObject(l, a), b), c)

(* Mutant: the lengths of r and s are not reset.                           *)
AppendChainIdStale ==
    /\ pc = "append" /\ Len(list) = Len(Fields)
    /\ wallet.eip155
    /\ list' = Appended(list, Big(wallet.chain), sig.r, sig.s)
    /\ pc' = "encode"
    /\ UNCHANGED <<wallet, call, signing, heap, calls>>

(* EIP-155: v = chain id, r = s = NULL.                                    *)
AppendChainId ==
    /\ pc = "append" /\ Len(list) = Len(Fields)
    /\ wallet.eip155
    /\ sig' = [r |-> <<>>, s |-> <<>>]
    /\ list' = Appended(list, Big(wallet.chain), <<>>, <<>>)
    /\ pc' = "encode"
    /\ UNCHANGED <<wallet, call, digest, signature, heap, calls>>

EncodeList ==
    /\ \/ pc = "encode"
       \/ pc = "append" /\ Len(list) = Len(Fields) /\ ~wallet.eip155
    /\ \/ stream' = Encode(list) /\ pc' = "sign"
       \/ stream' = NoStream /\ pc' = "cleanup"  \* no memory
    /\ lost' = lost + Unreached
    /\ UNCHANGED <<wallet, call, signing, list, held, calls>>

Sign ==
    /\ pc = "sign"
    /\ \/ /\ signature' \in Signatures
          /\ digest' = stream.bytes
          /\ sig' = [r |-> Trim(signature'.r), s |-> Trim(signature'.s)]
          /\ pc' = "put"
       \/ pc' = "cleanup" /\ UNCHANGED signing
    /\ UNCHANGED <<wallet, call, list, heap, calls>>

V ==
    IF wallet.eip155 THEN (2 * wallet.chain + signature.parity + 35) % Word
    ELSE IF wallet.private THEN signature.parity + 37
    ELSE signature.parity + 27

Replaced(l, at, a, b, c) ==
    ReplaceObject(ReplaceObject(ReplaceObject(l, at, a), at + 1, b), at + 2, c)

(* Mutant: v, r and s go behind the chain id and its two empty strings.    *)
PutSignatureBehind ==
    /\ pc = "put"
    /\ list' = Appended(list, Big(V), sig.r, sig.s)
    /\ pc' = "reencode"
    /\ UNCHANGED <<wallet, call, signing, heap, calls>>

PutSignature ==
    /\ pc = "put"
    /\ list' = IF wallet.eip155
               THEN Replaced(list, Len(Fields) + 1, Big(V), sig.r, sig.s)
               ELSE Appended(list, Big(V), sig.r, sig.s)
    /\ pc' = "reencode"
    /\ UNCHANGED <<wallet, call, signing, heap, calls>>

(* Mutant: the first stream is not freed.                                  *)
ReEncodeOver ==
    /\ pc = "reencode"
    /\ \/ stream' = Encode(list) /\ pc' = "send"
       \/ stream' = NoStream /\ pc' = "cleanup"
    /\ lost' = lost + Unreached
    /\ UNCHANGED <<wallet, call, signing, list, held, calls>>

(* RlpReEncode frees the first stream.                                     *)
ReEncode ==
    /\ pc = "reencode"
    /\ \/ stream' = Encode(list) /\ pc' = "send"
       \/ stream' = NoStream /\ pc' = "cleanup"  \* no memory
    /\ UNCHANGED <<wallet, call, signing, list, held, lost, calls>>

(* The stream as a hex string is posted, or there is no memory for it.     *)
Post ==
    /\ pc = "send"
    /\ held' \in {held, held \cup {"hex"}}
    /\ pc' = "cleanup"
    /\ UNCHANGED <<wallet, call, signing, list, stream, lost, calls>>

Cleanup ==
    /\ pc = "cleanup"
    /\ pc' = "idle"
    /\ call' = NoCall
    /\ list' = <<>>
    /\ stream' = NoStream
    /\ digest' = <<>>
    /\ signature' = NoSignature
    /\ held' = {}
    /\ UNCHANGED <<wallet, sig, lost, calls>>

(* Without memory for the descriptors RlpInitListObject returns before it  *)
(* sets the two pointers in tx_rlp_object, a local variable, and the clean *)
(* up frees what they happen to be.                                        *)
CleanupUnset ==
    /\ pc = "unset"
    /\ \/ pc' = "idle" /\ call' = NoCall
       \/ pc' = "undefined" /\ UNCHANGED call
    /\ UNCHANGED <<wallet, signing, list, heap, calls>>

Next ==
    \/ \E p \in Payloads : Call(p)
    \/ Fill
    \/ InitList
    \/ AppendField \/ NoMemoryForData \/ AppendChainId
    \/ EncodeList
    \/ Sign
    \/ PutSignature
    \/ ReEncode
    \/ Post
    \/ Cleanup \/ CleanupUnset

Spec == Init /\ [][Next]_vars

-----------------------------------------------------------------------------
(* The node *)

(* The last three strings of a transaction are v, r and s.                 *)
Unsigned(l) == SubSeq(l, 1, Len(l) - 3)
NodeV(l) == Num(l[Len(l) - 2])
ByEip155(v) == v >= 35 /\ ~wallet.private
NodeInteger(n) == IF n = 0 THEN <<>> ELSE Big(n)

(* What the node believes was signed.                                      *)
Believed(l) ==
    IF ByEip155(NodeV(l))
    THEN Unsigned(l) \o <<NodeInteger((NodeV(l) - 35) \div 2), <<>>, <<>>>>
    ELSE Unsigned(l)

NodeParity(v) ==
    IF ByEip155(v) THEN (v - 35) % 2
    ELSE IF wallet.private THEN v - 37
    ELSE v - 27

(* An integer of 32 bytes.                                                 *)
Padded(b) ==
    [i \in 1..32 |-> IF i <= 32 - Len(b) THEN 0 ELSE b[i - (32 - Len(b))]]

-----------------------------------------------------------------------------
(* Properties *)

(* The state is well typed, the list is within its descriptors, and what   *)
(* is sent has three strings besides the fields: v, r and s.               *)
TypeOK ==
    /\ wallet \in Wallets
    /\ call \in Payload
    /\ sig \in [r : Seq(Byte), s : Seq(Byte)]
    /\ pc \in {"idle", "fill", "init", "append", "encode", "sign", "put",
               "reencode", "send", "cleanup", "unset", "undefined"}
    /\ list \in Seq(Seq(Byte))
    /\ Len(list) <= MaxDesc
    /\ pc = "send" => Len(list) = Len(Fields) + 3
    /\ DOMAIN stream = {"size", "bytes"}
    /\ signature \in Signature
    /\ held \subseteq {"descriptors", "hex"}
    /\ lost \in Nat
    /\ calls \in 0..MaxCalls

(* What the encoder writes fills the memory it allocated, no more and no   *)
(* less, although the length is computed twice.                            *)
StreamExact == Len(stream.bytes) = stream.size

(* A strict decoder reads from the stream the strings that were put into   *)
(* the list, whatever their lengths.                                       *)
RoundTrip ==
    stream # NoStream /\ pc \in {"append", "sign", "put", "send"} =>
        Decode(stream.bytes) = list

(* The chain ids that a comment in the code supports: v does not overflow. *)
Supported == wallet.eip155 => wallet.chain \in 1..((Word - 37) \div 2)

(* What is sent verifies: from the transaction alone the node rebuilds the *)
(* stream that was hashed and reads the signature as it was made, in every *)
(* call with the same tx.                                                  *)
SignatureHolds ==
    pc = "send" /\ Supported =>
        /\ digest = Encode(Believed(list)).bytes
        /\ NodeParity(NodeV(list)) = signature.parity
        /\ Padded(list[Len(list) - 1]) = signature.r
        /\ Padded(list[Len(list)]) = signature.s

(* The integers that the SDK cuts to length itself are sent without        *)
(* leading zeros, as nodes demand.  Excepted are the zeros that            *)
(* UtilityUint64ToBigend makes a byte of, a nonce 0 that the application   *)
(* gives and a txtype 0 of PlatONE, and the automatic nonce of FISCO-BCOS, *)
(* 32 random bytes that nothing trims: one in 256 begins with a zero.      *)
Canonical ==
    pc = "send" /\ Supported =>
        \A i \in DOMAIN list :
            \/ list[i] \in {Recipient, call.data, Filled}
            \/ list[i] = <<>>
            \/ list[i][1] # 0
            \/ i = 1 /\ ~call.auto /\ call.nonce = 0
            \/ i = 1 /\ call.auto /\ wallet.protocol = "fiscobcos"
            \/ i = 7 /\ wallet.protocol = "platone" /\ call.txtype = 0

(* What a call of Quorum loses at most: a stream for each of its fields,   *)
(* two hex strings and the data of a private one.                          *)
LostPerCall ==
    IF wallet.private THEN 9 ELSE IF wallet.protocol = "quorum" THEN 6 ELSE 0

(* A call that is over holds no memory, wherever it ended.  Only calls of  *)
(* Quorum lose some, a fixed number of blocks each.                        *)
Freed ==
    /\ pc = "idle" => stream = NoStream /\ held = {}
    /\ lost <= LostPerCall * calls
=============================================================================
