-------------------------------- MODULE RawTxs --------------------------------
(***************************************************************************)
(* The six XSendRawtx, each from its own file.  RawTx has the steps that   *)
(* they share.  PlatON, Venachain and PlatONE are Ethereum's with another  *)
(* list of fields; Quorum and FISCO-BCOS are written out below, for they   *)
(* go their own ways: Quorum encodes the list after each field and has     *)
(* private transactions, FISCO-BCOS knows neither EIP-155 nor placeholders *)
(* for v, r and s.  That each of them is the call of RawTx with the fields *)
(* of its protocol is a theorem of RawTxProofs.                            *)
(***************************************************************************)
EXTENDS RawTx

-----------------------------------------------------------------------------
(* EthSendRawtx *)

EthSendRawtx ==
    /\ wallet.protocol = "ethereum"
    /\ \/ InitList \/ AppendField \/ AppendChainId \/ EncodeList
       \/ Sign \/ PutSignature \/ ReEncode \/ Post
       \/ Cleanup \/ CleanupUnset

-----------------------------------------------------------------------------
(* PlatONSendRawtx *)

PlatonList == InitList \/ AppendField
PlatonChainId == AppendChainId \/ EncodeList
PlatonSign == Sign
PlatonSignature == PutSignature
PlatonPost == ReEncode \/ Post
PlatonCleanup == Cleanup \/ CleanupUnset

PlatONSendRawtx ==
    /\ wallet.protocol = "platon"
    /\ \/ PlatonList \/ PlatonChainId \/ PlatonSign
       \/ PlatonSignature \/ PlatonPost \/ PlatonCleanup

-----------------------------------------------------------------------------
(* VenachainSendRawtx *)

VenachainList == InitList \/ AppendField
VenachainChainId == AppendChainId \/ EncodeList
VenachainSign == Sign
VenachainSignature == PutSignature
VenachainPost == ReEncode \/ Post
VenachainCleanup == Cleanup \/ CleanupUnset

VenachainSendRawtx ==
    /\ wallet.protocol = "venachain"
    /\ \/ VenachainList \/ VenachainChainId \/ VenachainSign
       \/ VenachainSignature \/ VenachainPost \/ VenachainCleanup

-----------------------------------------------------------------------------
(* PlatoneSendRawtx *)

PlatoneList == InitList \/ AppendField
PlatoneChainId == AppendChainId \/ EncodeList
PlatoneSign == Sign
PlatoneSignature == PutSignature
PlatonePost == ReEncode \/ Post
PlatoneCleanup == Cleanup \/ CleanupUnset

PlatoneSendRawtx ==
    /\ wallet.protocol = "platone"
    /\ \/ PlatoneList \/ PlatoneChainId \/ PlatoneSign
       \/ PlatoneSignature \/ PlatonePost \/ PlatoneCleanup

-----------------------------------------------------------------------------
(* QuorumSendRawtx *)

(* The list is encoded after every field; whether that worked is asked     *)
(* after the last time only.  Data is what QuorumSendFilltx brought in.    *)
QuorumField ==
    /\ pc = "append" /\ Len(list) < Len(QuorumFields)
    /\ list' = AppendObject(list, QuorumFields[Len(list) + 1])
    /\ stream' \in {Encode(list'), NoStream}
    /\ lost' = lost + Unreached
                   + (IF wallet.private /\ Len(list) = 5 THEN 1 ELSE 0)
    /\ pc' = IF HasRoom(list) THEN "append" ELSE "cleanup"
    /\ UNCHANGED <<wallet, call, signing, held, calls>>

QuorumList == InitList \/ QuorumField \/ NoMemoryForData

QuorumChainId == AppendChainId \/ EncodeList

QuorumSign == Sign

QuorumV ==
    CASE wallet.eip155 -> (2 * wallet.chain + signature.parity + 35) % Word
      [] ~wallet.eip155 /\ wallet.private -> signature.parity + 37
      [] ~wallet.eip155 /\ ~wallet.private -> signature.parity + 27

QuorumSignature ==
    /\ pc = "put"
    /\ list' = IF wallet.eip155
               THEN Replaced(list, 7, Big(QuorumV), sig.r, sig.s)
               ELSE Appended(list, Big(QuorumV), sig.r, sig.s)
    /\ pc' = "reencode"
    /\ UNCHANGED <<wallet, call, signing, heap, calls>>

(* eth_sendRawTransaction or eth_sendRawPrivateTransaction.                *)
QuorumPost == ReEncode \/ Post

QuorumCleanup == Cleanup \/ CleanupUnset

QuorumSendRawtx ==
    /\ wallet.protocol = "quorum"
    /\ \/ Fill
       \/ QuorumList \/ QuorumChainId \/ QuorumSign
       \/ QuorumSignature \/ QuorumPost \/ QuorumCleanup

-----------------------------------------------------------------------------
(* FiscobcosSendRawtx *)

FiscobcosList == InitList \/ AppendField

(* The list of ten fields is what is signed.                               *)
FiscobcosEncode ==
    /\ pc = "append" /\ Len(list) = 10
    /\ \/ stream' = Encode(list) /\ pc' = "sign"
       \/ stream' = NoStream /\ pc' = "cleanup"  \* no memory
    /\ UNCHANGED <<wallet, call, signing, list, held, lost, calls>>

FiscobcosSign == Sign

FiscobcosSignature ==
    /\ pc = "put"
    /\ list' = Appended(list, Big(signature.parity + 27), sig.r, sig.s)
    /\ pc' = "reencode"
    /\ UNCHANGED <<wallet, call, signing, heap, calls>>

FiscobcosPost == ReEncode \/ Post

FiscobcosCleanup == Cleanup \/ CleanupUnset

FiscobcosSendRawtx ==
    /\ wallet.protocol = "fiscobcos"
    /\ \/ FiscobcosList \/ FiscobcosEncode \/ FiscobcosSign
       \/ FiscobcosSignature \/ FiscobcosPost \/ FiscobcosCleanup

-----------------------------------------------------------------------------
SendRawtx ==
    \/ \E p \in Payloads : Call(p)
    \/ EthSendRawtx
    \/ PlatONSendRawtx
    \/ VenachainSendRawtx
    \/ PlatoneSendRawtx
    \/ QuorumSendRawtx
    \/ FiscobcosSendRawtx

SendSpec == Init /\ [][SendRawtx]_vars
=============================================================================
