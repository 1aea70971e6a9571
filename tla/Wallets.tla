------------------------------- MODULE Wallets -------------------------------
(***************************************************************************)
(* The ten wallets of sdk/wallet, one file and one section each: which     *)
(* steps their calls take, in which order, and what a failure leaves.      *)
(***************************************************************************)
EXTENDS Wallet, BoatProtocols

\* Protocols over web3intf.c, and those over http2intf.c.
Web3Protocols ==
    {ETHEREUM, PLATON, PLATONE, QUORUM, VENACHAIN, FISCOBCOS, CITA}
Http2Protocols == {CHAINMAKER, HLFABRIC, HWBCS}

ASSUME ProtocolsAssumption == Web3Protocols \cap Http2Protocols = {}

-----------------------------------------------------------------------------
(* api_ethereum.c *)

EthereumWalletInit == WalletInit(ETHEREUM, Web3Wallets, {}, Web3Leaves)
EthereumFrees == {"wallet", "name", "rpc"}
EthereumWalletDeInit == WalletDeInit(ETHEREUM, EthereumFrees)
EthereumGetBalance == Ask(ETHEREUM)
EthereumChangeNodeUrl == Ask(ETHEREUM)
EthereumChangeChainID == Ask(ETHEREUM)
EthereumChangeEIP155Comp == Ask(ETHEREUM)
EthereumNonce == {Given("nonce"), Asked("nonce")}
EthereumPrice == {Given("price"), Asked("price")}
EthereumLimit == {Given("limit")}
EthereumRecipient == {Given("recipient")}
EthereumValue == {Given("value"), Cleared("value")}
EthereumData == {Given("data"), Cleared("data")}
EthereumPrograms ==
    {<<Check, Zero, price, Given("limit"), Parsed("recipient"),
       Cleared("value")>> : price \in EthereumPrice}
EthereumTxInit ==
    TxInit(ETHEREUM, {"price", "limit", "recipient"}, EthereumPrograms)
EthereumReceipt == Received
EthereumTxSend == Send(ETHEREUM, EthereumReceipt)
EthereumCallContractFunc == IsInit(ETHEREUM) /\ Ask(ETHEREUM)
EthereumTransfer ==
    Transfer(ETHEREUM, TransferSteps, {"nonce", "value"}, EthereumReceipt)
EthereumContract ==
    Contract(ETHEREUM, <<Asked("nonce"), Check, Given("data")>>, EthereumReceipt)

EthereumWalletNext ==
    \/ EthereumWalletInit \/ EthereumWalletDeInit \/ EthereumGetBalance
    \/ EthereumChangeNodeUrl \/ EthereumChangeChainID \/ EthereumChangeEIP155Comp
    \/ EthereumTxInit \/ EthereumTxSend \/ EthereumCallContractFunc
    \/ EthereumTransfer \/ EthereumContract
    \/ Set(ETHEREUM, EthereumNonce \cup EthereumPrice \cup EthereumLimit \cup EthereumRecipient)
    \/ Set(ETHEREUM, EthereumValue \cup EthereumData)

-----------------------------------------------------------------------------
(* api_platon.c: addresses are bech32 *)

PlatonWalletInit == WalletInit(PLATON, Web3Wallets, {}, Web3Leaves)
PlatonFrees == {"wallet", "name", "rpc"}
PlatonWalletDeInit == WalletDeInit(PLATON, PlatonFrees)
PlatonGetBalance == Ask(PLATON)
PlatonNonce == {Given("nonce"), Asked("nonce")}
PlatonPrice == {Given("price"), Asked("price")}
PlatonLimit == {Given("limit")}
PlatonRecipient == {Given("recipient")}
PlatonValue == {Given("value"), Cleared("value")}
PlatonData == {Given("data"), Cleared("data")}
PlatonPrograms ==
    {<<Check, Zero, Check, price, Given("limit"), Parsed("recipient"),
       Cleared("value")>> : price \in PlatonPrice}
PlatonTxInit ==
    TxInit(PLATON, {"price", "limit", "recipient"}, PlatonPrograms)
PlatonReceipt == Received
PlatonTxSend == Send(PLATON, PlatonReceipt)
PlatonCallContractFunc == IsInit(PLATON) /\ Ask(PLATON)
PlatonTransfer ==
    Transfer(PLATON, TransferSteps, {"nonce", "value"}, PlatonReceipt)
PlatonContract ==
    Contract(PLATON, <<Asked("nonce"), Check, Given("data")>>, PlatonReceipt)

PlatonWalletNext ==
    \/ PlatonWalletInit \/ PlatonWalletDeInit \/ PlatonGetBalance
    \/ PlatonTxInit \/ PlatonTxSend \/ PlatonCallContractFunc
    \/ PlatonTransfer \/ PlatonContract
    \/ Set(PLATON, PlatonNonce \cup PlatonPrice \cup PlatonLimit \cup PlatonRecipient)
    \/ Set(PLATON, PlatonValue \cup PlatonData)

-----------------------------------------------------------------------------
(* api_platone.c: a type, which is the data of a transfer *)

PlatoneWalletInit == WalletInit(PLATONE, Web3Wallets, {}, Web3Leaves)
PlatoneFrees == {"wallet", "name", "rpc"}
PlatoneWalletDeInit == WalletDeInit(PLATONE, PlatoneFrees)
PlatoneGetBalance == Ask(PLATONE)
PlatoneChangeNodeUrl == Ask(PLATONE)
PlatoneChangeChainID == Ask(PLATONE)
PlatoneChangeEIP155Comp == Ask(PLATONE)
PlatoneNonce == {Given("nonce"), Asked("nonce")}
PlatonePrice == {Given("price"), Asked("price")}
PlatoneLimit == {Given("limit")}
PlatoneRecipient == {Given("recipient")}
PlatoneValue == {Given("value"), Cleared("value")}
PlatoneData == {Given("data"), Cleared("data")}
PlatoneTxtype == {Given("type")}
PlatonePrograms ==
    {<<Check, Zero, price, Given("limit"), Parsed("recipient"),
       Cleared("value"), Given("type")>> : price \in PlatonePrice}
PlatoneTxInit ==
    TxInit(PLATONE, {"price", "limit", "recipient", "type"}, PlatonePrograms)
PlatoneReceipt == Received
PlatoneTxSend == Send(PLATONE, PlatoneReceipt)
PlatoneCallContractFunc == IsInit(PLATONE) /\ Ask(PLATONE)
PlatoneTransfer ==
    Transfer(PLATONE, <<Asked("nonce"), Given("value"), Given("data")>>,
             {"nonce", "value", "data"}, PlatoneReceipt)
PlatoneContract ==
    Contract(PLATONE, <<Asked("nonce"), Check, Given("data")>>, PlatoneReceipt)

PlatoneWalletNext ==
    \/ PlatoneWalletInit \/ PlatoneWalletDeInit \/ PlatoneGetBalance
    \/ PlatoneChangeNodeUrl \/ PlatoneChangeChainID \/ PlatoneChangeEIP155Comp
    \/ PlatoneTxInit \/ PlatoneTxSend \/ PlatoneCallContractFunc
    \/ PlatoneTransfer \/ PlatoneContract
    \/ Set(PLATONE, PlatoneNonce \cup PlatonePrice \cup PlatoneLimit \cup PlatoneRecipient)
    \/ Set(PLATONE, PlatoneValue \cup PlatoneData)
    \/ Set(PLATONE, PlatoneTxtype)

-----------------------------------------------------------------------------
(* api_quorum.c: the price is zero; private transactions are in RawTx *)

QuorumWalletInit == WalletInit(QUORUM, Web3Wallets, {}, Web3Leaves)
QuorumFrees == {"wallet", "name", "rpc"}
QuorumWalletDeInit == WalletDeInit(QUORUM, QuorumFrees)
QuorumGetBalance == Ask(QUORUM)
QuorumSetChainId == Ask(QUORUM)
QuorumNonce == {Given("nonce"), Asked("nonce")}
QuorumLimit == {Given("limit")}
QuorumRecipient == {Given("recipient")}
QuorumValue == {Given("value"), Cleared("value")}
QuorumData == {Given("data"), Cleared("data")}
QuorumPrograms ==
    {<<Check, Zero, Given("limit"), Parsed("recipient"), Cleared("value")>>}
QuorumTxInit ==
    TxInit(QUORUM, {"limit", "recipient"}, QuorumPrograms)
QuorumReceipt == Received
QuorumTxSend == Send(QUORUM, QuorumReceipt)
QuorumCallContractFunc == IsInit(QUORUM) /\ Ask(QUORUM)
QuorumTransfer ==
    Transfer(QUORUM, TransferSteps, {"nonce", "value"}, QuorumReceipt)
QuorumContract ==
    Contract(QUORUM, <<Asked("nonce"), Check, Given("data")>>, QuorumReceipt)

QuorumWalletNext ==
    \/ QuorumWalletInit \/ QuorumWalletDeInit \/ QuorumGetBalance
    \/ QuorumSetChainId
    \/ QuorumTxInit \/ QuorumTxSend \/ QuorumCallContractFunc
    \/ QuorumTransfer \/ QuorumContract
    \/ Set(QUORUM, QuorumNonce \cup QuorumLimit \cup QuorumRecipient)
    \/ Set(QUORUM, QuorumValue \cup QuorumData)

-----------------------------------------------------------------------------
(* api_venachain.c *)

VenachainWalletInit == WalletInit(VENACHAIN, Web3Wallets, {}, Web3Leaves)
VenachainFrees == {"wallet", "name", "rpc"}
VenachainWalletDeInit == WalletDeInit(VENACHAIN, VenachainFrees)
VenachainGetBalance == Ask(VENACHAIN)
VenachainChangeNodeUrl == Ask(VENACHAIN)
VenachainChangeChainID == Ask(VENACHAIN)
VenachainChangeEIP155Comp == Ask(VENACHAIN)
VenachainNonce == {Given("nonce"), Asked("nonce")}
VenachainPrice == {Given("price"), Asked("price")}
VenachainLimit == {Given("limit")}
VenachainRecipient == {Given("recipient")}
VenachainValue == {Given("value"), Cleared("value")}
VenachainData == {Given("data"), Cleared("data")}
VenachainPrograms ==
    {<<Check, Zero, price, Given("limit"), Parsed("recipient"),
       Cleared("value")>> : price \in VenachainPrice}
VenachainTxInit ==
    TxInit(VENACHAIN, {"price", "limit", "recipient"}, VenachainPrograms)
VenachainReceipt == Received
VenachainTxSend == Send(VENACHAIN, VenachainReceipt)
VenachainCallContractFunc == IsInit(VENACHAIN) /\ Ask(VENACHAIN)
VenachainTransfer ==
    Transfer(VENACHAIN, TransferSteps, {"nonce", "value"}, VenachainReceipt)
VenachainContract ==
    Contract(VENACHAIN, <<Asked("nonce"), Check, Given("data")>>, VenachainReceipt)

VenachainWalletNext ==
    \/ VenachainWalletInit \/ VenachainWalletDeInit \/ VenachainGetBalance
    \/ VenachainChangeNodeUrl \/ VenachainChangeChainID \/ VenachainChangeEIP155Comp
    \/ VenachainTxInit \/ VenachainTxSend \/ VenachainCallContractFunc
    \/ VenachainTransfer \/ VenachainContract
    \/ Set(VENACHAIN, VenachainNonce \cup VenachainPrice \cup VenachainLimit \cup VenachainRecipient)
    \/ Set(VENACHAIN, VenachainValue \cup VenachainData)

-----------------------------------------------------------------------------
(* api_fiscobcos.c: a block limit and no transfers *)

FiscobcosWalletInit == WalletInit(FISCOBCOS, Web3Wallets, {}, Web3Leaves)
FiscobcosFrees == {"wallet", "name", "rpc"}
FiscobcosWalletDeInit == WalletDeInit(FISCOBCOS, FiscobcosFrees)
FiscobcosNonce == {Given("nonce"), Random("nonce")}
FiscobcosPrice == {Given("price")}
FiscobcosLimit == {Given("limit")}
FiscobcosRecipient == {Given("recipient")}
FiscobcosValue == {Given("value"), Cleared("value")}
FiscobcosData == {Given("data"), Cleared("data")}
FiscobcosGetBlockNumber == Asked("block")
FiscobcosPrograms ==
    {<<Check, Zero, Given("price"), Given("limit"), Parsed("recipient"),
       Parsed("chain"), Parsed("group"), FiscobcosGetBlockNumber,
       Cleared("value")>>}
FiscobcosTxInit ==
    TxInit(FISCOBCOS, {"price", "limit", "recipient", "chain", "group", "block"},
           FiscobcosPrograms)
FiscobcosReceipt == Received
FiscobcosTxSend == Send(FISCOBCOS, FiscobcosReceipt)
FiscobcosCallContractFunc == IsInit(FISCOBCOS) /\ Ask(FISCOBCOS)
FiscobcosContract ==
    Contract(FISCOBCOS, <<Random("nonce"), Check, Given("data")>>, FiscobcosReceipt)

FiscobcosWalletNext ==
    \/ FiscobcosWalletInit \/ FiscobcosWalletDeInit
    \/ FiscobcosTxInit \/ FiscobcosTxSend \/ FiscobcosCallContractFunc
    \/ FiscobcosContract
    \/ Set(FISCOBCOS, FiscobcosNonce \cup FiscobcosPrice \cup FiscobcosLimit \cup FiscobcosRecipient)
    \/ Set(FISCOBCOS, FiscobcosValue \cup FiscobcosData)

-----------------------------------------------------------------------------
(* api_cita.c: a quota, and the tx is zeroed before its arguments are checked *)

CitaWalletInit == WalletInit(CITA, Web3Wallets, {}, Web3Leaves)
CitaFrees == {"wallet", "name", "rpc"}
CitaWalletDeInit == WalletDeInit(CITA, CitaFrees)
CitaNonce == {Given("nonce"), Random("nonce")}
CitaLimit == {Given("limit")}
CitaRecipient == {Given("recipient")}
CitaValue == {Given("value"), Cleared("value")}
CitaData == {Given("data"), Cleared("data")}
CitaGetBlockNumber == Asked("block")
CitaPrograms ==
    {<<Check, Zero, Check, Parsed("recipient"), Given("limit"),
       CitaGetBlockNumber, Cleared("value")>>}
CitaTxInit ==
    TxInit(CITA, {"recipient", "limit", "block"},
           CitaPrograms)
CitaReceipt == Received
CitaTxSend == Send(CITA, CitaReceipt)
CitaCallContractFunc == IsInit(CITA) /\ Ask(CITA)
CitaContract ==
    Contract(CITA, <<Random("nonce"), Check, Given("data")>>, CitaReceipt)

CitaWalletNext ==
    \/ CitaWalletInit \/ CitaWalletDeInit
    \/ CitaTxInit \/ CitaTxSend \/ CitaCallContractFunc
    \/ CitaContract
    \/ Set(CITA, CitaNonce \cup CitaLimit \cup CitaRecipient)
    \/ Set(CITA, CitaValue \cup CitaData)

-----------------------------------------------------------------------------
(* api_chainmaker.c, api_hlfabric.c and api_hw_bcs.c have an http2 context: *)
(* http2Init that finds no memory for its buffer frees the context and     *)
(* returns the pointer to it, and one that finds none at all returns NULL, *)
(* which goes unnoticed in two of the files.                               *)

Http2Wallets == {{"wallet", "name", "network", "rpc"}}
Unnoticed == {{"wallet", "name", "network"}}
Http2Leaves ==
    {{}, {"wallet"}, {"wallet", "name"}, {"wallet", "name", "network"}}

(* api_chainmaker.c                                                        *)
ChainmakerWalletInit ==
    WalletInit(CHAINMAKER, Http2Wallets \cup Unnoticed, {"rpc"}, Http2Leaves)
ChainmakerFrees == {"wallet", "name", "network", "rpc"}
ChainmakerWalletDeInit == WalletDeInit(CHAINMAKER, ChainmakerFrees)

ChainmakerWalletNext == ChainmakerWalletInit \/ ChainmakerWalletDeInit

-----------------------------------------------------------------------------
(* api_hlfabric.c *)

HlfabricWalletInit == WalletInit(HLFABRIC, Http2Wallets, {"rpc"}, Http2Leaves)

(* Mutant: the nodes of the network are left out.                          *)
HlfabricFreesFew == {"wallet", "name", "rpc"}

HlfabricFrees == {"wallet", "name", "network", "rpc"}
HlfabricWalletDeInit == WalletDeInit(HLFABRIC, HlfabricFrees)
HlfabricGiven ==
    {{"path", "chaincode", "version", "channel", "org"},
     {"chaincode", "channel", "org"}}
HlfabricTxInit == CopyStrings(HLFABRIC, HlfabricGiven, {})
HlfabricTexts == Strings
HlfabricTxDeInit == FreeStrings(HLFABRIC, HlfabricTexts, HlfabricFrees)

HlfabricWalletNext ==
    \/ HlfabricWalletInit \/ HlfabricWalletDeInit
    \/ HlfabricTxInit \/ HlfabricTxDeInit

-----------------------------------------------------------------------------
(* api_hw_bcs.c: a contract and the creator, which are not set to NULL first *)

HwbcsWalletInit ==
    WalletInit(HWBCS, Http2Wallets \cup Unnoticed, {"rpc"}, Http2Leaves)
HwbcsFrees == {"wallet", "name", "network", "rpc"}
HwbcsWalletDeInit == WalletDeInit(HWBCS, HwbcsFrees)
HwbcsGiven ==
    {Strings, Strings \ {"path", "contract"}, Strings \ {"creator"}}
HwbcsTxInit == CopyStrings(HWBCS, HwbcsGiven, {"contract", "creator"})
HwbcsTexts == Strings
HwbcsTxDeInit == FreeStrings(HWBCS, HwbcsTexts, HwbcsFrees)

HwbcsWalletNext ==
    \/ HwbcsWalletInit \/ HwbcsWalletDeInit
    \/ HwbcsTxInit \/ HwbcsTxDeInit

-----------------------------------------------------------------------------
WalletsNext ==
    \/ EthereumWalletNext \/ PlatonWalletNext \/ PlatoneWalletNext \/ QuorumWalletNext \/ VenachainWalletNext
    \/ FiscobcosWalletNext \/ CitaWalletNext \/ ChainmakerWalletNext \/ HlfabricWalletNext \/ HwbcsWalletNext
    \/ FreeData

WalletsSpec == WalletsInit /\ [][WalletsNext]_walletsVars
=============================================================================
