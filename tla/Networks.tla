------------------------------- MODULE Networks -------------------------------
(***************************************************************************)
(* The ten protocols over one network store: sdk/network, one file and one *)
(* section below for each.  A protocol that is compiled in has create,     *)
(* delete, lookup, list and free of its own; none of them knows of the     *)
(* others more than how long their records are.                            *)
(***************************************************************************)
EXTENDS NetworkStore, BoatProtocols

ASSUME ProtocolAssumption == Protocols \subseteq AllProtocols

-----------------------------------------------------------------------------
(* network_ethereum.c *)

EthereumPack       == FlatPack
EthereumRead       == FlatRead
EthereumIndex(c)   == TakeIndex(ETHEREUM, c)
EthereumCreate(c)  == EthereumIndex(c) \/ CreateOnetime(ETHEREUM, c, EthereumPack)
EthereumStore      == Store(ETHEREUM, EthereumPack)
EthereumDelete(i)  == Delete(i, ETHEREUM)
EthereumRemove     == Remove(ETHEREUM)
EthereumByIndex(i) == GetNetworkByIndex(i, ETHEREUM, EthereumRead)
EthereumList       == GetNetworkList(ETHEREUM, EthereumRead)
EthereumFree       == Free(ETHEREUM)

EthereumNext ==
    \/ \E c \in Configs : EthereumCreate(c)
    \/ \E i \in 0..MaxNetworks : EthereumDelete(i) \/ EthereumByIndex(i)
    \/ EthereumStore \/ EthereumRemove \/ EthereumList \/ EthereumFree

-----------------------------------------------------------------------------
(* network_platon.c *)

PlatonPack       == FlatPack
PlatonRead       == FlatRead
PlatonIndex(c)   == TakeIndex(PLATON, c)
PlatonCreate(c)  == PlatonIndex(c) \/ CreateOnetime(PLATON, c, PlatonPack)
PlatonStore      == Store(PLATON, PlatonPack)
PlatonDelete(i)  == Delete(i, PLATON)
PlatonRemove     == Remove(PLATON)
PlatonByIndex(i) == GetNetworkByIndex(i, PLATON, PlatonRead)
PlatonList       == GetNetworkList(PLATON, PlatonRead)
PlatonFree       == Free(PLATON)

PlatonNext ==
    \/ \E c \in Configs : PlatonCreate(c)
    \/ \E i \in 0..MaxNetworks : PlatonDelete(i) \/ PlatonByIndex(i)
    \/ PlatonStore \/ PlatonRemove \/ PlatonList \/ PlatonFree

-----------------------------------------------------------------------------
(* network_platone.c *)

PlatonePack       == FlatPack
PlatoneRead       == FlatRead
PlatoneIndex(c)   == TakeIndex(PLATONE, c)
PlatoneCreate(c)  == PlatoneIndex(c) \/ CreateOnetime(PLATONE, c, PlatonePack)
PlatoneStore      == Store(PLATONE, PlatonePack)
PlatoneDelete(i)  == Delete(i, PLATONE)
PlatoneRemove     == Remove(PLATONE)
PlatoneByIndex(i) == GetNetworkByIndex(i, PLATONE, PlatoneRead)
PlatoneList       == GetNetworkList(PLATONE, PlatoneRead)
PlatoneFree       == Free(PLATONE)

PlatoneNext ==
    \/ \E c \in Configs : PlatoneCreate(c)
    \/ \E i \in 0..MaxNetworks : PlatoneDelete(i) \/ PlatoneByIndex(i)
    \/ PlatoneStore \/ PlatoneRemove \/ PlatoneList \/ PlatoneFree

-----------------------------------------------------------------------------
(* network_quorum.c *)

QuorumPack       == FlatPack
QuorumRead       == FlatRead
QuorumIndex(c)   == TakeIndex(QUORUM, c)
QuorumCreate(c)  == QuorumIndex(c) \/ CreateOnetime(QUORUM, c, QuorumPack)
QuorumStore      == Store(QUORUM, QuorumPack)
QuorumDelete(i)  == Delete(i, QUORUM)
QuorumRemove     == Remove(QUORUM)
QuorumByIndex(i) == GetNetworkByIndex(i, QUORUM, QuorumRead)
QuorumList       == GetNetworkList(QUORUM, QuorumRead)
QuorumFree       == Free(QUORUM)

QuorumNext ==
    \/ \E c \in Configs : QuorumCreate(c)
    \/ \E i \in 0..MaxNetworks : QuorumDelete(i) \/ QuorumByIndex(i)
    \/ QuorumStore \/ QuorumRemove \/ QuorumList \/ QuorumFree

-----------------------------------------------------------------------------
(* network_venachain.c *)

VenachainPack       == FlatPack
VenachainRead       == FlatRead
VenachainIndex(c)   == TakeIndex(VENACHAIN, c)
VenachainCreate(c)  == VenachainIndex(c) \/ CreateOnetime(VENACHAIN, c, VenachainPack)
VenachainStore      == Store(VENACHAIN, VenachainPack)
VenachainDelete(i)  == Delete(i, VENACHAIN)
VenachainRemove     == Remove(VENACHAIN)
VenachainByIndex(i) == GetNetworkByIndex(i, VENACHAIN, VenachainRead)
VenachainList       == GetNetworkList(VENACHAIN, VenachainRead)
VenachainFree       == Free(VENACHAIN)

VenachainNext ==
    \/ \E c \in Configs : VenachainCreate(c)
    \/ \E i \in 0..MaxNetworks : VenachainDelete(i) \/ VenachainByIndex(i)
    \/ VenachainStore \/ VenachainRemove \/ VenachainList \/ VenachainFree

-----------------------------------------------------------------------------
(* network_fiscobcos.c *)

FiscobcosPack       == FlatPack
FiscobcosRead       == FlatRead
FiscobcosIndex(c)   == TakeIndex(FISCOBCOS, c)
FiscobcosCreate(c)  == FiscobcosIndex(c) \/ CreateOnetime(FISCOBCOS, c, FiscobcosPack)
FiscobcosStore      == Store(FISCOBCOS, FiscobcosPack)
FiscobcosDelete(i)  == Delete(i, FISCOBCOS)
FiscobcosRemove     == Remove(FISCOBCOS)
FiscobcosByIndex(i) == GetNetworkByIndex(i, FISCOBCOS, FiscobcosRead)
FiscobcosList       == GetNetworkList(FISCOBCOS, FiscobcosRead)
FiscobcosFree       == Free(FISCOBCOS)

FiscobcosNext ==
    \/ \E c \in Configs : FiscobcosCreate(c)
    \/ \E i \in 0..MaxNetworks : FiscobcosDelete(i) \/ FiscobcosByIndex(i)
    \/ FiscobcosStore \/ FiscobcosRemove \/ FiscobcosList \/ FiscobcosFree

-----------------------------------------------------------------------------
(* network_cita.c *)

CitaPack       == MessagePack
CitaRead       == MessageRead
CitaIndex(c)   == TakeIndex(CITA, c)
CitaCreate(c)  == CitaIndex(c) \/ CreateOnetime(CITA, c, CitaPack)
CitaStore      == Store(CITA, CitaPack)
CitaDelete(i)  == Delete(i, CITA)
CitaRemove     == Remove(CITA)
CitaByIndex(i) == GetNetworkByIndex(i, CITA, CitaRead)
CitaList       == GetNetworkList(CITA, CitaRead)
CitaFree       == Free(CITA)

CitaNext ==
    \/ \E c \in Configs : CitaCreate(c)
    \/ \E i \in 0..MaxNetworks : CitaDelete(i) \/ CitaByIndex(i)
    \/ CitaStore \/ CitaRemove \/ CitaList \/ CitaFree

-----------------------------------------------------------------------------
(* network_chainmaker.c *)

ChainmakerPack       == MessagePack
ChainmakerRead       == NestedRead
ChainmakerIndex(c)   == TakeIndex(CHAINMAKER, c)
ChainmakerCreate(c)  == ChainmakerIndex(c) \/ CreateOnetime(CHAINMAKER, c, ChainmakerPack)
ChainmakerStore      == Store(CHAINMAKER, ChainmakerPack)
ChainmakerDelete(i)  == Delete(i, CHAINMAKER)
ChainmakerRemove     == Remove(CHAINMAKER)
ChainmakerByIndex(i) == GetNetworkByIndex(i, CHAINMAKER, ChainmakerRead)
ChainmakerList       == GetNetworkList(CHAINMAKER, ChainmakerRead)
ChainmakerFree       == Free(CHAINMAKER)

ChainmakerNext ==
    \/ \E c \in Configs : ChainmakerCreate(c)
    \/ \E i \in 0..MaxNetworks : ChainmakerDelete(i) \/ ChainmakerByIndex(i)
    \/ ChainmakerStore \/ ChainmakerRemove \/ ChainmakerList \/ ChainmakerFree

-----------------------------------------------------------------------------
(* network_hlfabric.c *)

HlfabricPack       == NestedPack
HlfabricRead       == NestedRead
HlfabricIndex(c)   == TakeIndex(HLFABRIC, c)
HlfabricCreate(c)  == HlfabricIndex(c) \/ CreateOnetime(HLFABRIC, c, HlfabricPack)
HlfabricStore      == Store(HLFABRIC, HlfabricPack)
HlfabricDelete(i)  == Delete(i, HLFABRIC)
HlfabricRemove     == Remove(HLFABRIC)
HlfabricByIndex(i) == GetNetworkByIndex(i, HLFABRIC, HlfabricRead)
HlfabricList       == GetNetworkList(HLFABRIC, HlfabricRead)
HlfabricFree       == Free(HLFABRIC)

HlfabricNext ==
    \/ \E c \in Configs : HlfabricCreate(c)
    \/ \E i \in 0..MaxNetworks : HlfabricDelete(i) \/ HlfabricByIndex(i)
    \/ HlfabricStore \/ HlfabricRemove \/ HlfabricList \/ HlfabricFree

-----------------------------------------------------------------------------
(* network_hwbcs.c *)

HwbcsPack       == NestedPack
HwbcsRead       == NestedRead
HwbcsIndex(c)   == TakeIndex(HWBCS, c)
HwbcsCreate(c)  == HwbcsIndex(c) \/ CreateOnetime(HWBCS, c, HwbcsPack)
HwbcsStore      == Store(HWBCS, HwbcsPack)
HwbcsDelete(i)  == Delete(i, HWBCS)
HwbcsRemove     == Remove(HWBCS)
HwbcsByIndex(i) == GetNetworkByIndex(i, HWBCS, HwbcsRead)
HwbcsList       == GetNetworkList(HWBCS, HwbcsRead)
HwbcsFree       == Free(HWBCS)

HwbcsNext ==
    \/ \E c \in Configs : HwbcsCreate(c)
    \/ \E i \in 0..MaxNetworks : HwbcsDelete(i) \/ HwbcsByIndex(i)
    \/ HwbcsStore \/ HwbcsRemove \/ HwbcsList \/ HwbcsFree

-----------------------------------------------------------------------------

Next ==
    \/ EthereumNext
    \/ PlatonNext
    \/ PlatoneNext
    \/ QuorumNext
    \/ VenachainNext
    \/ FiscobcosNext
    \/ CitaNext
    \/ ChainmakerNext
    \/ HlfabricNext
    \/ HwbcsNext
    \/ Crash

Spec == Init /\ [][Next]_vars
=============================================================================
