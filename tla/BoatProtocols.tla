---------------------------- MODULE BoatProtocols ----------------------------
(***************************************************************************)
(* The protocols of the SDK, which networks and wallets have a file for    *)
(* each.                                                                   *)
(***************************************************************************)
CONSTANTS ETHEREUM, PLATON, PLATONE, QUORUM, VENACHAIN, FISCOBCOS,
          CITA, CHAINMAKER, HLFABRIC, HWBCS

(* BoatProtocolType.                                                       *)
AllProtocols ==
    {ETHEREUM, PLATON, PLATONE, QUORUM, VENACHAIN, FISCOBCOS, CITA, CHAINMAKER,
     HLFABRIC, HWBCS}
=============================================================================
