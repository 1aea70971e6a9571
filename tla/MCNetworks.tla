----------------------------- MODULE MCNetworks -----------------------------
(* All networks on a small instance.  No file looks into the records of    *)
(* another protocol, so two protocols suffice to have a record that is not *)
(* one's own in front of, behind or between one's own: at any time the     *)
(* region holds what the two of a pair have written.                       *)
EXTENDS Networks

Pairs == {{ETHEREUM, HLFABRIC}, {PLATON, HWBCS}, {PLATONE, CHAINMAKER},
          {QUORUM, CITA}, {VENACHAIN, FISCOBCOS}}

Written ==
    {net.protocol :
        net \in ({flash.slot[p].key : p \in Indexes} \cup ram \cup {loc.rec.key})
               \ {NoNetwork}}

OnePair == \E pair \in Pairs : Written \subseteq pair
=============================================================================
