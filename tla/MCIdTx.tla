------------------------------- MODULE MCIdTx --------------------------------
(* FISCO-BCOS and CITA calls on a small instance: the limit lies within    *)
(* the window of the node (500 of 1000) or fills it (100 of 100).          *)
EXTENDS IdTx

MCLimit == [c \in Chains |-> 2]
MCWindow == [c \in Chains |-> IF c = "cita" THEN 2 ELSE 3]
=============================================================================
