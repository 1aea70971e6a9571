------------------------------- MODULE MCRawTx -------------------------------
(* Raw transactions on small inputs: integers of 16 instead of 32 bits,    *)
(* and data on both sides of the limits of RLP (one low or high byte, 55,  *)
(* 56 and 256 bytes).                                                      *)
EXTENDS RawTxs

Net(protocol, chain) ==
    [protocol |-> protocol, eip155 |-> TRUE, chain |-> chain, private |-> FALSE]
Plain(protocol) == [Net(protocol, 1) EXCEPT !.eip155 = FALSE]

\* 110: v is 255 or 256; 32749 is the largest chain id, 32750 one too large.
MCWallets ==
    {Net("ethereum", c) : c \in {0, 1, 110, 32749, 32750}}
        \cup {Net(p, 110) : p \in Protocols \ {"fiscobcos"}}
        \cup {Plain(p) : p \in Protocols}
        \cup {[Plain("quorum") EXCEPT !.private = TRUE]}

\* A signature whose r has a leading zero, and one without; the random bytes
\* of an automatic nonce likewise.
Full == [i \in 1..32 |-> 200]
LeadingZero == [Full EXCEPT ![1] = 0]
MCSignatures ==
    {[parity |-> p, r |-> [Full EXCEPT ![1] = b], s |-> Full] :
        p \in 0..1, b \in {0, 1}}

Nonces == {<<TRUE, 0, LeadingZero>>, <<FALSE, 0, Full>>, <<TRUE, 128, Full>>}
Data == {<<>>, <<127>>, <<128>>} \cup {[i \in 1..n |-> 7] : n \in {21, 55, 56, 256}}
MCPayloads ==
    {[auto |-> n[1], nonce |-> n[2], random |-> n[3], data |-> d, txtype |-> t] :
        n \in Nonces, d \in Data, t \in {0, 2}}
=============================================================================
