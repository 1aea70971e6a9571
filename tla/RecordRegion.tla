---------------------------- MODULE RecordRegion ----------------------------
(***************************************************************************)
(* One region of the NVRAM file as the SDK lays it out: a four byte count  *)
(* field (AA 55 num crc) followed by the records, one after the other.     *)
(* The keypair list and the private key list are two such regions.         *)
(*                                                                         *)
(* A region is a record [num, slot].  num is the count field: NoHeader     *)
(* stands for any four bytes that utility_check_NumBytes rejects (a file   *)
(* that was never written, a cleared header), which every reader takes for *)
(* "no record".  slot[p] is the p-th record.  A record past num is stale:  *)
(* no reader walks that far, but the bytes are still there, and a count    *)
(* that is written back makes them visible again.                          *)
(*                                                                         *)
(* Abstraction: the records of a region have the same length, so that a    *)
(* record written at position p covers exactly the p-th one, as it does    *)
(* for names of equal length.                                              *)
(***************************************************************************)
EXTENDS Integers

CONSTANTS MaxKeypairs,  \* BOAT_MAX_KEYPAIR_NUM
          Keys,         \* key material: a private key and its public key
          NoKey         \* the content of a record that was erased

ASSUME RegionAssumption ==
    /\ MaxKeypairs \in Nat \ {0}
    /\ NoKey \notin Keys

Indexes == 1..MaxKeypairs

NoHeader == -1

Slot == [index : 0..MaxKeypairs, key : Keys \cup {NoKey}]

Erased == [index |-> 0, key |-> NoKey]

Region == [num : {NoHeader} \cup 0..MaxKeypairs, slot : [Indexes -> Slot]]

EmptyRegion == [num |-> NoHeader, slot |-> [p \in Indexes |-> Erased]]

(* utility_check_NumBytes: a rejected count field reads as zero records.   *)
Num(r) == IF r.num = NoHeader THEN 0 ELSE r.num

(* The first n records, and the ones a reader of the region sees.          *)
Upto(r, n) == {r.slot[p] : p \in 1..n}
Live(r) == Upto(r, Num(r))

HasIndex(r, i) == \E p \in 1..Num(r) : r.slot[p].index = i

(* Where a scan of the region that stops at the first match finds i.       *)
Position(r, i) ==
    CHOOSE p \in 1..Num(r) :
        /\ r.slot[p].index = i
        /\ \A q \in 1..(p - 1) : r.slot[q].index # i

(* Mutants: a count one too high; a record erased with no successor moved. *)
SetNumHigh(r, n) == [r EXCEPT !.num = n + 1]
DropInPlace(r, p, n) == [r EXCEPT !.slot[p] = Erased]

(* The effects of the three writes the code does.                          *)
SetNum(r, n) == [r EXCEPT !.num = n]
Put(r, p, rec) == [r EXCEPT !.slot[p] = rec]

(* Drop record p of n: the last one has its length field zeroed, any other *)
(* one is overwritten by its successors, moved down in a single write.     *)
Drop(r, p, n) ==
    IF p = n
    THEN Put(r, p, Erased)
    ELSE [r EXCEPT !.slot = [q \in Indexes |->
            IF q >= p /\ q < n THEN r.slot[q + 1] ELSE r.slot[q]]]
=============================================================================
