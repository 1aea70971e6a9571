--------------------------- MODULE KeystoreProofs ---------------------------
(***************************************************************************)
(* Proofs about the keypair store, for any number of keypairs, any keys    *)
(* and any capacity.  Types and readable lists: for any number of          *)
(* failures.  Keys that match, the table KeyVault and the bound on what is *)
(* lost: for one failure, as the code's undo paths have it.                *)
(***************************************************************************)
EXTENDS Keystore, FiniteSetTheorems, WellFoundedInduction, TLAPS

(* The locals of a call between two writes: a position found in a region   *)
(* is one of the records counted, and there is room for one to append.     *)
LocalsOK ==
    /\ pc # "idle" => loc.index \in Indexes
    /\ pc \in {"storeNum", "restoreNum", "pkRec", "pkNum"} => loc.n < MaxKeypairs
    /\ pc \in {"delNum", "delData", "delUndo", "dpkNum", "dpkData", "dpkUndo"} =>
        loc.at \in 1..loc.n

TypeInv == TypeOK /\ LocalsOK

-----------------------------------------------------------------------------
(* Lemmas about the operators *)

(* A set of natural numbers that is not empty has a least element.         *)
LEMMA LeastElement ==
    ASSUME NEW S \in SUBSET Nat, S # {}
    PROVE  \E m \in S : \A x \in S : m <= x
<1> DEFINE R == {ss \in Nat \X Nat : ss[1] < ss[2]}
<1>1. R = OpToRel(<, Nat)
  BY DEF OpToRel
<1>2. IsWellFoundedOn(R, Nat)
  BY <1>1, NatLessThanWellFounded
<1> HIDE DEF R
<1>3. PICK m \in S : \A x \in S : <<x, m>> \notin R
  BY <1>2, WFMin
<1>4. ASSUME NEW x \in S, x < m PROVE FALSE
  <2>1. <<x, m>> \in R
    BY <1>4 DEF R
  <2> QED
    BY <1>3, <2>1
<1> QED
  BY <1>4

LEMMA NumType ==
    ASSUME NEW r \in Region
    PROVE  /\ Num(r) \in 0..MaxKeypairs
           /\ Num(r) \in Nat
BY RegionAssumption DEF Num, Region, NoHeader

LEMMA SetNumType ==
    ASSUME NEW r \in Region, NEW n \in 0..MaxKeypairs
    PROVE  /\ SetNum(r, n) \in Region
           /\ Num(SetNum(r, n)) = n
           /\ SetNum(r, n).slot = r.slot
BY RegionAssumption DEF SetNum, Num, Region, NoHeader

LEMMA PutType ==
    ASSUME NEW r \in Region, NEW p \in Indexes, NEW rec \in Slot
    PROVE  /\ Put(r, p, rec) \in Region
           /\ Num(Put(r, p, rec)) = Num(r)
           /\ Put(r, p, rec).slot[p] = rec
           /\ \A q \in Indexes \ {p} : Put(r, p, rec).slot[q] = r.slot[q]
BY DEF Put, Num, Region

LEMMA SlotType ==
    ASSUME NEW r \in Region, NEW p \in 1..Num(r)
    PROVE  /\ p \in Indexes
           /\ r.slot[p] \in Slot
           /\ r.slot[p].index \in 0..MaxKeypairs
<1>1. p \in Indexes
  BY NumType, RegionAssumption DEF Indexes
<1> QED
  BY <1>1 DEF Region, Slot

LEMMA ErasedType == Erased \in Slot
BY RegionAssumption DEF Erased, Slot

(* What deleting record p of n leaves: every record before p where it was, *)
(* every record after p one place down.                                    *)
LEMMA DropType ==
    ASSUME NEW r \in Region, NEW n \in 0..MaxKeypairs, NEW p \in 1..n
    PROVE  /\ Drop(r, p, n) \in Region
           /\ Num(Drop(r, p, n)) = Num(r)
           /\ \A q \in 1..(n - 1) :
                Drop(r, p, n).slot[q] = IF q < p THEN r.slot[q] ELSE r.slot[q + 1]
<1>1. n \in Nat /\ p \in Indexes /\ \A q \in 1..(n - 1) : q \in Indexes /\ q + 1 \in Indexes
  BY RegionAssumption DEF Indexes
<1>2. CASE p = n
  BY <1>1, <1>2, PutType, ErasedType DEF Drop
<1>3. CASE p # n
  <2> DEFINE f == [q \in Indexes |->
                    IF q >= p /\ q < n THEN r.slot[q + 1] ELSE r.slot[q]]
  <2>1. Drop(r, p, n) = [r EXCEPT !.slot = f]
    BY <1>3 DEF Drop
  <2>2. f \in [Indexes -> Slot]
    <3> SUFFICES ASSUME NEW q \in Indexes PROVE f[q] \in Slot
      OBVIOUS
    <3>1. q >= p /\ q < n => q + 1 \in Indexes
      BY <1>1, RegionAssumption DEF Indexes
    <3> QED
      BY <3>1 DEF Region
  <2> HIDE DEF f
  <2>3. [r EXCEPT !.slot = f] \in Region /\ [r EXCEPT !.slot = f].num = r.num
        /\ [r EXCEPT !.slot = f].slot = f
    BY <2>2 DEF Region
  <2>4. \A q \in 1..(n - 1) : f[q] = IF q < p THEN r.slot[q] ELSE r.slot[q + 1]
    BY <1>1 DEF f
  <2> QED
    BY <2>1, <2>3, <2>4 DEF Num
<1> QED
  BY <1>2, <1>3

(* A scan that finds index i stops at the first record that has it.        *)
LEMMA PositionFound ==
    ASSUME NEW r \in Region, NEW i, HasIndex(r, i)
    PROVE  /\ Position(r, i) \in 1..Num(r)
           /\ r.slot[Position(r, i)].index = i
<1> DEFINE S == {p \in 1..Num(r) : r.slot[p].index = i}
<1>1. S \in SUBSET Nat /\ S # {}
  BY NumType DEF HasIndex
<1>2. PICK m \in S : \A x \in S : m <= x
  BY <1>1, LeastElement
<1>3. \A q \in 1..(m - 1) : r.slot[q].index # i
  BY <1>2, NumType
<1> QED
  BY <1>2, <1>3 DEF Position

(* Fewer records than indexes: there is a free index, and FreeIndex is one *)
(* (the pigeonhole principle).                                             *)
LEMMA FreeIndexFree ==
    ASSUME NEW r \in Region, NEW n \in Nat, n < MaxKeypairs
    PROVE  /\ FreeIndex({r.slot[p].index : p \in 1..n}) \in Indexes
           /\ \A p \in 1..n : r.slot[p].index # FreeIndex({r.slot[q].index : q \in 1..n})
<1> DEFINE used == {r.slot[p].index : p \in 1..n}
           S == Indexes \ used
<1>1. S \in SUBSET Nat
  BY RegionAssumption DEF Indexes
<1>2. S # {}
  <2> SUFFICES ASSUME S = {} PROVE FALSE
    OBVIOUS
  <2> DEFINE g == [i \in Indexes |-> CHOOSE p \in 1..n : r.slot[p].index = i]
  <2>1. \A i \in Indexes : g[i] \in 1..n /\ r.slot[g[i]].index = i
    OBVIOUS
  <2>2. g \in [Indexes -> 1..n]
    BY <2>1
  <2>3. /\ IsFiniteSet(Indexes) /\ Cardinality(Indexes) = MaxKeypairs
        /\ IsFiniteSet(1..n) /\ Cardinality(1..n) = n
    BY FS_Interval, RegionAssumption DEF Indexes
  <2> HIDE DEF g
  <2>4. PICK x, y \in Indexes : x # y /\ g[x] = g[y]
    BY <2>2, <2>3, FS_PigeonHole
  <2> QED
    BY <2>1, <2>4
<1>3. PICK m \in S : \A x \in S : m <= x
  BY <1>1, <1>2, LeastElement
<1>4. \A j \in 1..(m - 1) : j \in used
  BY <1>3, RegionAssumption DEF Indexes
<1>5. FreeIndex(used) \in Indexes /\ FreeIndex(used) \notin used
  BY <1>3, <1>4 DEF FreeIndex
<1> QED
  BY <1>5

-----------------------------------------------------------------------------
(* Type correctness *)

(* Updating the fields a step writes leaves the locals well typed.         *)
LEMMA LocalsType ==
    ASSUME NEW l \in Locals, NEW n \in 0..MaxKeypairs, NEW at \in 0..MaxKeypairs
    PROVE  /\ [l EXCEPT !.n = n] \in Locals
           /\ [l EXCEPT !.n = n].n = n
           /\ [l EXCEPT !.n = n].index = l.index
           /\ [l EXCEPT !.n = n, !.at = at] \in Locals
           /\ [l EXCEPT !.n = n, !.at = at].n = n
           /\ [l EXCEPT !.n = n, !.at = at].at = at
           /\ [l EXCEPT !.n = n, !.at = at].index = l.index
BY DEF Locals

LEMMA CallType ==
    ASSUME NEW op \in {"none", "create", "delete"},
           NEW key \in Keys \cup {NoKey}, NEW i \in 0..MaxKeypairs
    PROVE  /\ Call(op, i, key) \in Locals
           /\ Call(op, i, key).index = i
BY ErasedType, RegionAssumption DEF Call, Locals

LEMMA NoCallType == NoCall \in Locals
BY CallType, RegionAssumption DEF NoCall

LEMMA FaultType ==
    ASSUME NEW kind, faults \in 0..MaxFaults, Fault(kind)
    PROVE  faults' \in 0..MaxFaults
BY KeystoreAssumption DEF Fault

LEMMA FitsType == Fits \in Nat /\ Fits <= MaxKeypairs
BY KeystoreAssumption, RegionAssumption DEF Indexes

LEMMA TypeInit == Init => TypeInv
<1> SUFFICES ASSUME Init PROVE TypeInv
  OBVIOUS
<1>1. EmptyRegion \in Region
  BY ErasedType DEF EmptyRegion, Region
<1>2. 0 \in 0..MaxFaults
  BY KeystoreAssumption
<1> QED
  BY <1>1, <1>2, NoCallType DEF Init, TypeInv, TypeOK, LocalsOK, Steps

(* A call that returns leaves nothing to say about its locals.             *)
LEMMA ReturnTyped ==
    ASSUME NEW success \in BOOLEAN, Return(success)
    PROVE  /\ pc' \in Steps
           /\ loc' \in Locals
           /\ ok' \in BOOLEAN
           /\ LocalsOK'
BY NoCallType DEF Return, Steps, LocalsOK

LEMMA ReturnDeleteTyped ==
    ASSUME NEW success \in BOOLEAN, ReturnDelete(success)
    PROVE  /\ pc' \in Steps
           /\ loc' \in Locals
           /\ ok' \in BOOLEAN
           /\ LocalsOK'
<1>1. (success /\ loc.op = "delete") \in BOOLEAN
  OBVIOUS
<1> QED
  BY <1>1, ReturnTyped DEF ReturnDelete

LEMMA CountReadTyped ==
    ASSUME NEW r, NEW n, faults \in 0..MaxFaults, CountRead(r, n)
    PROVE  faults' \in 0..MaxFaults
BY FaultType DEF CountRead

LEMMA TypeCreateFlash ==
    ASSUME TypeInv, NEW key \in FreshKeys, CreateFlash(key)
    PROVE  TypeInv'
<1> USE DEF TypeInv, TypeOK
<1>1. PICK n \in 0..Num(kp) :
        /\ \/ n = Num(kp) /\ UNCHANGED faults
           \/ n < Num(kp) /\ Fault("read")
        /\ IF Num(kp) = MaxKeypairs /\ (n > 0 \/ faults' = faults)
           THEN ok' = FALSE /\ UNCHANGED <<pc, loc>>
           ELSE GoTo("storeRec",
                     Call("create", FreeIndex({kp.slot[p].index : p \in 1..n}), key))
  BY DEF CreateFlash
<1>2. faults' \in 0..MaxFaults
  BY <1>1, FaultType
<1>3. pc = "idle" /\ UNCHANGED <<kp, pk, onetime>>
  BY DEF CreateFlash
<1>4. CASE Num(kp) = MaxKeypairs /\ (n > 0 \/ faults' = faults)
  BY <1>1, <1>2, <1>3, <1>4 DEF LocalsOK
<1>5. CASE ~(Num(kp) = MaxKeypairs /\ (n > 0 \/ faults' = faults))
  <2> DEFINE i == FreeIndex({kp.slot[p].index : p \in 1..n})
  <2>1. n \in Nat /\ n < MaxKeypairs
    BY <1>1, <1>5, NumType, RegionAssumption
  <2>2. i \in Indexes
    BY <2>1, FreeIndexFree
  <2>3. key \in Keys
    BY DEF FreshKeys
  <2> HIDE DEF i
  <2>4. i \in 0..MaxKeypairs
    BY <2>2, RegionAssumption DEF Indexes
  <2>5. GoTo("storeRec", Call("create", i, key))
    BY <1>1, <1>5 DEF i
  <2>6. pc' = "storeRec" /\ loc' \in Locals /\ loc'.index = i /\ ok' = ok
    BY <2>3, <2>4, <2>5, CallType DEF GoTo
  <2> QED
    BY <1>2, <1>3, <2>2, <2>6 DEF Steps, LocalsOK
<1> QED
  BY <1>4, <1>5

LEMMA TypeAppend ==
    ASSUME TypeInv, NEW rec \in Slot, NEW next \in {"storeNum", "restoreNum"},
           pc # "idle", AppendKeypair(rec, next), UNCHANGED <<pk, onetime>>
    PROVE  TypeInv'
<1> USE DEF TypeInv, TypeOK
<1>1. CASE \E n \in 0..MaxKeypairs :
            /\ CountRead(kp, n)
            /\ n + 1 <= Fits
            /\ kp' = Put(kp, n + 1, rec)
            /\ GoTo(next, [loc EXCEPT !.n = n])
  <2>1. PICK n \in 0..MaxKeypairs :
            /\ CountRead(kp, n)
            /\ n + 1 <= Fits
            /\ kp' = Put(kp, n + 1, rec)
            /\ GoTo(next, [loc EXCEPT !.n = n])
    BY <1>1
  <2>2. n < MaxKeypairs /\ n + 1 \in Indexes
    BY <2>1, FitsType, RegionAssumption DEF Indexes
  <2>3. kp' \in Region
    BY <2>1, <2>2, PutType
  <2>4. faults' \in 0..MaxFaults
    BY <2>1, CountReadTyped
  <2>5. loc' \in Locals /\ loc'.n = n /\ loc'.index = loc.index /\ pc' = next /\ ok' = ok
    BY <2>1, LocalsType DEF GoTo
  <2> QED
    BY <2>2, <2>3, <2>4, <2>5 DEF Steps, LocalsOK
<1>2. CASE /\ \/ Num(kp) + 1 > Fits /\ UNCHANGED faults
              \/ Fault("write")
              \/ Fault("alloc")
              \/ Num(kp) > 0 /\ Fault("read")
           /\ Return(FALSE)
           /\ UNCHANGED kp
  <2>1. faults' \in 0..MaxFaults
    BY <1>2, FaultType
  <2> QED
    BY <1>2, <2>1, ReturnTyped
<1> QED
  BY <1>1, <1>2 DEF AppendKeypair

LEMMA TypeStoreRecord ==
    ASSUME TypeInv, StoreRecord
    PROVE  TypeInv'
<1>1. [index |-> loc.index, key |-> loc.key] \in Slot
  BY DEF TypeInv, TypeOK, Locals, Slot
<1> QED
  BY <1>1, TypeAppend DEF StoreRecord

LEMMA TypeRestoreRecord ==
    ASSUME TypeInv, RestoreRecord
    PROVE  TypeInv'
<1>1. loc.rec \in Slot
  BY DEF TypeInv, TypeOK, Locals
<1> QED
  BY <1>1, TypeAppend DEF RestoreRecord

LEMMA TypeStoreNum ==
    ASSUME TypeInv, StoreNum
    PROVE  TypeInv'
<1> USE DEF TypeInv, TypeOK
<1>1. pc = "storeNum" /\ UNCHANGED <<pk, onetime>>
  BY DEF StoreNum
<1>2. CASE kp' = SetNum(kp, loc.n + 1) /\ GoTo("pkCheck", loc) /\ UNCHANGED faults
  <2>1. loc.n + 1 \in 0..MaxKeypairs
    BY <1>1, RegionAssumption DEF LocalsOK, Locals
  <2>2. kp' \in Region
    BY <1>2, <2>1, SetNumType
  <2> QED
    BY <1>1, <1>2, <2>2 DEF GoTo, Steps, LocalsOK
<1>3. CASE Fault("write") /\ Return(FALSE) /\ UNCHANGED kp
  BY <1>1, <1>3, FaultType, ReturnTyped
<1> QED
  BY <1>2, <1>3 DEF StoreNum

LEMMA TypeCheckPrikey ==
    ASSUME TypeInv, CheckPrikey
    PROVE  TypeInv'
<1> USE DEF TypeInv, TypeOK
<1>1. pc = "pkCheck" /\ UNCHANGED <<kp, pk, onetime>>
  BY DEF CheckPrikey
<1>2. ASSUME NEW n \in 0..MaxKeypairs, CountRead(pk, n),
             n < MaxKeypairs, GoTo("pkRec", [loc EXCEPT !.n = n])
      PROVE  TypeInv'
  <2>1. faults' \in 0..MaxFaults
    BY <1>2, CountReadTyped
  <2>2. loc' \in Locals /\ loc'.n = n /\ loc'.index = loc.index /\ pc' = "pkRec" /\ ok' = ok
    BY <1>2, LocalsType DEF GoTo
  <2> QED
    BY <1>1, <1>2, <2>1, <2>2 DEF Steps, LocalsOK
<1>3. ASSUME GoTo("delCheck", loc), faults' \in 0..MaxFaults
      PROVE  TypeInv'
  BY <1>1, <1>3 DEF GoTo, Steps, LocalsOK
<1>4. CASE Num(pk) > 0 /\ Fault("read") /\ GoTo("delCheck", loc)
  BY <1>3, <1>4, FaultType
<1> QED
  BY <1>2, <1>3, <1>4, CountReadTyped DEF CheckPrikey

LEMMA TypePrikeyRecord ==
    ASSUME TypeInv, PrikeyRecord
    PROVE  TypeInv'
<1> USE DEF TypeInv, TypeOK
<1>1. pc = "pkRec" /\ UNCHANGED <<kp, onetime>>
  BY DEF PrikeyRecord
<1>2. CASE /\ pk' = Put(pk, loc.n + 1, [index |-> loc.index, key |-> loc.key])
           /\ GoTo("pkNum", loc)
           /\ UNCHANGED faults
  <2>1. loc.n + 1 \in Indexes
    BY <1>1, RegionAssumption DEF LocalsOK, Locals, Indexes
  <2>2. [index |-> loc.index, key |-> loc.key] \in Slot
    BY DEF Locals, Slot
  <2>3. pk' \in Region
    BY <1>2, <2>1, <2>2, PutType
  <2> QED
    BY <1>1, <1>2, <2>3 DEF GoTo, Steps, LocalsOK
<1>3. CASE /\ Fault("write") \/ Fault("alloc")
           /\ GoTo("delCheck", loc)
           /\ UNCHANGED pk
  BY <1>1, <1>3, FaultType DEF GoTo, Steps, LocalsOK
<1> QED
  BY <1>2, <1>3 DEF PrikeyRecord

LEMMA TypePrikeyNum ==
    ASSUME TypeInv, PrikeyNum
    PROVE  TypeInv'
<1> USE DEF TypeInv, TypeOK
<1>1. pc = "pkNum" /\ UNCHANGED <<kp, onetime>>
  BY DEF PrikeyNum
<1>2. CASE pk' = SetNum(pk, loc.n + 1) /\ Return(TRUE) /\ UNCHANGED faults
  <2>1. loc.n + 1 \in 0..MaxKeypairs
    BY <1>1, RegionAssumption DEF LocalsOK, Locals
  <2>2. pk' \in Region
    BY <1>2, <2>1, SetNumType
  <2> QED
    BY <1>1, <1>2, <2>2, ReturnTyped
<1>3. CASE Fault("write") /\ GoTo("delCheck", loc) /\ UNCHANGED pk
  BY <1>1, <1>3, FaultType DEF GoTo, Steps, LocalsOK
<1> QED
  BY <1>2, <1>3 DEF PrikeyNum

LEMMA TypeDeleteFlash ==
    ASSUME TypeInv, NEW i \in Indexes, DeleteFlash(i)
    PROVE  TypeInv'
<1>1. i \in 0..MaxKeypairs
  BY RegionAssumption DEF Indexes
<1>2. Call("delete", i, NoKey) \in Locals /\ Call("delete", i, NoKey).index = i
  BY <1>1, CallType
<1> QED
  BY <1>2 DEF DeleteFlash, GoTo, TypeInv, TypeOK, LocalsOK, Steps

LEMMA TypeFindKeypair ==
    ASSUME TypeInv, FindKeypair
    PROVE  TypeInv'
<1> USE DEF TypeInv, TypeOK
<1>1. pc = "delCheck" /\ UNCHANGED <<kp, pk, onetime>>
  BY DEF FindKeypair
<1> DEFINE p == Position(kp, loc.index)
<1>2. CASE /\ HasIndex(kp, loc.index)
           /\ GoTo("delNum", [loc EXCEPT !.n = Num(kp), !.at = p, !.rec = kp.slot[p]])
           /\ UNCHANGED faults
  <2>1. p \in 1..Num(kp) /\ Num(kp) \in 0..MaxKeypairs /\ p \in 0..MaxKeypairs
    BY <1>2, PositionFound, NumType, RegionAssumption
  <2>2. kp.slot[p] \in Slot
    BY <2>1, SlotType
  <2> HIDE DEF p
  <2> DEFINE rec == kp.slot[p]
             n == Num(kp)
  <2>a. rec \in Slot /\ n \in 0..MaxKeypairs /\ p \in 0..MaxKeypairs
    BY <2>1, <2>2
  <2>b. loc' = [loc EXCEPT !.n = n, !.at = p, !.rec = rec] /\ pc' = "delNum" /\ ok' = ok
    BY <1>2 DEF GoTo
  <2> HIDE DEF rec, n
  <2>c. loc' \in Locals /\ loc'.index = loc.index /\ loc'.n = n /\ loc'.at = p
    BY <2>a, <2>b DEF Locals
  <2>3. /\ loc' \in Locals /\ loc'.index = loc.index
        /\ loc'.n = Num(kp) /\ loc'.at = p /\ pc' = "delNum" /\ ok' = ok
    BY <2>b, <2>c DEF n
  <2> QED
    BY <1>1, <1>2, <2>1, <2>3 DEF Steps, LocalsOK
<1>3. CASE /\ \/ ~HasIndex(kp, loc.index) /\ UNCHANGED faults
              \/ Fault("read")
              \/ HasIndex(kp, loc.index) /\ Fault("alloc")
           /\ ReturnDelete(FALSE)
  BY <1>1, <1>3, FaultType, ReturnDeleteTyped
<1> QED
  BY <1>2, <1>3 DEF FindKeypair

LEMMA TypeDeleteNum ==
    ASSUME TypeInv, DeleteNum
    PROVE  TypeInv'
<1> USE DEF TypeInv, TypeOK
<1>1. pc = "delNum" /\ UNCHANGED <<pk, onetime>>
  BY DEF DeleteNum
<1>2. CASE kp' = SetNum(kp, loc.n - 1) /\ GoTo("delData", loc) /\ UNCHANGED faults
  <2>1. loc.n - 1 \in 0..MaxKeypairs
    BY <1>1, RegionAssumption DEF LocalsOK, Locals
  <2>2. kp' \in Region
    BY <1>2, <2>1, SetNumType
  <2> QED
    BY <1>1, <1>2, <2>2 DEF GoTo, Steps, LocalsOK
<1>3. CASE Fault("write") /\ ReturnDelete(FALSE) /\ UNCHANGED kp
  BY <1>1, <1>3, FaultType, ReturnDeleteTyped
<1> QED
  BY <1>2, <1>3 DEF DeleteNum

LEMMA TypeDeleteData ==
    ASSUME TypeInv, DeleteData
    PROVE  TypeInv'
<1> USE DEF TypeInv, TypeOK
<1>1. pc = "delData" /\ UNCHANGED <<pk, onetime>>
  BY DEF DeleteData
<1>2. CASE kp' = Drop(kp, loc.at, loc.n) /\ GoTo("dpkCheck", loc) /\ UNCHANGED faults
  <2>1. loc.n \in 0..MaxKeypairs /\ loc.at \in 1..loc.n
    BY <1>1 DEF LocalsOK, Locals
  <2>2. kp' \in Region
    BY <1>2, <2>1, DropType
  <2> QED
    BY <1>1, <1>2, <2>2 DEF GoTo, Steps, LocalsOK
<1>3. CASE /\ \/ Fault("write")
              \/ loc.at < loc.n /\ (Fault("read") \/ Fault("alloc"))
           /\ GoTo("delUndo", loc)
           /\ UNCHANGED kp
  BY <1>1, <1>3, FaultType DEF GoTo, Steps, LocalsOK
<1> QED
  BY <1>2, <1>3 DEF DeleteData

LEMMA TypeDeleteUndo ==
    ASSUME TypeInv, DeleteUndo
    PROVE  TypeInv'
<1> USE DEF TypeInv, TypeOK
<1>1. pc = "delUndo" /\ UNCHANGED <<pk, onetime>>
  BY DEF DeleteUndo
<1>2. SetNum(kp, loc.n) \in Region
  BY SetNumType DEF Locals
<1> QED
  BY <1>1, <1>2, FaultType, ReturnDeleteTyped DEF DeleteUndo

LEMMA TypeFindPrikey ==
    ASSUME TypeInv, FindPrikey
    PROVE  TypeInv'
<1> USE DEF TypeInv, TypeOK
<1>1. pc = "dpkCheck" /\ UNCHANGED <<kp, pk, onetime>>
  BY DEF FindPrikey
<1> DEFINE p == Position(pk, loc.index)
           n == Num(pk)
<1>2. CASE /\ HasIndex(pk, loc.index)
           /\ GoTo("dpkNum", [loc EXCEPT !.n = n, !.at = p])
           /\ UNCHANGED faults
  <2>1. p \in 1..n /\ n \in 0..MaxKeypairs /\ p \in 0..MaxKeypairs
    BY <1>2, PositionFound, NumType, RegionAssumption
  <2>2. loc' = [loc EXCEPT !.n = n, !.at = p] /\ pc' = "dpkNum" /\ ok' = ok
    BY <1>2 DEF GoTo
  <2> HIDE DEF p, n
  <2>3. loc' \in Locals /\ loc'.index = loc.index /\ loc'.n = n /\ loc'.at = p
    BY <2>1, <2>2 DEF Locals
  <2> QED
    BY <1>1, <1>2, <2>1, <2>2, <2>3 DEF Steps, LocalsOK
<1>3. CASE pk.num = 0 /\ ReturnDelete(TRUE) /\ UNCHANGED faults
  BY <1>1, <1>3, ReturnDeleteTyped
<1>4. CASE /\ \/ pk.num # 0 /\ ~HasIndex(pk, loc.index) /\ UNCHANGED faults
              \/ Fault("read")
           /\ GoTo("restoreRec", loc)
  BY <1>1, <1>4, FaultType DEF GoTo, Steps, LocalsOK
<1> QED
  BY <1>2, <1>3, <1>4 DEF FindPrikey

LEMMA TypeDeletePrikeyNum ==
    ASSUME TypeInv, DeletePrikeyNum
    PROVE  TypeInv'
<1> USE DEF TypeInv, TypeOK
<1>1. pc = "dpkNum" /\ UNCHANGED <<kp, onetime>>
  BY DEF DeletePrikeyNum
<1>2. CASE pk' = SetNum(pk, loc.n - 1) /\ GoTo("dpkData", loc) /\ UNCHANGED faults
  <2>1. loc.n - 1 \in 0..MaxKeypairs
    BY <1>1, RegionAssumption DEF LocalsOK, Locals
  <2>2. pk' \in Region
    BY <1>2, <2>1, SetNumType
  <2> QED
    BY <1>1, <1>2, <2>2 DEF GoTo, Steps, LocalsOK
<1>3. CASE Fault("write") /\ GoTo("restoreRec", loc) /\ UNCHANGED pk
  BY <1>1, <1>3, FaultType DEF GoTo, Steps, LocalsOK
<1> QED
  BY <1>2, <1>3 DEF DeletePrikeyNum

LEMMA TypeDeletePrikeyData ==
    ASSUME TypeInv, DeletePrikeyData
    PROVE  TypeInv'
<1> USE DEF TypeInv, TypeOK
<1>1. pc = "dpkData" /\ UNCHANGED <<kp, onetime>>
  BY DEF DeletePrikeyData
<1>2. CASE pk' = Drop(pk, loc.at, loc.n) /\ ReturnDelete(TRUE) /\ UNCHANGED faults
  <2>1. loc.n \in 0..MaxKeypairs /\ loc.at \in 1..loc.n
    BY <1>1 DEF LocalsOK, Locals
  <2>2. pk' \in Region
    BY <1>2, <2>1, DropType
  <2> QED
    BY <1>1, <1>2, <2>2, ReturnDeleteTyped
<1>3. CASE /\ \/ Fault("write")
              \/ loc.at < loc.n /\ (Fault("read") \/ Fault("alloc"))
           /\ GoTo("dpkUndo", loc)
           /\ UNCHANGED pk
  BY <1>1, <1>3, FaultType DEF GoTo, Steps, LocalsOK
<1> QED
  BY <1>2, <1>3 DEF DeletePrikeyData

LEMMA TypeDeletePrikeyUndo ==
    ASSUME TypeInv, DeletePrikeyUndo
    PROVE  TypeInv'
<1> USE DEF TypeInv, TypeOK
<1>1. pc = "dpkUndo" /\ UNCHANGED <<kp, onetime>>
  BY DEF DeletePrikeyUndo
<1>2. SetNum(pk, loc.n) \in Region
  BY SetNumType DEF Locals
<1>3. CASE pk' = SetNum(pk, loc.n) /\ ReturnDelete(TRUE) /\ UNCHANGED faults
  BY <1>1, <1>2, <1>3, ReturnDeleteTyped
<1>4. CASE Fault("write") /\ GoTo("restoreRec", loc) /\ UNCHANGED pk
  BY <1>1, <1>4, FaultType DEF GoTo, Steps, LocalsOK
<1> QED
  BY <1>3, <1>4 DEF DeletePrikeyUndo

LEMMA TypeRestoreNum ==
    ASSUME TypeInv, RestoreNum
    PROVE  TypeInv'
<1> USE DEF TypeInv, TypeOK
<1>1. pc = "restoreNum" /\ Return(FALSE) /\ UNCHANGED <<pk, onetime>>
  BY DEF RestoreNum
<1>2. loc.n + 1 \in 0..MaxKeypairs
  BY <1>1, RegionAssumption DEF LocalsOK, Locals
<1>3. SetNum(kp, loc.n + 1) \in Region
  BY <1>2, SetNumType
<1> QED
  BY <1>1, <1>3, FaultType, ReturnTyped DEF RestoreNum

LEMMA TypeOnetime ==
    ASSUME TypeInv, CreateOnetime \/ DeleteOnetime
    PROVE  TypeInv'
<1>1. onetime' \subseteq {"keypair", "prikey"}
  BY DEF TypeInv, TypeOK, CreateOnetime, DeleteOnetime
<1>2. ok' \in BOOLEAN
  <2>1. CASE CreateOnetime
    BY <2>1 DEF CreateOnetime
  <2>2. CASE DeleteOnetime
    <3>1. ("keypair" \in onetime) \in BOOLEAN
      OBVIOUS
    <3>2. ok' = ("keypair" \in onetime)
      BY <2>2, Zenon DEF DeleteOnetime
    <3> QED
      BY <3>1, <3>2, Zenon
  <2> QED
    BY <2>1, <2>2
<1>3. UNCHANGED <<kp, pk, pc, loc>>
  BY DEF CreateOnetime, DeleteOnetime
<1>4. faults' \in 0..MaxFaults
  BY FaultType DEF TypeInv, TypeOK, CreateOnetime, DeleteOnetime
<1> QED
  BY <1>1, <1>2, <1>3, <1>4 DEF TypeInv, TypeOK, LocalsOK

LEMMA TypeCrash ==
    ASSUME TypeInv, Crash
    PROVE  TypeInv'
BY FaultType, NoCallType DEF TypeInv, TypeOK, LocalsOK, Crash, Steps

LEMMA TypeNext == TypeInv /\ [Next]_vars => TypeInv'
<1> SUFFICES ASSUME TypeInv, [Next]_vars PROVE TypeInv'
  OBVIOUS
<1>1. CASE Create
  BY <1>1, TypeCreateFlash, TypeOnetime, TypeStoreRecord, TypeStoreNum,
     TypeCheckPrikey, TypePrikeyRecord, TypePrikeyNum DEF Create
<1>2. CASE Delete
  BY <1>2, TypeDeleteFlash, TypeOnetime, TypeFindKeypair, TypeDeleteNum,
     TypeDeleteData, TypeDeleteUndo, TypeFindPrikey, TypeDeletePrikeyNum,
     TypeDeletePrikeyData, TypeDeletePrikeyUndo, TypeRestoreRecord,
     TypeRestoreNum DEF Delete
<1>3. CASE Crash
  BY <1>3, TypeCrash
<1>4. CASE UNCHANGED vars
  BY <1>4 DEF vars, TypeInv, TypeOK, LocalsOK
<1> QED
  BY <1>1, <1>2, <1>3, <1>4 DEF Next

LEMMA TypeInvariance == Spec => []TypeInv
BY TypeInit, TypeNext, PTL DEF Spec

(* Every reachable state of the keypair store is well typed: counts and    *)
(* positions never leave the region, whatever fails and however often.     *)
THEOREM TypeCorrect == Spec => []TypeOK
<1>1. TypeInv => TypeOK
  BY DEF TypeInv
<1> QED
  BY <1>1, TypeInvariance, PTL

-----------------------------------------------------------------------------
(* Both lists stay readable                                                *)
(*                                                                         *)
(* That each list is readable is not inductive: a count that is put up or  *)
(* back shows records that no reader saw before.  The invariant says what  *)
(* those records are while a call is on its way to such a write.           *)

ReadInv ==
    /\ ListsReadable
    /\ pc \in {"storeRec", "storeNum", "dpkCheck", "dpkNum", "dpkData", "dpkUndo",
               "restoreRec", "restoreNum"} => ~HasIndex(kp, loc.index)
    /\ pc \in {"delNum", "delData", "delUndo", "dpkCheck", "dpkNum", "dpkData",
               "dpkUndo", "restoreRec"} => loc.rec.index = loc.index
    /\ pc \in {"storeNum", "restoreNum"} =>
        loc.n = Num(kp) /\ kp.slot[loc.n + 1].index = loc.index
    /\ pc \in {"delNum", "delData", "delUndo"} =>
        ReadableUpto(kp, loc.n) /\ kp.slot[loc.at].index = loc.index
    /\ pc \in {"delData", "delUndo"} => Num(kp) = loc.n - 1
    /\ pc \in {"pkRec", "pkNum"} => loc.n = Num(pk) /\ ~HasIndex(pk, loc.index)
    /\ pc = "pkNum" => pk.slot[loc.n + 1].index = loc.index
    /\ pc \in {"dpkNum", "dpkData", "dpkUndo"} => ReadableUpto(pk, loc.n)
    /\ pc \in {"dpkData", "dpkUndo"} => Num(pk) = loc.n - 1

(* A count that goes down by one hides a record and shows none.            *)
LEMMA ReadableLess ==
    ASSUME NEW r, NEW n \in Nat, NEW m \in Nat, m <= n, ReadableUpto(r, n)
    PROVE  ReadableUpto(r, m)
BY DEF ReadableUpto

(* A record behind the counted ones can be written and then counted, if    *)
(* none of those has its index.                                            *)
LEMMA ReadablePut ==
    ASSUME NEW r \in Region, NEW rec \in Slot, Num(r) + 1 \in Indexes
    PROVE  /\ Readable(r) => Readable(Put(r, Num(r) + 1, rec))
           /\ \A i : HasIndex(Put(r, Num(r) + 1, rec), i) <=> HasIndex(r, i)
<1>1. Num(Put(r, Num(r) + 1, rec)) = Num(r)
  BY PutType
<1>2. \A p \in 1..Num(r) : Put(r, Num(r) + 1, rec).slot[p] = r.slot[p]
  <2> SUFFICES ASSUME NEW p \in 1..Num(r)
               PROVE  Put(r, Num(r) + 1, rec).slot[p] = r.slot[p]
    OBVIOUS
  <2>1. p \in Indexes \ {Num(r) + 1}
    BY NumType, SlotType
  <2> QED
    BY <2>1, PutType
<1> QED
  BY <1>1, <1>2 DEF Readable, ReadableUpto, HasIndex

LEMMA ReadableCount ==
    ASSUME NEW r \in Region, Readable(r), Num(r) + 1 \in Indexes,
           r.slot[Num(r) + 1].index # 0, ~HasIndex(r, r.slot[Num(r) + 1].index)
    PROVE  Readable(SetNum(r, Num(r) + 1))
<1>1. Num(r) \in Nat /\ Num(r) + 1 \in 0..MaxKeypairs
  BY NumType, RegionAssumption DEF Indexes
<1>2. Num(SetNum(r, Num(r) + 1)) = Num(r) + 1 /\ SetNum(r, Num(r) + 1).slot = r.slot
  BY <1>1, SetNumType
<1>3. ReadableUpto(r, Num(r) + 1)
  BY <1>1 DEF Readable, ReadableUpto, HasIndex
<1> QED
  BY <1>2, <1>3 DEF Readable, ReadableUpto

(* Taking out the record of an index leaves the others readable and the    *)
(* index gone.                                                             *)
LEMMA ReadableDrop ==
    ASSUME NEW r \in Region, NEW n \in 0..MaxKeypairs, NEW p \in 1..n,
           Num(r) = n - 1, ReadableUpto(r, n)
    PROVE  /\ Readable(Drop(r, p, n))
           /\ ~HasIndex(Drop(r, p, n), r.slot[p].index)
<1> DEFINE d == Drop(r, p, n)
<1>1. /\ Num(d) = n - 1
      /\ \A q \in 1..(n - 1) : d.slot[q] = IF q < p THEN r.slot[q] ELSE r.slot[q + 1]
  BY DropType
<1>2. n \in Nat
  BY RegionAssumption
<1> HIDE DEF d
<1>3. \A q \in 1..(n - 1) : d.slot[q].index # 0
  BY <1>1, <1>2 DEF ReadableUpto
<1>4. \A q, s \in 1..(n - 1) : d.slot[q].index = d.slot[s].index => q = s
  <2> SUFFICES ASSUME NEW q \in 1..(n - 1), NEW s \in 1..(n - 1),
                      d.slot[q].index = d.slot[s].index
               PROVE  q = s
    OBVIOUS
  <2>1. q \in 1..n /\ q + 1 \in 1..n /\ s \in 1..n /\ s + 1 \in 1..n
    BY <1>2
  <2>2. CASE q < p /\ s < p
    BY <1>1, <2>1, <2>2 DEF ReadableUpto
  <2>3. CASE q < p /\ ~(s < p)
    BY <1>1, <2>1, <2>3 DEF ReadableUpto
  <2>4. CASE ~(q < p) /\ s < p
    BY <1>1, <2>1, <2>4 DEF ReadableUpto
  <2>5. CASE ~(q < p) /\ ~(s < p)
    BY <1>1, <2>1, <2>5 DEF ReadableUpto
  <2> QED
    BY <2>2, <2>3, <2>4, <2>5
<1>5. \A q \in 1..(n - 1) : d.slot[q].index # r.slot[p].index
  <2> SUFFICES ASSUME NEW q \in 1..(n - 1) PROVE d.slot[q].index # r.slot[p].index
    OBVIOUS
  <2>1. q \in 1..n /\ q + 1 \in 1..n
    BY <1>2
  <2>2. CASE q < p
    BY <1>1, <2>1, <2>2 DEF ReadableUpto
  <2>3. CASE ~(q < p)
    BY <1>1, <2>1, <2>3 DEF ReadableUpto
  <2> QED
    BY <2>2, <2>3
<1> QED
  BY <1>1, <1>3, <1>4, <1>5 DEF Readable, ReadableUpto, HasIndex, d

(* Reads of the flash file do not fail.                                    *)
ReadsWork == "read" \notin FaultKinds

LEMMA CountReadWorks ==
    ASSUME ReadsWork, NEW r, NEW n, CountRead(r, n)
    PROVE  n = Num(r)
BY DEF ReadsWork, CountRead, Fault

LEMMA ReturnReadable ==
    ASSUME NEW success, Return(success), ListsReadable'
    PROVE  ReadInv'
BY DEF Return, ReadInv

LEMMA ReturnDeleteReadable ==
    ASSUME NEW success, ReturnDelete(success), ListsReadable'
    PROVE  ReadInv'
BY ReturnReadable DEF ReturnDelete

(* A region that a step leaves alone stays readable.                       *)
LEMMA KeepReadable ==
    ASSUME ReadInv
    PROVE  /\ UNCHANGED <<kp, pk>> => ListsReadable'
           /\ UNCHANGED kp /\ Readable(pk)' => ListsReadable'
           /\ UNCHANGED pk /\ Readable(kp)' => ListsReadable'
BY DEF ReadInv, ListsReadable, Readable, ReadableUpto, Num

LEMMA SameRegion ==
    /\ UNCHANGED kp => /\ Num(kp)' = Num(kp)
                       /\ \A i : HasIndex(kp, i)' <=> HasIndex(kp, i)
                       /\ \A n : ReadableUpto(kp, n)' <=> ReadableUpto(kp, n)
    /\ UNCHANGED pk => /\ Num(pk)' = Num(pk)
                       /\ \A i : HasIndex(pk, i)' <=> HasIndex(pk, i)
                       /\ \A n : ReadableUpto(pk, n)' <=> ReadableUpto(pk, n)
BY DEF HasIndex, ReadableUpto, Num

LEMMA ReadCreateFlash ==
    ASSUME ReadsWork, TypeInv, ReadInv, NEW key \in FreshKeys, CreateFlash(key)
    PROVE  ReadInv'
<1>1. pc = "idle" /\ UNCHANGED <<kp, pk>>
  BY DEF CreateFlash
<1>2. ListsReadable'
  BY <1>1, KeepReadable
<1>3. \/ UNCHANGED <<pc, loc>>
      \/ /\ Num(kp) < MaxKeypairs
         /\ pc' = "storeRec"
         /\ loc' = Call("create", FreeIndex({kp.slot[p].index : p \in 1..Num(kp)}), key)
  <2>1. Num(kp) \in Nat /\ Num(kp) <= MaxKeypairs
    BY NumType, RegionAssumption DEF TypeInv, TypeOK
  <2>2. PICK n \in 0..Num(kp) :
        /\ \/ n = Num(kp) /\ UNCHANGED faults
           \/ n < Num(kp) /\ Fault("read")
        /\ IF Num(kp) = MaxKeypairs /\ (n > 0 \/ faults' = faults)
           THEN ok' = FALSE /\ UNCHANGED <<pc, loc>>
           ELSE GoTo("storeRec",
                     Call("create", FreeIndex({kp.slot[p].index : p \in 1..n}), key))
    BY DEF CreateFlash
  <2>3. n = Num(kp) /\ UNCHANGED faults
    BY <2>2 DEF Fault, ReadsWork
  <2>4. CASE Num(kp) = MaxKeypairs
    BY <2>2, <2>3, <2>4
  <2>5. CASE Num(kp) # MaxKeypairs
    <3>1. GoTo("storeRec",
               Call("create", FreeIndex({kp.slot[p].index : p \in 1..Num(kp)}), key))
      BY <2>2, <2>3, <2>5
    <3> QED
      BY <2>1, <2>5, <3>1, RegionAssumption DEF GoTo
  <2> QED
    BY <2>4, <2>5
<1>4. CASE UNCHANGED <<pc, loc>>
  BY <1>1, <1>2, <1>4 DEF ReadInv
<1>5. CASE /\ Num(kp) < MaxKeypairs
           /\ pc' = "storeRec"
           /\ loc' = Call("create", FreeIndex({kp.slot[p].index : p \in 1..Num(kp)}), key)
  <2>1. kp \in Region /\ Num(kp) \in Nat
    BY NumType DEF TypeInv, TypeOK
  <2>2. \A p \in 1..Num(kp) : kp.slot[p].index # loc'.index
    BY <1>5, <2>1, FreeIndexFree DEF Call
  <2>3. ~HasIndex(kp, loc'.index)
    BY <2>2 DEF HasIndex
  <2>4. ~HasIndex(kp, loc.index)'
    BY <1>1, <2>3 DEF HasIndex, Num
  <2> QED
    BY <1>2, <1>5, <2>4 DEF ReadInv
<1> QED
  BY <1>3, <1>4, <1>5

LEMMA ReadAppend ==
    ASSUME ReadsWork, TypeInv, ReadInv, NEW rec \in Slot, rec.index = loc.index,
           NEW next \in {"storeNum", "restoreNum"}, pc \in {"storeRec", "restoreRec"},
           AppendKeypair(rec, next), UNCHANGED <<pk, onetime>>
    PROVE  ReadInv'
<1> DEFINE n == Num(kp)
<1>1. CASE \E m \in 0..MaxKeypairs :
            /\ CountRead(kp, m)
            /\ m + 1 <= Fits
            /\ kp' = Put(kp, m + 1, rec)
            /\ GoTo(next, [loc EXCEPT !.n = m])
  <2>1. n + 1 <= Fits /\ kp' = Put(kp, n + 1, rec) /\ GoTo(next, [loc EXCEPT !.n = n])
    BY <1>1, CountReadWorks
  <2>2. kp \in Region /\ n \in Nat /\ n \in 0..MaxKeypairs /\ n + 1 \in Indexes
    BY <2>1, NumType, FitsType, RegionAssumption DEF TypeInv, TypeOK, Indexes
  <2>3. /\ Readable(kp) /\ ~HasIndex(kp, loc.index)
    BY DEF ReadInv, ListsReadable
  <2>4. /\ Readable(kp') /\ ~HasIndex(kp', loc.index)
        /\ Num(kp') = n /\ kp'.slot[n + 1] = rec
    BY <2>1, <2>2, <2>3, ReadablePut, PutType
  <2>5. loc'.n = n /\ loc'.index = loc.index /\ pc' = next
    BY <2>1, <2>2, LocalsType DEF GoTo, TypeInv, TypeOK
  <2>6. Readable(kp)' /\ ~HasIndex(kp, loc.index)' /\ Num(kp)' = n
    BY <2>4, <2>5 DEF Readable, ReadableUpto, HasIndex, Num
  <2>7. ListsReadable'
    BY <2>6, KeepReadable
  <2> QED
    BY <2>4, <2>5, <2>6, <2>7 DEF ReadInv
<1>2. CASE Return(FALSE) /\ UNCHANGED kp
  BY <1>2, KeepReadable, ReturnReadable
<1> QED
  BY <1>1, <1>2 DEF AppendKeypair

LEMMA ReadStoreRecord ==
    ASSUME ReadsWork, TypeInv, ReadInv, StoreRecord
    PROVE  ReadInv'
<1> DEFINE rec == [index |-> loc.index, key |-> loc.key]
<1>1. rec \in Slot /\ rec.index = loc.index
  BY DEF TypeInv, TypeOK, Locals, Slot
<1>2. pc = "storeRec" /\ AppendKeypair(rec, "storeNum") /\ UNCHANGED <<pk, onetime>>
  BY DEF StoreRecord
<1> HIDE DEF rec
<1> QED
  BY <1>1, <1>2, ReadAppend

LEMMA ReadRestoreRecord ==
    ASSUME ReadsWork, TypeInv, ReadInv, RestoreRecord
    PROVE  ReadInv'
<1>1. pc = "restoreRec" /\ AppendKeypair(loc.rec, "restoreNum") /\ UNCHANGED <<pk, onetime>>
  BY DEF RestoreRecord
<1>2. loc.rec \in Slot
  BY DEF TypeInv, TypeOK, Locals
<1>3. loc.rec.index = loc.index
  BY <1>1 DEF ReadInv
<1> QED
  BY <1>1, <1>2, <1>3, ReadAppend

(* The count that makes the appended record visible.                       *)
LEMMA CountAppended ==
    ASSUME TypeInv, ReadInv, pc \in {"storeNum", "restoreNum"},
           kp' = SetNum(kp, loc.n + 1), UNCHANGED pk
    PROVE  ListsReadable'
<1>1. kp \in Region /\ loc.n \in Nat /\ loc.n < MaxKeypairs
  BY RegionAssumption DEF TypeInv, TypeOK, LocalsOK, Locals
<1>2. loc.n = Num(kp) /\ kp.slot[loc.n + 1].index = loc.index
      /\ Readable(kp) /\ ~HasIndex(kp, loc.index)
  BY DEF ReadInv, ListsReadable
<1>3. loc.n + 1 \in Indexes /\ loc.index # 0
  BY <1>1, RegionAssumption DEF Indexes, TypeInv, LocalsOK
<1>4. Readable(kp')
  BY <1>1, <1>2, <1>3, ReadableCount
<1>5. Readable(kp)'
  BY <1>4 DEF Readable, ReadableUpto, Num
<1> QED
  BY <1>5, KeepReadable

LEMMA ReadStoreNum ==
    ASSUME TypeInv, ReadInv, StoreNum
    PROVE  ReadInv'
<1>1. CASE kp' = SetNum(kp, loc.n + 1) /\ GoTo("pkCheck", loc)
  BY <1>1, CountAppended DEF StoreNum, GoTo, ReadInv
<1>2. CASE Return(FALSE) /\ UNCHANGED kp
  BY <1>2, KeepReadable, ReturnReadable DEF StoreNum
<1> QED
  BY <1>1, <1>2 DEF StoreNum

LEMMA ReadRestoreNum ==
    ASSUME TypeInv, ReadInv, RestoreNum
    PROVE  ReadInv'
<1>1. ListsReadable'
  BY CountAppended, KeepReadable DEF RestoreNum
<1> QED
  BY <1>1, ReturnReadable DEF RestoreNum

LEMMA ReadCheckPrikey ==
    ASSUME ReadsWork, TypeInv, ReadInv, CheckPrikey
    PROVE  ReadInv'
<1>1. UNCHANGED <<kp, pk>> /\ ListsReadable'
  BY KeepReadable DEF CheckPrikey
<1>2. ASSUME NEW n \in 0..MaxKeypairs, CountRead(pk, n),
             \A p \in 1..n : pk.slot[p].index # loc.index,
             GoTo("pkRec", [loc EXCEPT !.n = n])
      PROVE  ReadInv'
  <2>1. n = Num(pk) /\ ~HasIndex(pk, loc.index)
    BY <1>2, CountReadWorks DEF HasIndex
  <2>2. loc'.n = n /\ loc'.index = loc.index /\ pc' = "pkRec"
    BY <1>2, LocalsType DEF GoTo, TypeInv, TypeOK
  <2>3. Num(pk)' = n /\ ~HasIndex(pk, loc.index)'
    BY <1>1, <2>1, <2>2 DEF HasIndex, Num
  <2> QED
    BY <1>1, <2>2, <2>3 DEF ReadInv
<1>3. CASE GoTo("delCheck", loc)
  BY <1>1, <1>3 DEF GoTo, ReadInv
<1> QED
  BY <1>2, <1>3 DEF CheckPrikey

LEMMA ReadPrikeyRecord ==
    ASSUME TypeInv, ReadInv, PrikeyRecord
    PROVE  ReadInv'
<1>1. pc = "pkRec" /\ UNCHANGED kp
  BY DEF PrikeyRecord
<1>2. CASE /\ pk' = Put(pk, loc.n + 1, [index |-> loc.index, key |-> loc.key])
           /\ GoTo("pkNum", loc)
  <2> DEFINE rec == [index |-> loc.index, key |-> loc.key]
  <2>1. pk \in Region /\ loc.n + 1 \in Indexes
    BY <1>1, RegionAssumption DEF TypeInv, TypeOK, LocalsOK, Locals, Indexes
  <2>2. rec \in Slot /\ rec.index = loc.index
    BY DEF TypeInv, TypeOK, Locals, Slot
  <2>3. loc.n = Num(pk) /\ ~HasIndex(pk, loc.index) /\ Readable(pk)
    BY <1>1 DEF ReadInv, ListsReadable
  <2>4. pk' = Put(pk, loc.n + 1, rec)
    BY <1>2
  <2> HIDE DEF rec
  <2>5. /\ Readable(pk') /\ ~HasIndex(pk', loc.index)
        /\ Num(pk') = loc.n /\ pk'.slot[loc.n + 1] = rec
    BY <2>1, <2>2, <2>3, <2>4, ReadablePut, PutType
  <2>6. UNCHANGED loc /\ pc' = "pkNum"
    BY <1>2 DEF GoTo
  <2>7. Readable(pk)' /\ ~HasIndex(pk, loc.index)' /\ Num(pk)' = loc.n
    BY <2>5, <2>6 DEF Readable, ReadableUpto, HasIndex, Num
  <2>8. ListsReadable'
    BY <1>1, <2>7, KeepReadable
  <2> QED
    BY <2>2, <2>5, <2>6, <2>7, <2>8 DEF ReadInv
<1>3. CASE GoTo("delCheck", loc) /\ UNCHANGED pk
  BY <1>1, <1>3, KeepReadable DEF GoTo, ReadInv
<1> QED
  BY <1>2, <1>3 DEF PrikeyRecord

LEMMA ReadPrikeyNum ==
    ASSUME TypeInv, ReadInv, PrikeyNum
    PROVE  ReadInv'
<1>1. pc = "pkNum" /\ UNCHANGED kp
  BY DEF PrikeyNum
<1>2. CASE pk' = SetNum(pk, loc.n + 1) /\ Return(TRUE)
  <2>1. pk \in Region /\ loc.n \in Nat /\ loc.n < MaxKeypairs
    BY <1>1, RegionAssumption DEF TypeInv, TypeOK, LocalsOK, Locals
  <2>2. loc.n = Num(pk) /\ pk.slot[loc.n + 1].index = loc.index
        /\ Readable(pk) /\ ~HasIndex(pk, loc.index)
    BY <1>1 DEF ReadInv, ListsReadable
  <2>3. loc.n + 1 \in Indexes /\ loc.index # 0
    BY <1>1, <2>1, RegionAssumption DEF Indexes, TypeInv, LocalsOK
  <2>4. Readable(pk')
    BY <1>2, <2>1, <2>2, <2>3, ReadableCount
  <2>5. Readable(pk)'
    BY <2>4 DEF Readable, ReadableUpto, Num
  <2> QED
    BY <1>1, <1>2, <2>5, KeepReadable, ReturnReadable
<1>3. CASE GoTo("delCheck", loc) /\ UNCHANGED pk
  BY <1>1, <1>3, KeepReadable DEF GoTo, ReadInv
<1> QED
  BY <1>2, <1>3 DEF PrikeyNum

LEMMA ReadDeleteFlash ==
    ASSUME ReadInv, NEW i \in Indexes, DeleteFlash(i)
    PROVE  ReadInv'
BY KeepReadable DEF DeleteFlash, GoTo, ReadInv

LEMMA ReadFindKeypair ==
    ASSUME TypeInv, ReadInv, FindKeypair
    PROVE  ReadInv'
<1>1. UNCHANGED <<kp, pk>> /\ ListsReadable'
  BY KeepReadable DEF FindKeypair
<1> DEFINE p == Position(kp, loc.index)
           n == Num(kp)
           rec == kp.slot[p]
<1>2. CASE /\ HasIndex(kp, loc.index)
           /\ GoTo("delNum", [loc EXCEPT !.n = n, !.at = p, !.rec = rec])
  <2>1. p \in 1..n /\ rec.index = loc.index
    BY <1>2, PositionFound DEF TypeInv, TypeOK
  <2>2. loc' = [loc EXCEPT !.n = n, !.at = p, !.rec = rec] /\ pc' = "delNum"
    BY <1>2 DEF GoTo
  <2>3. ReadableUpto(kp, n)
    BY DEF ReadInv, ListsReadable, Readable
  <2> HIDE DEF p, n, rec
  <2>4. loc'.index = loc.index /\ loc'.n = n /\ loc'.at = p /\ loc'.rec = rec
    BY <2>2 DEF TypeInv, TypeOK, Locals
  <2>5. ReadableUpto(kp, loc.n)' /\ (kp.slot[loc.at].index = loc.index)'
    BY <1>1, <2>1, <2>3, <2>4 DEF ReadableUpto, rec
  <2> QED
    BY <1>1, <2>1, <2>2, <2>4, <2>5 DEF ReadInv
<1>3. CASE ReturnDelete(FALSE)
  BY <1>1, <1>3, ReturnDeleteReadable
<1> QED
  BY <1>2, <1>3 DEF FindKeypair

LEMMA ReadDeleteNum ==
    ASSUME TypeInv, ReadInv, DeleteNum
    PROVE  ReadInv'
<1>1. pc = "delNum" /\ UNCHANGED pk
  BY DEF DeleteNum
<1>2. CASE kp' = SetNum(kp, loc.n - 1) /\ GoTo("delData", loc)
  <2>1. kp \in Region /\ loc.n \in Nat /\ loc.n - 1 \in 0..MaxKeypairs /\ loc.n - 1 \in Nat
    BY <1>1, RegionAssumption DEF TypeInv, TypeOK, LocalsOK, Locals
  <2>2. kp'.slot = kp.slot /\ Num(kp') = loc.n - 1
    BY <1>2, <2>1, SetNumType
  <2>3. ReadableUpto(kp, loc.n) /\ kp.slot[loc.at].index = loc.index
    BY <1>1 DEF ReadInv
  <2>4. ReadableUpto(kp, loc.n - 1)
    BY <2>1, <2>3, ReadableLess
  <2>5. UNCHANGED loc /\ pc' = "delData"
    BY <1>2 DEF GoTo
  <2>6. /\ Num(kp)' = (loc.n - 1)' /\ Readable(kp)'
        /\ ReadableUpto(kp, loc.n)' /\ (kp.slot[loc.at].index = loc.index)'
    BY <2>2, <2>3, <2>4, <2>5 DEF Readable, ReadableUpto, Num
  <2>7. ListsReadable'
    BY <1>1, <2>6, KeepReadable
  <2>8. loc.rec.index = loc.index
    BY <1>1 DEF ReadInv
  <2> QED
    BY <2>5, <2>6, <2>7, <2>8 DEF ReadInv
<1>3. CASE ReturnDelete(FALSE) /\ UNCHANGED kp
  BY <1>1, <1>3, KeepReadable, ReturnDeleteReadable
<1> QED
  BY <1>2, <1>3 DEF DeleteNum

LEMMA ReadDeleteData ==
    ASSUME TypeInv, ReadInv, DeleteData
    PROVE  ReadInv'
<1>1. pc = "delData" /\ UNCHANGED pk
  BY DEF DeleteData
<1>2. CASE kp' = Drop(kp, loc.at, loc.n) /\ GoTo("dpkCheck", loc)
  <2>1. kp \in Region /\ loc.n \in 0..MaxKeypairs /\ loc.at \in 1..loc.n
    BY <1>1 DEF TypeInv, TypeOK, LocalsOK, Locals
  <2>2. /\ Num(kp) = loc.n - 1 /\ ReadableUpto(kp, loc.n)
        /\ kp.slot[loc.at].index = loc.index /\ loc.rec.index = loc.index
    BY <1>1 DEF ReadInv
  <2>3. Readable(kp') /\ ~HasIndex(kp', loc.index)
    BY <1>2, <2>1, <2>2, ReadableDrop
  <2>4. UNCHANGED loc /\ pc' = "dpkCheck"
    BY <1>2 DEF GoTo
  <2>5. Readable(kp)' /\ ~HasIndex(kp, loc.index)'
    BY <2>3, <2>4 DEF Readable, ReadableUpto, HasIndex, Num
  <2>6. ListsReadable'
    BY <1>1, <2>5, KeepReadable
  <2> QED
    BY <2>2, <2>4, <2>5, <2>6 DEF ReadInv
<1>3. CASE GoTo("delUndo", loc) /\ UNCHANGED kp
  <2>1. ListsReadable'
    BY <1>1, <1>3, KeepReadable
  <2>2. /\ Num(kp) = loc.n - 1 /\ ReadableUpto(kp, loc.n)
        /\ kp.slot[loc.at].index = loc.index /\ loc.rec.index = loc.index
    BY <1>1 DEF ReadInv
  <2>3. pc' = "delUndo" /\ UNCHANGED <<loc, kp>>
    BY <1>3 DEF GoTo
  <2>4. (Num(kp) = loc.n - 1)' /\ ReadableUpto(kp, loc.n)'
        /\ (kp.slot[loc.at].index = loc.index)'
    BY <2>2, <2>3 DEF Num, ReadableUpto
  <2> QED
    BY <2>1, <2>2, <2>3, <2>4 DEF ReadInv
<1> QED
  BY <1>2, <1>3 DEF DeleteData

LEMMA ReadDeleteUndo ==
    ASSUME TypeInv, ReadInv, DeleteUndo
    PROVE  ReadInv'
<1>1. pc = "delUndo" /\ UNCHANGED pk
  BY DEF DeleteUndo
<1>2. CASE kp' = SetNum(kp, loc.n) /\ ReturnDelete(FALSE)
  <2>1. Num(kp') = loc.n /\ kp'.slot = kp.slot
    BY <1>2, SetNumType DEF TypeInv, TypeOK, Locals
  <2>2. ReadableUpto(kp, loc.n)
    BY <1>1 DEF ReadInv
  <2>3. Readable(kp)'
    BY <2>1, <2>2 DEF Readable, ReadableUpto, Num
  <2> QED
    BY <1>1, <1>2, <2>3, KeepReadable, ReturnDeleteReadable
<1>3. CASE ReturnDelete(FALSE) /\ UNCHANGED kp
  BY <1>1, <1>3, KeepReadable, ReturnDeleteReadable
<1> QED
  BY <1>2, <1>3 DEF DeleteUndo

LEMMA ReadFindPrikey ==
    ASSUME TypeInv, ReadInv, FindPrikey
    PROVE  ReadInv'
<1>1. pc = "dpkCheck" /\ UNCHANGED <<kp, pk>> /\ ListsReadable'
  BY KeepReadable DEF FindPrikey
<1>2. ~HasIndex(kp, loc.index) /\ loc.rec.index = loc.index
  BY <1>1 DEF ReadInv
<1> DEFINE p == Position(pk, loc.index)
           n == Num(pk)
<1>3. CASE GoTo("dpkNum", [loc EXCEPT !.n = n, !.at = p])
  <2>1. ReadableUpto(pk, n)
    BY DEF ReadInv, ListsReadable, Readable
  <2>2. loc' = [loc EXCEPT !.n = n, !.at = p] /\ pc' = "dpkNum"
    BY <1>3 DEF GoTo
  <2> HIDE DEF p, n
  <2>3. loc'.index = loc.index /\ loc'.n = n /\ loc'.rec = loc.rec
    BY <2>2 DEF TypeInv, TypeOK, Locals
  <2>4. ReadableUpto(pk, loc.n)' /\ ~HasIndex(kp, loc.index)'
    BY <1>1, <1>2, <2>1, <2>3 DEF ReadableUpto, HasIndex, Num
  <2> QED
    BY <1>1, <1>2, <2>2, <2>3, <2>4 DEF ReadInv
<1>4. CASE ReturnDelete(TRUE)
  BY <1>1, <1>4, ReturnDeleteReadable
<1>5. CASE GoTo("restoreRec", loc)
  BY <1>1, <1>2, <1>5, SameRegion DEF GoTo, ReadInv, HasIndex
<1> QED
  BY <1>3, <1>4, <1>5 DEF FindPrikey

(* A failed step of the private key's deletion: the keypair is restored.   *)
LEMMA ReadGiveUp ==
    ASSUME ReadInv, pc \in {"dpkNum", "dpkUndo"}, GoTo("restoreRec", loc),
           UNCHANGED <<kp, pk>>
    PROVE  ReadInv'
<1>1. ~HasIndex(kp, loc.index) /\ loc.rec.index = loc.index
  BY DEF ReadInv
<1>2. ListsReadable'
  BY KeepReadable
<1> QED
  BY <1>1, <1>2 DEF GoTo, ReadInv, HasIndex, Num

LEMMA ReadDeletePrikeyNum ==
    ASSUME TypeInv, ReadInv, DeletePrikeyNum
    PROVE  ReadInv'
<1>1. pc = "dpkNum" /\ UNCHANGED kp
  BY DEF DeletePrikeyNum
<1>2. CASE pk' = SetNum(pk, loc.n - 1) /\ GoTo("dpkData", loc)
  <2>1. pk \in Region /\ loc.n \in Nat /\ loc.n - 1 \in 0..MaxKeypairs /\ loc.n - 1 \in Nat
    BY <1>1, RegionAssumption DEF TypeInv, TypeOK, LocalsOK, Locals
  <2>2. pk'.slot = pk.slot /\ Num(pk') = loc.n - 1
    BY <1>2, <2>1, SetNumType
  <2>3. /\ ReadableUpto(pk, loc.n)
        /\ ~HasIndex(kp, loc.index) /\ loc.rec.index = loc.index
    BY <1>1 DEF ReadInv
  <2>4. ReadableUpto(pk, loc.n - 1)
    BY <2>1, <2>3, ReadableLess
  <2>5. UNCHANGED loc /\ pc' = "dpkData"
    BY <1>2 DEF GoTo
  <2>6. /\ Num(pk)' = (loc.n - 1)' /\ Readable(pk)' /\ ReadableUpto(pk, loc.n)'
        /\ ~HasIndex(kp, loc.index)'
    BY <1>1, <2>2, <2>3, <2>4, <2>5 DEF Readable, ReadableUpto, Num, HasIndex
  <2>7. ListsReadable'
    BY <1>1, <2>6, KeepReadable
  <2> QED
    BY <2>3, <2>5, <2>6, <2>7 DEF ReadInv
<1>3. CASE GoTo("restoreRec", loc) /\ UNCHANGED pk
  BY <1>1, <1>3, ReadGiveUp
<1> QED
  BY <1>2, <1>3 DEF DeletePrikeyNum

LEMMA ReadDeletePrikeyData ==
    ASSUME TypeInv, ReadInv, DeletePrikeyData
    PROVE  ReadInv'
<1>1. pc = "dpkData" /\ UNCHANGED kp
  BY DEF DeletePrikeyData
<1>2. CASE pk' = Drop(pk, loc.at, loc.n) /\ ReturnDelete(TRUE)
  <2>1. pk \in Region /\ loc.n \in 0..MaxKeypairs /\ loc.at \in 1..loc.n
    BY <1>1 DEF TypeInv, TypeOK, LocalsOK, Locals
  <2>2. Num(pk) = loc.n - 1 /\ ReadableUpto(pk, loc.n)
    BY <1>1 DEF ReadInv
  <2>3. Readable(pk')
    BY <1>2, <2>1, <2>2, ReadableDrop
  <2>4. Readable(pk)'
    BY <2>3 DEF Readable, ReadableUpto, Num
  <2> QED
    BY <1>1, <1>2, <2>4, KeepReadable, ReturnDeleteReadable
<1>3. CASE GoTo("dpkUndo", loc) /\ UNCHANGED pk
  <2>1. ListsReadable'
    BY <1>1, <1>3, KeepReadable
  <2>2. /\ Num(pk) = loc.n - 1 /\ ReadableUpto(pk, loc.n)
        /\ ~HasIndex(kp, loc.index) /\ loc.rec.index = loc.index
    BY <1>1 DEF ReadInv
  <2>3. pc' = "dpkUndo" /\ UNCHANGED <<loc, kp, pk>>
    BY <1>1, <1>3 DEF GoTo
  <2>4. (Num(pk) = loc.n - 1)' /\ ReadableUpto(pk, loc.n)' /\ ~HasIndex(kp, loc.index)'
    BY <2>2, <2>3 DEF Num, ReadableUpto, HasIndex
  <2> QED
    BY <2>1, <2>2, <2>3, <2>4 DEF ReadInv
<1> QED
  BY <1>2, <1>3 DEF DeletePrikeyData

LEMMA ReadDeletePrikeyUndo ==
    ASSUME TypeInv, ReadInv, DeletePrikeyUndo
    PROVE  ReadInv'
<1>1. pc = "dpkUndo" /\ UNCHANGED kp
  BY DEF DeletePrikeyUndo
<1>2. CASE pk' = SetNum(pk, loc.n) /\ ReturnDelete(TRUE)
  <2>1. Num(pk') = loc.n /\ pk'.slot = pk.slot
    BY <1>2, SetNumType DEF TypeInv, TypeOK, Locals
  <2>2. ReadableUpto(pk, loc.n)
    BY <1>1 DEF ReadInv
  <2>3. Readable(pk)'
    BY <2>1, <2>2 DEF Readable, ReadableUpto, Num
  <2> QED
    BY <1>1, <1>2, <2>3, KeepReadable, ReturnDeleteReadable
<1>3. CASE GoTo("restoreRec", loc) /\ UNCHANGED pk
  BY <1>1, <1>3, ReadGiveUp
<1> QED
  BY <1>2, <1>3 DEF DeletePrikeyUndo

LEMMA ReadInit == Init => ReadInv
<1>1. Num(EmptyRegion) = 0
  BY DEF EmptyRegion, Num, NoHeader
<1> QED
  BY <1>1 DEF Init, ReadInv, ListsReadable, Readable, ReadableUpto

LEMMA ReadNext ==
    ASSUME ReadsWork
    PROVE  TypeInv /\ ReadInv /\ [Next]_vars => ReadInv'
<1> SUFFICES ASSUME TypeInv, ReadInv, [Next]_vars PROVE ReadInv'
  OBVIOUS
<1>1. CASE CreateOnetime \/ DeleteOnetime
  <2>1. UNCHANGED <<kp, pk, pc, loc>>
    BY <1>1 DEF CreateOnetime, DeleteOnetime
  <2> QED
    BY <2>1 DEF ReadInv, ListsReadable, Readable, ReadableUpto, HasIndex, Num
<1>2. CASE Create
  BY <1>1, <1>2, ReadCreateFlash, ReadStoreRecord, ReadStoreNum,
     ReadCheckPrikey, ReadPrikeyRecord, ReadPrikeyNum DEF Create
<1>3. CASE Delete
  BY <1>1, <1>3, ReadDeleteFlash, ReadFindKeypair, ReadDeleteNum,
     ReadDeleteData, ReadDeleteUndo, ReadFindPrikey, ReadDeletePrikeyNum,
     ReadDeletePrikeyData, ReadDeletePrikeyUndo, ReadRestoreRecord,
     ReadRestoreNum DEF Delete
<1>4. CASE Crash
  BY <1>4, KeepReadable DEF Crash, ReadInv
<1>5. CASE UNCHANGED vars
  BY <1>5 DEF vars, ReadInv, ListsReadable, Readable, ReadableUpto, HasIndex, Num
<1> QED
  BY <1>2, <1>3, <1>4, <1>5 DEF Next

(* As long as reads work, any number of failed writes, failed allocations  *)
(* and power losses leaves both lists readable: no counted record is an    *)
(* erased one, and no index is there twice.                                *)
THEOREM ListsStayReadable ==
    ASSUME ReadsWork
    PROVE  Spec => []ListsReadable
<1>1. TypeInv /\ ReadInv /\ [Next]_vars => ReadInv'
  BY ReadNext
<1>2. ReadInv => ListsReadable
  BY DEF ReadInv
<1> QED
  BY <1>1, <1>2, ReadInit, TypeInvariance, PTL DEF Spec

-----------------------------------------------------------------------------
(* The keys of an index match                                              *)
(*                                                                         *)
(* That an index has one key is not inductive: a private key left behind   *)
(* by a power loss can meet a new keypair while a create is under way.     *)
(* The invariant follows both lists through every call, before a failure   *)
(* (what the running call has changed is all they differ in) and after it. *)

Agree(A, B) == \A s \in A, t \in B : s.index = t.index => s.key = t.key

Without(A, i) == {s \in A : s.index # i}

NewRecord == [index |-> loc.index, key |-> loc.key]

(* The records a call is about to count or has just hidden.                *)
RecordsOK ==
    /\ pc = "storeNum" => kp.slot[loc.n + 1] = NewRecord
    /\ pc = "restoreNum" => kp.slot[loc.n + 1] = loc.rec
    /\ pc = "pkNum" => pk.slot[loc.n + 1] = NewRecord
    /\ pc \in {"pkCheck", "pkRec", "pkNum"} =>
        \A s \in Live(kp) : s.index = loc.index => s.key = loc.key
    /\ pc \in {"delNum", "delData"} => loc.rec = kp.slot[loc.at]
    /\ pc = "delNum" => loc.n = Num(kp)
    /\ pc = "dpkNum" => loc.n = Num(pk)
    /\ pc \in {"dpkNum", "dpkData"} => pk.slot[loc.at].index = loc.index

NoFailure ==
    /\ pc \in {"idle", "storeRec", "storeNum", "delCheck", "delNum"} =>
        Num(kp) = Num(pk) /\ Live(kp) = Live(pk)
    /\ pc \in {"pkCheck", "pkRec", "pkNum"} =>
        Num(kp) = Num(pk) + 1 /\ Live(kp) = Live(pk) \cup {NewRecord}
    /\ pc = "pkCheck" => ~HasIndex(pk, loc.index)
    /\ pc = "delData" =>
        Num(pk) = loc.n /\ Upto(kp, loc.n) = Live(pk)
    /\ pc \in {"dpkCheck", "dpkNum"} =>
        Num(kp) + 1 = Num(pk) /\ Live(kp) \cup {loc.rec} = Live(pk)
    /\ pc = "dpkData" =>
        Num(kp) + 1 = loc.n /\ Live(kp) \cup {loc.rec} = Upto(pk, loc.n)
    /\ pc \notin {"delUndo", "dpkUndo", "restoreRec", "restoreNum"}

OneFailure ==
    /\ pc \in {"idle", "storeRec", "storeNum", "dpkCheck", "dpkNum"} =>
        Agree(Live(kp), Live(pk))
    /\ pc \in {"pkCheck", "pkRec", "pkNum", "delCheck", "delNum"} =>
        Agree(Without(Live(kp), loc.index), Live(pk))
    /\ pc = "delData" => Agree(Without(Upto(kp, loc.n), loc.index), Live(pk))
    /\ pc = "delUndo" => Agree(Upto(kp, loc.n), Live(pk))
    /\ pc \in {"dpkData", "dpkUndo"} => Agree(Live(kp), Upto(pk, loc.n))
    /\ pc \in {"restoreRec", "restoreNum"} =>
        Agree(Live(kp) \cup {loc.rec}, Live(pk))

MatchInv ==
    /\ RecordsOK
    /\ faults = 0 => NoFailure
    /\ faults = 1 => OneFailure

KeyInv == TypeInv /\ ReadInv /\ MatchInv

(* At most one failure, and no failed read.                                *)
OneFailureAtMost == ReadsWork /\ MaxFaults <= 1

LEMMA LiveSetNum ==
    ASSUME NEW r \in Region, NEW n \in 0..MaxKeypairs
    PROVE  /\ Live(SetNum(r, n)) = Upto(r, n)
           /\ \A m : Upto(SetNum(r, n), m) = Upto(r, m)
BY SetNumType DEF Live, Upto

LEMMA LivePut ==
    ASSUME NEW r \in Region, NEW rec \in Slot, Num(r) + 1 \in Indexes
    PROVE  Live(Put(r, Num(r) + 1, rec)) = Live(r)
<1> DEFINE d == Put(r, Num(r) + 1, rec)
<1>1. Num(d) = Num(r)
  BY PutType
<1>2. \A p \in 1..Num(r) : d.slot[p] = r.slot[p]
  <2> SUFFICES ASSUME NEW p \in 1..Num(r) PROVE d.slot[p] = r.slot[p]
    OBVIOUS
  <2>1. p \in Indexes \ {Num(r) + 1}
    BY NumType, SlotType
  <2> QED
    BY <2>1, PutType
<1> HIDE DEF d
<1>3. Live(d) = Live(r)
  BY <1>1, <1>2 DEF Live, Upto
<1> QED
  BY <1>3 DEF d

LEMMA UptoNext ==
    ASSUME NEW r, NEW n \in Nat
    PROVE  Upto(r, n + 1) = Upto(r, n) \cup {r.slot[n + 1]}
BY DEF Upto

(* What the deletion of a record leaves: all but the record's index.       *)
LEMMA LiveDrop ==
    ASSUME NEW r \in Region, NEW n \in 0..MaxKeypairs, NEW p \in 1..n,
           Num(r) = n - 1, ReadableUpto(r, n)
    PROVE  /\ Live(Drop(r, p, n)) = Without(Upto(r, n), r.slot[p].index)
           /\ Without(Upto(r, n), r.slot[p].index) \cup {r.slot[p]} = Upto(r, n)
<1> DEFINE d == Drop(r, p, n)
<1>1. /\ Num(d) = n - 1
      /\ \A q \in 1..(n - 1) : d.slot[q] = IF q < p THEN r.slot[q] ELSE r.slot[q + 1]
  BY DropType
<1>2. n \in Nat
  BY RegionAssumption
<1> HIDE DEF d
<1>3. ASSUME NEW s \in Live(d) PROVE s \in Without(Upto(r, n), r.slot[p].index)
  <2>1. PICK q \in 1..(n - 1) : s = d.slot[q]
    BY <1>1, <1>3 DEF Live, Upto
  <2>2. PICK o \in 1..n : o # p /\ s = r.slot[o]
    <3>1. CASE q < p
      BY <1>1, <1>2, <2>1, <3>1
    <3>2. CASE ~(q < p)
      <4>1. q + 1 \in 1..n /\ q + 1 # p /\ s = r.slot[q + 1]
        BY <1>1, <1>2, <2>1, <3>2
      <4> QED
        BY <4>1
    <3> QED
      BY <3>1, <3>2
  <2>3. s.index # r.slot[p].index
    BY <2>2 DEF ReadableUpto
  <2> QED
    BY <2>2, <2>3 DEF Without, Upto
<1>4. ASSUME NEW s \in Without(Upto(r, n), r.slot[p].index) PROVE s \in Live(d)
  <2>1. PICK o \in 1..n : o # p /\ s = r.slot[o]
    BY <1>4 DEF Without, Upto
  <2>2. CASE o < p
    <3>1. o \in 1..(n - 1) /\ d.slot[o] = s
      BY <1>1, <1>2, <2>1, <2>2
    <3> QED
      BY <1>1, <3>1 DEF Live, Upto
  <2>3. CASE ~(o < p)
    <3>1. o - 1 \in 1..(n - 1) /\ ~(o - 1 < p) /\ (o - 1) + 1 = o
      BY <1>2, <2>1, <2>3
    <3>2. d.slot[o - 1] = s
      BY <1>1, <2>1, <3>1
    <3> QED
      BY <1>1, <3>1, <3>2 DEF Live, Upto
  <2> QED
    BY <2>2, <2>3
<1>5. Live(d) = Without(Upto(r, n), r.slot[p].index)
  BY <1>3, <1>4
<1>6. \A q \in 1..n : r.slot[q].index = r.slot[p].index => q = p
  BY DEF ReadableUpto
<1>7. Without(Upto(r, n), r.slot[p].index) \cup {r.slot[p]} = Upto(r, n)
  BY <1>6 DEF Without, Upto
<1> QED
  BY <1>5, <1>7 DEF d

LEMMA IndexLive ==
    ASSUME NEW r, NEW i
    PROVE  /\ HasIndex(r, i) <=> \E s \in Live(r) : s.index = i
           /\ ~HasIndex(r, i) => Without(Live(r), i) = Live(r)
BY DEF HasIndex, Live, Upto, Without

LEMMA UptoLess ==
    ASSUME NEW r, NEW n \in Nat
    PROVE  Upto(r, n - 1) \subseteq Upto(r, n)
BY DEF Upto

(* Two parts of one readable list agree.                                   *)
LEMMA AgreeReadable ==
    ASSUME NEW r, NEW n, ReadableUpto(r, n),
           NEW A, NEW B, A \subseteq Upto(r, n), B \subseteq Upto(r, n)
    PROVE  Agree(A, B)
BY DEF Agree, Upto, ReadableUpto

LEMMA AgreeLess ==
    ASSUME NEW A, NEW B, NEW C \in SUBSET A, Agree(A, B)
    PROVE  Agree(C, B)
BY DEF Agree

LEMMA FailureCount ==
    ASSUME OneFailureAtMost, TypeInv
    PROVE  /\ faults \in {0, 1}
           /\ \A kind : Fault(kind) => kind # "read" /\ faults = 0 /\ faults' = 1
BY KeystoreAssumption DEF OneFailureAtMost, ReadsWork, TypeInv, TypeOK, Fault

(* Before a failure the lists agree at every step: each is a part of one   *)
(* readable list.                                                          *)
LEMMA AgreeNow ==
    ASSUME KeyInv, faults = 0
    PROVE  Agree(Live(kp), Live(pk))
<1> USE DEF KeyInv
<1>1. NoFailure /\ ListsReadable
  BY DEF MatchInv, ReadInv
<1>2. kp \in Region /\ pk \in Region /\ loc.n \in Nat /\ pc \in Steps
  BY RegionAssumption DEF TypeInv, TypeOK, Locals
<1>3. ASSUME Live(kp) \subseteq Live(pk) PROVE Agree(Live(kp), Live(pk))
  BY <1>1, <1>3, AgreeReadable DEF ListsReadable, Readable, Live
<1>4. ASSUME Live(pk) \subseteq Live(kp) PROVE Agree(Live(kp), Live(pk))
  BY <1>1, <1>4, AgreeReadable DEF ListsReadable, Readable, Live
<1>5. CASE pc \in {"idle", "storeRec", "storeNum", "delCheck", "delNum"}
  BY <1>1, <1>3, <1>5 DEF NoFailure
<1>6. CASE pc \in {"pkCheck", "pkRec", "pkNum"}
  BY <1>1, <1>4, <1>6 DEF NoFailure
<1>7. CASE pc = "delData"
  <2>1. Live(kp) = Upto(kp, loc.n - 1)
    BY <1>7 DEF ReadInv, Live
  <2> QED
    BY <1>1, <1>2, <1>3, <1>7, <2>1, UptoLess DEF NoFailure
<1>8. CASE pc \in {"dpkCheck", "dpkNum"}
  BY <1>1, <1>3, <1>8 DEF NoFailure
<1>9. CASE pc = "dpkData"
  <2>1. Live(pk) = Upto(pk, loc.n - 1) /\ ReadableUpto(pk, loc.n)
    BY <1>9 DEF ReadInv, Live
  <2>2. Live(pk) \subseteq Upto(pk, loc.n) /\ Live(kp) \subseteq Upto(pk, loc.n)
    BY <1>1, <1>2, <1>9, <2>1, UptoLess DEF NoFailure
  <2> QED
    BY <2>1, <2>2, AgreeReadable
<1> QED
  BY <1>1, <1>2, <1>5, <1>6, <1>7, <1>8, <1>9 DEF NoFailure, Steps

(* A call that ends leaves two lists to compare and no more.               *)
LEMMA MatchIdle ==
    ASSUME pc' = "idle",
           faults' = 0 => Num(kp') = Num(pk') /\ Live(kp') = Live(pk'),
           faults' = 1 => Agree(Live(kp'), Live(pk'))
    PROVE  MatchInv'
BY DEF MatchInv, RecordsOK, NoFailure, OneFailure

LEMMA ReturnIdle ==
    ASSUME NEW success, Return(success) \/ ReturnDelete(success)
    PROVE  pc' = "idle"
BY DEF Return, ReturnDelete

(* A call that is cut short by its first failure.                          *)
LEMMA MatchCut ==
    ASSUME OneFailureAtMost, KeyInv, NEW kind, Fault(kind), pc' = "idle",
           UNCHANGED <<kp, pk>>
    PROVE  MatchInv'
<1>1. faults = 0 /\ faults' = 1
  BY FailureCount DEF KeyInv
<1>2. Agree(Live(kp'), Live(pk'))
  BY <1>1, AgreeNow
<1> QED
  BY <1>1, <1>2, MatchIdle

LEMMA MatchInit == Init => MatchInv
<1> SUFFICES ASSUME Init PROVE MatchInv
  OBVIOUS
<1>1. pc = "idle" /\ kp = pk /\ faults = 0
  BY DEF Init
<1> QED
  BY <1>1 DEF MatchInv, RecordsOK, NoFailure

LEMMA MatchCreateFlash ==
    ASSUME OneFailureAtMost, KeyInv, NEW key \in FreshKeys, CreateFlash(key)
    PROVE  MatchInv'
<1>1. pc = "idle" /\ UNCHANGED <<kp, pk>> /\ UNCHANGED faults
      /\ pc' \in {"idle", "storeRec"}
  BY FailureCount DEF CreateFlash, GoTo, KeyInv
<1>2. /\ faults' = 0 => Num(kp') = Num(pk') /\ Live(kp') = Live(pk')
      /\ faults' = 1 => Agree(Live(kp'), Live(pk'))
  BY <1>1 DEF KeyInv, MatchInv, NoFailure, OneFailure
<1> QED
  BY <1>1, <1>2 DEF MatchInv, RecordsOK, NoFailure, OneFailure

(* A record written behind the last one is not seen yet.                   *)
LEMMA AppendBehind ==
    ASSUME OneFailureAtMost, KeyInv, NEW rec \in Slot, NEW next, AppendKeypair(rec, next)
    PROVE  \/ /\ Num(kp') = Num(kp) /\ Live(kp') = Live(kp)
              /\ kp'.slot[Num(kp) + 1] = rec
              /\ pc' = next /\ loc' = [loc EXCEPT !.n = Num(kp)]
              /\ UNCHANGED faults
           \/ /\ pc' = "idle" /\ UNCHANGED <<kp, faults>>
           \/ /\ pc' = "idle" /\ UNCHANGED kp
              /\ Fault("write") \/ Fault("alloc")
<1> USE DEF KeyInv
<1>1. CASE \E n \in 0..MaxKeypairs :
            /\ CountRead(kp, n)
            /\ n + 1 <= Fits
            /\ kp' = Put(kp, n + 1, rec)
            /\ GoTo(next, [loc EXCEPT !.n = n])
  <2> DEFINE n == Num(kp)
  <2>1. n + 1 <= Fits /\ kp' = Put(kp, n + 1, rec) /\ GoTo(next, [loc EXCEPT !.n = n])
        /\ UNCHANGED faults
    BY <1>1, CountReadWorks, FailureCount DEF OneFailureAtMost, CountRead
  <2>2. kp \in Region /\ n \in Nat /\ n + 1 \in Indexes
    BY <2>1, NumType, FitsType, RegionAssumption DEF TypeInv, TypeOK, Indexes
  <2> QED
    BY <2>1, <2>2, LivePut, PutType DEF GoTo
<1>2. CASE /\ \/ Num(kp) + 1 > Fits /\ UNCHANGED faults
              \/ Fault("write")
              \/ Fault("alloc")
              \/ Num(kp) > 0 /\ Fault("read")
           /\ Return(FALSE)
           /\ UNCHANGED kp
  BY <1>2, FailureCount DEF Return
<1> QED
  BY <1>1, <1>2 DEF AppendKeypair

LEMMA MatchStoreRecord ==
    ASSUME OneFailureAtMost, KeyInv, StoreRecord
    PROVE  MatchInv'
<1>1. pc = "storeRec" /\ UNCHANGED pk /\ AppendKeypair(NewRecord, "storeNum")
  BY DEF StoreRecord, NewRecord
<1>2. NewRecord \in Slot /\ loc \in Locals /\ Num(kp) \in 0..MaxKeypairs
  BY NumType DEF KeyInv, TypeInv, TypeOK, Locals, Slot, NewRecord
<1>3. /\ faults = 0 => Num(kp) = Num(pk) /\ Live(kp) = Live(pk)
      /\ faults = 1 => Agree(Live(kp), Live(pk))
  BY <1>1 DEF KeyInv, MatchInv, NoFailure, OneFailure
<1>4. CASE /\ Num(kp') = Num(kp) /\ Live(kp') = Live(kp)
           /\ kp'.slot[Num(kp) + 1] = NewRecord
           /\ pc' = "storeNum" /\ loc' = [loc EXCEPT !.n = Num(kp)]
           /\ UNCHANGED faults
  <2>1. loc'.n = Num(kp) /\ NewRecord' = NewRecord
    BY <1>2, <1>4 DEF Locals, NewRecord
  <2> QED
    BY <1>1, <1>3, <1>4, <2>1 DEF MatchInv, RecordsOK, NoFailure, OneFailure
<1>5. CASE pc' = "idle" /\ UNCHANGED <<kp, faults>>
  BY <1>1, <1>3, <1>5, MatchIdle
<1>6. CASE pc' = "idle" /\ UNCHANGED kp /\ (Fault("write") \/ Fault("alloc"))
  BY <1>1, <1>6, MatchCut
<1> QED
  BY <1>1, <1>2, <1>4, <1>5, <1>6, AppendBehind

LEMMA MatchStoreNum ==
    ASSUME OneFailureAtMost, KeyInv, StoreNum
    PROVE  MatchInv'
<1>1. pc = "storeNum" /\ UNCHANGED pk
  BY DEF StoreNum
<1>2. CASE kp' = SetNum(kp, loc.n + 1) /\ GoTo("pkCheck", loc) /\ UNCHANGED faults
  <2>1. kp \in Region /\ loc.n \in Nat /\ loc.n + 1 \in 0..MaxKeypairs
    BY <1>1, RegionAssumption DEF KeyInv, TypeInv, TypeOK, LocalsOK, Locals
  <2>2. loc.n = Num(kp) /\ ~HasIndex(kp, loc.index) /\ kp.slot[loc.n + 1] = NewRecord
    BY <1>1 DEF KeyInv, ReadInv, MatchInv, RecordsOK
  <2>3. Num(kp') = Num(kp) + 1 /\ Live(kp') = Live(kp) \cup {NewRecord}
    BY <1>2, <2>1, <2>2, SetNumType, LiveSetNum, UptoNext DEF Live
  <2>4. \A s \in Live(kp) : s.index # loc.index
    BY <2>2, IndexLive
  <2>5. NewRecord.index = loc.index /\ NewRecord.key = loc.key
    BY DEF NewRecord
  <2>6. Without(Live(kp'), loc.index) \subseteq Live(kp)
    BY <2>3, <2>5 DEF Without
  <2>7. pc' = "pkCheck" /\ UNCHANGED loc /\ NewRecord' = NewRecord
    BY <1>2 DEF GoTo, NewRecord
  <2>8. RecordsOK'
    BY <2>3, <2>4, <2>5, <2>7 DEF RecordsOK
  <2>9. ASSUME faults = 0 PROVE NoFailure'
    <3>1. Num(kp) = Num(pk) /\ Live(kp) = Live(pk)
      BY <1>1, <2>9 DEF KeyInv, MatchInv, NoFailure
    <3>2. ~HasIndex(pk', loc.index)
      BY <1>1, <2>4, <3>1, IndexLive
    <3> QED
      BY <1>1, <2>3, <2>7, <3>1, <3>2 DEF NoFailure
  <2>10. ASSUME faults = 1 PROVE OneFailure'
    <3>1. Agree(Live(kp), Live(pk))
      BY <1>1, <2>10 DEF KeyInv, MatchInv, OneFailure
    <3>2. Agree(Without(Live(kp'), loc.index), Live(pk))
      BY <2>6, <3>1, AgreeLess
    <3> QED
      BY <1>1, <2>7, <3>2 DEF OneFailure
  <2> QED
    BY <1>2, <2>8, <2>9, <2>10 DEF MatchInv
<1>3. CASE Fault("write") /\ Return(FALSE) /\ UNCHANGED kp
  BY <1>1, <1>3, MatchCut, ReturnIdle
<1> QED
  BY <1>2, <1>3 DEF StoreNum

LEMMA MatchCheckPrikey ==
    ASSUME OneFailureAtMost, KeyInv, CheckPrikey
    PROVE  MatchInv'
<1> USE DEF KeyInv
<1>1. pc = "pkCheck" /\ UNCHANGED <<kp, pk>>
  BY DEF CheckPrikey
<1>2. Num(kp) \in Nat /\ Num(kp) <= MaxKeypairs /\ Num(pk) \in Nat /\ loc \in Locals
  BY NumType, RegionAssumption DEF TypeInv, TypeOK
<1>3. CASE \E n \in 0..MaxKeypairs :
            /\ CountRead(pk, n)
            /\ IF n < MaxKeypairs
                  /\ \A p \in 1..n : pk.slot[p].index # loc.index
               THEN GoTo("pkRec", [loc EXCEPT !.n = n])
               ELSE GoTo("delCheck", loc)
  <2>1. PICK n \in 0..MaxKeypairs :
            /\ CountRead(pk, n)
            /\ IF n < MaxKeypairs
                  /\ \A p \in 1..n : pk.slot[p].index # loc.index
               THEN GoTo("pkRec", [loc EXCEPT !.n = n])
               ELSE GoTo("delCheck", loc)
    BY <1>3
  <2>2. n = Num(pk) /\ UNCHANGED faults
    BY <2>1, CountReadWorks, FailureCount DEF OneFailureAtMost, CountRead
  <2>3. CASE GoTo("pkRec", [loc EXCEPT !.n = n])
    <3>1. pc' = "pkRec" /\ loc'.index = loc.index /\ loc'.key = loc.key
      BY <1>2, <2>3 DEF GoTo, Locals
    <3>2. NewRecord' = NewRecord
      BY <3>1 DEF NewRecord
    <3> QED
      BY <1>1, <2>2, <3>1, <3>2 DEF MatchInv, RecordsOK, NoFailure, OneFailure
  <2>4. CASE GoTo("delCheck", loc) /\ ~(/\ n < MaxKeypairs
                                       /\ \A p \in 1..n : pk.slot[p].index # loc.index)
    <3>1. faults # 0
      <4> SUFFICES ASSUME faults = 0 PROVE FALSE
        OBVIOUS
      <4>1. Num(kp) = Num(pk) + 1 /\ ~HasIndex(pk, loc.index)
        BY <1>1 DEF MatchInv, NoFailure
      <4>2. n < MaxKeypairs
        BY <1>2, <2>2, <4>1, RegionAssumption
      <4>3. \A p \in 1..n : pk.slot[p].index # loc.index
        BY <2>2, <4>1 DEF HasIndex
      <4> QED
        BY <2>4, <4>2, <4>3
    <3>2. pc' = "delCheck" /\ UNCHANGED loc
      BY <2>4 DEF GoTo
    <3> QED
      BY <1>1, <2>2, <3>1, <3>2 DEF MatchInv, RecordsOK, OneFailure
  <2> QED
    BY <2>1, <2>3, <2>4
<1>4. CASE Num(pk) > 0 /\ Fault("read") /\ GoTo("delCheck", loc)
  BY <1>4, FailureCount
<1> QED
  BY <1>3, <1>4 DEF CheckPrikey

(* A private key that cannot be stored: the keypair is to be taken back.   *)
LEMMA MatchTakeBack ==
    ASSUME OneFailureAtMost, KeyInv, NEW kind, Fault(kind), GoTo("delCheck", loc),
           UNCHANGED <<kp, pk>>
    PROVE  MatchInv'
<1>1. faults = 0 /\ faults' = 1
  BY FailureCount DEF KeyInv
<1>2. Agree(Without(Live(kp), loc.index), Live(pk))
  BY <1>1, AgreeNow, AgreeLess DEF Without
<1>3. pc' = "delCheck" /\ UNCHANGED loc
  BY DEF GoTo
<1> QED
  BY <1>1, <1>2, <1>3 DEF MatchInv, RecordsOK, OneFailure

LEMMA MatchPrikeyRecord ==
    ASSUME OneFailureAtMost, KeyInv, PrikeyRecord
    PROVE  MatchInv'
<1>1. pc = "pkRec" /\ UNCHANGED kp
  BY DEF PrikeyRecord
<1>2. CASE /\ pk' = Put(pk, loc.n + 1, [index |-> loc.index, key |-> loc.key])
           /\ GoTo("pkNum", loc)
           /\ UNCHANGED faults
  <2>1. pk \in Region /\ loc.n + 1 \in Indexes /\ loc.n = Num(pk) /\ NewRecord \in Slot
    BY <1>1, RegionAssumption DEF KeyInv, TypeInv, TypeOK, LocalsOK, Locals, Indexes,
       ReadInv, NewRecord, Slot
  <2>2. pk' = Put(pk, Num(pk) + 1, NewRecord)
    BY <1>2, <2>1 DEF NewRecord
  <2>3. /\ Live(pk') = Live(pk) /\ Num(pk') = Num(pk)
        /\ pk'.slot[loc.n + 1] = NewRecord
    BY <2>1, <2>2, LivePut, PutType
  <2>4. pc' = "pkNum" /\ UNCHANGED loc /\ NewRecord' = NewRecord
    BY <1>2 DEF GoTo, NewRecord
  <2> QED
    BY <1>1, <1>2, <2>3, <2>4 DEF KeyInv, MatchInv, RecordsOK, NoFailure, OneFailure
<1>3. CASE /\ Fault("write") \/ Fault("alloc")
           /\ GoTo("delCheck", loc)
           /\ UNCHANGED pk
  BY <1>1, <1>3, MatchTakeBack
<1> QED
  BY <1>2, <1>3 DEF PrikeyRecord

LEMMA MatchPrikeyNum ==
    ASSUME OneFailureAtMost, KeyInv, PrikeyNum
    PROVE  MatchInv'
<1> USE DEF KeyInv
<1>1. pc = "pkNum" /\ UNCHANGED kp
  BY DEF PrikeyNum
<1>2. CASE pk' = SetNum(pk, loc.n + 1) /\ Return(TRUE) /\ UNCHANGED faults
  <2>1. pk \in Region /\ loc.n \in Nat /\ loc.n + 1 \in 0..MaxKeypairs
    BY <1>1, RegionAssumption DEF TypeInv, TypeOK, LocalsOK, Locals
  <2>2. loc.n = Num(pk) /\ ~HasIndex(pk, loc.index) /\ pk.slot[loc.n + 1] = NewRecord
    BY <1>1 DEF ReadInv, MatchInv, RecordsOK
  <2>3. Num(pk') = Num(pk) + 1 /\ Live(pk') = Live(pk) \cup {NewRecord}
    BY <1>2, <2>1, <2>2, SetNumType, LiveSetNum, UptoNext DEF Live
  <2>4. faults = 0 => Num(kp) = Num(pk) + 1 /\ Live(kp) = Live(pk) \cup {NewRecord}
    BY <1>1 DEF MatchInv, NoFailure
  <2>5. ASSUME faults = 1 PROVE Agree(Live(kp), Live(pk) \cup {NewRecord})
    <3>1. /\ Agree(Without(Live(kp), loc.index), Live(pk))
          /\ \A s \in Live(kp) : s.index = loc.index => s.key = loc.key
      BY <1>1, <2>5 DEF MatchInv, OneFailure, RecordsOK
    <3>2. \A t \in Live(pk) : t.index # loc.index
      BY <2>2, IndexLive
    <3>3. NewRecord.index = loc.index /\ NewRecord.key = loc.key
      BY DEF NewRecord
    <3> HIDE DEF KeyInv
    <3> QED
      BY <3>1, <3>2, <3>3 DEF Agree, Without
  <2> QED
    BY <1>1, <1>2, <2>3, <2>4, <2>5, MatchIdle, ReturnIdle
<1>3. CASE Fault("write") /\ GoTo("delCheck", loc) /\ UNCHANGED pk
  BY <1>1, <1>3, MatchTakeBack
<1> QED
  BY <1>2, <1>3 DEF PrikeyNum

LEMMA MatchDeleteFlash ==
    ASSUME KeyInv, NEW i \in Indexes, DeleteFlash(i)
    PROVE  MatchInv'
<1>1. pc = "idle" /\ pc' = "delCheck" /\ UNCHANGED <<kp, pk, faults>>
  BY DEF DeleteFlash, GoTo
<1>2. faults = 1 => Agree(Without(Live(kp), loc'.index), Live(pk))
  <2> SUFFICES ASSUME faults = 1 PROVE Agree(Without(Live(kp), loc'.index), Live(pk))
    OBVIOUS
  <2>1. Agree(Live(kp), Live(pk))
    BY <1>1 DEF KeyInv, MatchInv, OneFailure
  <2>2. Without(Live(kp), loc'.index) \subseteq Live(kp)
    BY DEF Without
  <2> QED
    BY <2>1, <2>2, AgreeLess
<1>3. faults = 0 => Num(kp) = Num(pk) /\ Live(kp) = Live(pk)
  BY <1>1 DEF KeyInv, MatchInv, NoFailure
<1> QED
  BY <1>1, <1>2, <1>3 DEF MatchInv, RecordsOK, NoFailure, OneFailure

LEMMA MatchFindKeypair ==
    ASSUME OneFailureAtMost, KeyInv, FindKeypair
    PROVE  MatchInv'
<1> USE DEF KeyInv
<1>1. pc = "delCheck" /\ UNCHANGED <<kp, pk>>
  BY DEF FindKeypair
<1>2. /\ faults = 0 => Num(kp) = Num(pk) /\ Live(kp) = Live(pk)
      /\ faults = 1 => Agree(Without(Live(kp), loc.index), Live(pk))
  BY <1>1 DEF MatchInv, NoFailure, OneFailure
<1> DEFINE p == Position(kp, loc.index)
           n == Num(kp)
           rec == kp.slot[p]
<1>3. CASE /\ HasIndex(kp, loc.index)
           /\ GoTo("delNum", [loc EXCEPT !.n = n, !.at = p, !.rec = rec])
           /\ UNCHANGED faults
  <2>1. loc' = [loc EXCEPT !.n = n, !.at = p, !.rec = rec] /\ pc' = "delNum"
    BY <1>3 DEF GoTo
  <2>2. rec = kp.slot[p] /\ n = Num(kp)
    OBVIOUS
  <2> HIDE DEF p, n, rec
  <2>3. loc'.index = loc.index /\ loc'.n = n /\ loc'.at = p /\ loc'.rec = rec
    BY <2>1 DEF TypeInv, TypeOK, Locals
  <2> QED
    BY <1>1, <1>2, <1>3, <2>1, <2>2, <2>3 DEF MatchInv, RecordsOK, NoFailure, OneFailure
<1>4. CASE ~HasIndex(kp, loc.index) /\ ReturnDelete(FALSE) /\ UNCHANGED faults
  <2>1. Without(Live(kp), loc.index) = Live(kp)
    BY <1>4, IndexLive
  <2> QED
    BY <1>1, <1>2, <1>4, <2>1, MatchIdle, ReturnIdle
<1>5. CASE (Fault("read") \/ Fault("alloc")) /\ ReturnDelete(FALSE)
  BY <1>1, <1>5, MatchCut, ReturnIdle
<1> QED
  BY <1>3, <1>4, <1>5 DEF FindKeypair

LEMMA MatchDeleteNum ==
    ASSUME OneFailureAtMost, KeyInv, DeleteNum
    PROVE  MatchInv'
<1> USE DEF KeyInv
<1>1. pc = "delNum" /\ UNCHANGED pk
  BY DEF DeleteNum
<1>2. CASE kp' = SetNum(kp, loc.n - 1) /\ GoTo("delData", loc) /\ UNCHANGED faults
  <2>1. kp \in Region /\ loc.n \in Nat /\ loc.n - 1 \in 0..MaxKeypairs
    BY <1>1, RegionAssumption DEF TypeInv, TypeOK, LocalsOK, Locals
  <2>2. kp'.slot = kp.slot /\ Upto(kp', loc.n) = Upto(kp, loc.n)
    BY <1>2, <2>1, SetNumType, LiveSetNum
  <2>3. loc.n = Num(kp) /\ loc.rec = kp.slot[loc.at] /\ Upto(kp, loc.n) = Live(kp)
    BY <1>1 DEF MatchInv, RecordsOK, Live
  <2>4. pc' = "delData" /\ UNCHANGED loc
    BY <1>2 DEF GoTo
  <2> QED
    BY <1>1, <1>2, <2>2, <2>3, <2>4 DEF MatchInv, RecordsOK, NoFailure, OneFailure
<1>3. CASE Fault("write") /\ ReturnDelete(FALSE) /\ UNCHANGED kp
  BY <1>1, <1>3, MatchCut, ReturnIdle
<1> QED
  BY <1>2, <1>3 DEF DeleteNum

LEMMA MatchDeleteData ==
    ASSUME OneFailureAtMost, KeyInv, DeleteData
    PROVE  MatchInv'
<1> USE DEF KeyInv
<1>1. pc = "delData" /\ UNCHANGED pk
  BY DEF DeleteData
<1>2. /\ kp \in Region /\ loc.n \in 0..MaxKeypairs /\ loc.n \in Nat
      /\ loc.at \in 1..loc.n
  BY <1>1, RegionAssumption DEF TypeInv, TypeOK, LocalsOK, Locals
<1>3. /\ Num(kp) = loc.n - 1 /\ ReadableUpto(kp, loc.n)
      /\ kp.slot[loc.at].index = loc.index /\ loc.rec = kp.slot[loc.at]
  BY <1>1 DEF ReadInv, MatchInv, RecordsOK
<1>4. /\ faults = 0 => Num(pk) = loc.n /\ Upto(kp, loc.n) = Live(pk)
      /\ faults = 1 => Agree(Without(Upto(kp, loc.n), loc.index), Live(pk))
  BY <1>1 DEF MatchInv, NoFailure, OneFailure
<1>5. CASE kp' = Drop(kp, loc.at, loc.n) /\ GoTo("dpkCheck", loc) /\ UNCHANGED faults
  <2>1. /\ Live(kp') = Without(Upto(kp, loc.n), loc.index)
        /\ Live(kp') \cup {loc.rec} = Upto(kp, loc.n)
    BY <1>2, <1>3, <1>5, LiveDrop
  <2>2. Num(kp') + 1 = loc.n
    BY <1>2, <1>3, <1>5, DropType
  <2>3. pc' = "dpkCheck" /\ UNCHANGED loc
    BY <1>5 DEF GoTo
  <2> QED
    BY <1>1, <1>4, <1>5, <2>1, <2>2, <2>3 DEF MatchInv, RecordsOK, NoFailure, OneFailure
<1>6. CASE /\ \/ Fault("write")
              \/ loc.at < loc.n /\ (Fault("read") \/ Fault("alloc"))
           /\ GoTo("delUndo", loc)
           /\ UNCHANGED kp
  <2>1. faults = 0 /\ faults' = 1
    BY <1>6, FailureCount
  <2>2. Agree(Upto(kp, loc.n), Live(pk))
    BY <1>3, <1>4, <2>1, AgreeReadable
  <2>3. pc' = "delUndo" /\ UNCHANGED loc
    BY <1>6 DEF GoTo
  <2> QED
    BY <1>1, <1>6, <2>1, <2>2, <2>3 DEF MatchInv, RecordsOK, OneFailure
<1> QED
  BY <1>5, <1>6 DEF DeleteData

LEMMA MatchDeleteUndo ==
    ASSUME OneFailureAtMost, KeyInv, DeleteUndo
    PROVE  MatchInv'
<1> USE DEF KeyInv
<1>1. pc = "delUndo" /\ UNCHANGED pk
  BY DEF DeleteUndo
<1>2. faults = 1 /\ Agree(Upto(kp, loc.n), Live(pk))
  BY <1>1, FailureCount DEF MatchInv, NoFailure, OneFailure
<1>3. kp' = SetNum(kp, loc.n) /\ pc' = "idle" /\ UNCHANGED faults
  <2>1. ~Fault("write")
    BY <1>2, FailureCount
  <2>2. pc' = "idle"
    BY DEF DeleteUndo, ReturnDelete, Return
  <2> QED
    BY <2>1, <2>2 DEF DeleteUndo
<1>4. Live(kp') = Upto(kp, loc.n)
  BY <1>3, LiveSetNum DEF TypeInv, TypeOK, Locals
<1> QED
  BY <1>1, <1>2, <1>3, <1>4, MatchIdle

LEMMA MatchFindPrikey ==
    ASSUME OneFailureAtMost, KeyInv, FindPrikey
    PROVE  MatchInv'
<1> USE DEF KeyInv
<1>1. pc = "dpkCheck" /\ UNCHANGED <<kp, pk>>
  BY DEF FindPrikey
<1>2. /\ faults = 0 => Num(kp) + 1 = Num(pk) /\ Live(kp) \cup {loc.rec} = Live(pk)
      /\ faults = 1 => Agree(Live(kp), Live(pk))
  BY <1>1 DEF MatchInv, NoFailure, OneFailure
<1>3. loc.rec.index = loc.index /\ pk \in Region /\ Num(kp) \in Nat
      /\ faults \in {0, 1} /\ ~Fault("read")
  BY <1>1, NumType, FailureCount DEF ReadInv, TypeInv, TypeOK
<1> DEFINE p == Position(pk, loc.index)
           n == Num(pk)
<1>4. CASE HasIndex(pk, loc.index) /\ GoTo("dpkNum", [loc EXCEPT !.n = n, !.at = p])
           /\ UNCHANGED faults
  <2>1. loc' = [loc EXCEPT !.n = n, !.at = p] /\ pc' = "dpkNum"
    BY <1>4 DEF GoTo
  <2>2. pk.slot[p].index = loc.index /\ n = Num(pk)
    BY <1>3, <1>4, PositionFound
  <2> HIDE DEF p, n
  <2>3. /\ loc'.index = loc.index /\ loc'.n = n /\ loc'.at = p
        /\ loc'.rec = loc.rec
    BY <2>1 DEF TypeInv, TypeOK, Locals
  <2> QED
    BY <1>1, <1>2, <1>4, <2>1, <2>2, <2>3 DEF MatchInv, RecordsOK, NoFailure, OneFailure
<1>5. CASE pk.num = 0 /\ ReturnDelete(TRUE) /\ UNCHANGED faults
  <2>1. Num(pk) = 0
    BY <1>5 DEF Num
  <2>2. faults = 1
    BY <1>2, <1>3, <2>1
  <2>3. pc' = "idle"
    BY <1>5 DEF ReturnDelete, Return
  <2> QED
    BY <1>1, <1>2, <1>5, <2>2, <2>3, MatchIdle
<1>6. CASE ~HasIndex(pk, loc.index) /\ GoTo("restoreRec", loc) /\ UNCHANGED faults
  <2>1. \A t \in Live(pk) : t.index # loc.index
    BY <1>6, IndexLive
  <2>2. faults = 1
    BY <1>2, <1>3, <2>1
  <2>3. Agree(Live(kp) \cup {loc.rec}, Live(pk))
    BY <1>2, <1>3, <2>1, <2>2 DEF Agree
  <2>4. pc' = "restoreRec" /\ UNCHANGED loc
    BY <1>6 DEF GoTo
  <2> QED
    BY <1>1, <1>6, <2>2, <2>3, <2>4 DEF MatchInv, RecordsOK, OneFailure
<1> QED
  BY <1>3, <1>4, <1>5, <1>6 DEF FindPrikey

LEMMA MatchDeletePrikeyNum ==
    ASSUME OneFailureAtMost, KeyInv, DeletePrikeyNum
    PROVE  MatchInv'
<1> USE DEF KeyInv
<1>1. pc = "dpkNum" /\ UNCHANGED kp
  BY DEF DeletePrikeyNum
<1>2. loc.n = Num(pk) /\ pk.slot[loc.at].index = loc.index /\ Upto(pk, loc.n) = Live(pk)
  BY <1>1 DEF MatchInv, RecordsOK, Live
<1>3. CASE pk' = SetNum(pk, loc.n - 1) /\ GoTo("dpkData", loc) /\ UNCHANGED faults
  <2>1. pk \in Region /\ loc.n \in Nat /\ loc.n - 1 \in 0..MaxKeypairs
    BY <1>1, RegionAssumption DEF TypeInv, TypeOK, LocalsOK, Locals
  <2>2. pk'.slot = pk.slot /\ Upto(pk', loc.n) = Upto(pk, loc.n)
    BY <1>3, <2>1, SetNumType, LiveSetNum
  <2>3. pc' = "dpkData" /\ UNCHANGED loc
    BY <1>3 DEF GoTo
  <2> QED
    BY <1>1, <1>2, <1>3, <2>2, <2>3 DEF MatchInv, RecordsOK, NoFailure, OneFailure
<1>4. CASE Fault("write") /\ GoTo("restoreRec", loc) /\ UNCHANGED pk
  <2>1. faults = 0 /\ faults' = 1
    BY <1>4, FailureCount
  <2>2. Live(kp) \cup {loc.rec} = Live(pk) /\ Readable(pk)
    BY <1>1, <2>1 DEF MatchInv, NoFailure, ReadInv, ListsReadable
  <2>3. Agree(Live(kp) \cup {loc.rec}, Live(pk))
    BY <2>2, AgreeReadable DEF Readable, Live
  <2>4. pc' = "restoreRec" /\ UNCHANGED loc
    BY <1>4 DEF GoTo
  <2> QED
    BY <1>1, <1>4, <2>1, <2>3, <2>4 DEF MatchInv, RecordsOK, OneFailure
<1> QED
  BY <1>3, <1>4 DEF DeletePrikeyNum

LEMMA MatchDeletePrikeyData ==
    ASSUME OneFailureAtMost, KeyInv, DeletePrikeyData
    PROVE  MatchInv'
<1> USE DEF KeyInv
<1>1. pc = "dpkData" /\ UNCHANGED kp
  BY DEF DeletePrikeyData
<1>2. /\ pk \in Region /\ loc.n \in 0..MaxKeypairs /\ loc.n \in Nat
      /\ loc.at \in 1..loc.n
  BY <1>1, RegionAssumption DEF TypeInv, TypeOK, LocalsOK, Locals
<1>3. /\ Num(pk) = loc.n - 1 /\ ReadableUpto(pk, loc.n)
      /\ pk.slot[loc.at].index = loc.index
      /\ loc.rec.index = loc.index /\ ~HasIndex(kp, loc.index)
  BY <1>1 DEF ReadInv, MatchInv, RecordsOK
<1>4. /\ faults = 0 => Num(kp) + 1 = loc.n /\ Live(kp) \cup {loc.rec} = Upto(pk, loc.n)
      /\ faults = 1 => Agree(Live(kp), Upto(pk, loc.n))
  BY <1>1 DEF MatchInv, NoFailure, OneFailure
<1>5. CASE pk' = Drop(pk, loc.at, loc.n) /\ ReturnDelete(TRUE) /\ UNCHANGED faults
  <2>1. Live(pk') = Without(Upto(pk, loc.n), loc.index)
    BY <1>2, <1>3, <1>5, LiveDrop
  <2>2. Num(pk') = loc.n - 1
    BY <1>2, <1>3, <1>5, DropType
  <2>3. ASSUME faults = 0 PROVE Num(kp) = Num(pk') /\ Live(kp) = Live(pk')
    <3>1. Without(Live(kp) \cup {loc.rec}, loc.index) = Live(kp)
      BY <1>3, IndexLive DEF Without
    <3>2. Num(kp) \in Nat
      BY NumType DEF TypeInv, TypeOK
    <3> QED
      <4>1. Live(kp) = Live(pk')
        BY <1>4, <2>1, <2>3, <3>1
      <4>2. Num(kp) = Num(pk')
        BY <1>2, <1>4, <2>2, <2>3, <3>2
      <4> QED
        BY <4>1, <4>2
  <2>4. ASSUME faults = 1 PROVE Agree(Live(kp), Live(pk'))
    BY <1>4, <2>1, <2>4 DEF Agree, Without
  <2> QED
    BY <1>1, <1>5, <2>3, <2>4, MatchIdle, ReturnIdle
<1>6. CASE /\ \/ Fault("write")
              \/ loc.at < loc.n /\ (Fault("read") \/ Fault("alloc"))
           /\ GoTo("dpkUndo", loc)
           /\ UNCHANGED pk
  <2>1. faults = 0 /\ faults' = 1
    BY <1>6, FailureCount
  <2>2. Agree(Live(kp), Upto(pk, loc.n))
    BY <1>3, <1>4, <2>1, AgreeReadable
  <2>3. pc' = "dpkUndo" /\ UNCHANGED loc
    BY <1>6 DEF GoTo
  <2> QED
    BY <1>1, <1>6, <2>1, <2>2, <2>3 DEF MatchInv, RecordsOK, OneFailure
<1> QED
  BY <1>5, <1>6 DEF DeletePrikeyData

LEMMA MatchDeletePrikeyUndo ==
    ASSUME OneFailureAtMost, KeyInv, DeletePrikeyUndo
    PROVE  MatchInv'
<1> USE DEF KeyInv
<1>1. pc = "dpkUndo" /\ UNCHANGED kp
  BY DEF DeletePrikeyUndo
<1>2. faults = 1 /\ Agree(Live(kp), Upto(pk, loc.n))
  BY <1>1, FailureCount DEF MatchInv, NoFailure, OneFailure
<1>3. pk' = SetNum(pk, loc.n) /\ pc' = "idle" /\ UNCHANGED faults
  <2>1. ~Fault("write")
    BY <1>2, FailureCount
  <2>2. ReturnDelete(TRUE) => pc' = "idle"
    BY DEF ReturnDelete, Return
  <2> QED
    BY <2>1, <2>2 DEF DeletePrikeyUndo
<1>4. Live(pk') = Upto(pk, loc.n)
  BY <1>3, LiveSetNum DEF TypeInv, TypeOK, Locals
<1> QED
  BY <1>1, <1>2, <1>3, <1>4, MatchIdle

LEMMA MatchRestoreRecord ==
    ASSUME OneFailureAtMost, KeyInv, RestoreRecord
    PROVE  MatchInv'
<1>1. pc = "restoreRec" /\ UNCHANGED pk /\ AppendKeypair(loc.rec, "restoreNum")
  BY DEF RestoreRecord
<1>2. loc.rec \in Slot /\ loc \in Locals /\ Num(kp) \in 0..MaxKeypairs
  BY NumType DEF KeyInv, TypeInv, TypeOK, Locals
<1>3. faults = 1 /\ Agree(Live(kp) \cup {loc.rec}, Live(pk))
  BY <1>1, FailureCount DEF KeyInv, MatchInv, NoFailure, OneFailure
<1>4. CASE /\ Num(kp') = Num(kp) /\ Live(kp') = Live(kp)
           /\ kp'.slot[Num(kp) + 1] = loc.rec
           /\ pc' = "restoreNum" /\ loc' = [loc EXCEPT !.n = Num(kp)]
           /\ UNCHANGED faults
  <2>1. loc'.n = Num(kp) /\ loc'.rec = loc.rec
    BY <1>2, <1>4 DEF Locals
  <2> QED
    BY <1>1, <1>3, <1>4, <2>1 DEF MatchInv, RecordsOK, OneFailure
<1>5. CASE pc' = "idle" /\ UNCHANGED kp
  <2>1. Agree(Live(kp), Live(pk)) /\ faults' # 0
    BY <1>1, <1>2, <1>3, <1>5, FailureCount, AppendBehind, AgreeLess DEF KeyInv, Agree
  <2> QED
    BY <1>1, <1>5, <2>1, MatchIdle
<1> QED
  BY <1>1, <1>2, <1>4, <1>5, AppendBehind

LEMMA MatchRestoreNum ==
    ASSUME OneFailureAtMost, KeyInv, RestoreNum
    PROVE  MatchInv'
<1> USE DEF KeyInv
<1>1. pc = "restoreNum" /\ UNCHANGED pk
  BY DEF RestoreNum
<1>2. faults = 1 /\ Agree(Live(kp) \cup {loc.rec}, Live(pk))
  BY <1>1, FailureCount DEF MatchInv, NoFailure, OneFailure
<1>3. kp' = SetNum(kp, loc.n + 1) /\ pc' = "idle" /\ UNCHANGED faults
  <2>1. ~Fault("write")
    BY <1>2, FailureCount
  <2>2. pc' = "idle"
    BY DEF RestoreNum, Return
  <2> QED
    BY <2>1, <2>2 DEF RestoreNum
<1>4. kp \in Region /\ loc.n \in Nat /\ loc.n + 1 \in 0..MaxKeypairs
  BY <1>1, RegionAssumption DEF TypeInv, TypeOK, LocalsOK, Locals
<1>5. loc.n = Num(kp) /\ kp.slot[loc.n + 1] = loc.rec
  BY <1>1 DEF ReadInv, MatchInv, RecordsOK
<1>6. Live(kp') = Live(kp) \cup {loc.rec}
  BY <1>3, <1>4, <1>5, LiveSetNum, UptoNext DEF Live
<1> QED
  <2>1. Agree(Live(kp'), Live(pk'))
    BY <1>1, <1>2, <1>6
  <2>2. faults' # 0
    BY <1>2, <1>3
  <2> QED
    BY <1>3, <2>1, <2>2, MatchIdle

LEMMA MatchNext ==
    ASSUME OneFailureAtMost
    PROVE  KeyInv /\ [Next]_vars => MatchInv'
<1> SUFFICES ASSUME KeyInv, [Next]_vars PROVE MatchInv'
  OBVIOUS
<1>1. ASSUME UNCHANGED <<kp, pk, pc, loc, faults>> PROVE MatchInv'
  BY <1>1 DEF KeyInv, MatchInv, RecordsOK, NewRecord, NoFailure, OneFailure
<1>2. CASE CreateOnetime \/ DeleteOnetime
  <2>1. CASE UNCHANGED <<kp, pk, pc, loc, faults>>
    BY <1>1, <2>1
  <2>2. CASE CreateOnetime /\ Fault("alloc")
    <3>1. pc' = "idle" /\ UNCHANGED <<kp, pk>>
      BY <2>2 DEF CreateOnetime
    <3> QED
      BY <2>2, <3>1, MatchCut
  <2> QED
    BY <1>2, <2>1, <2>2 DEF CreateOnetime, DeleteOnetime
<1>3. CASE Create
  BY <1>2, <1>3, MatchCreateFlash, MatchStoreRecord, MatchStoreNum,
     MatchCheckPrikey, MatchPrikeyRecord, MatchPrikeyNum DEF Create
<1>4. CASE Delete
  BY <1>2, <1>4, MatchDeleteFlash, MatchFindKeypair, MatchDeleteNum,
     MatchDeleteData, MatchDeleteUndo, MatchFindPrikey, MatchDeletePrikeyNum,
     MatchDeletePrikeyData, MatchDeletePrikeyUndo, MatchRestoreRecord,
     MatchRestoreNum DEF Delete
<1>5. CASE Crash
  BY <1>5, MatchCut DEF Crash
<1>6. CASE UNCHANGED vars
  BY <1>1, <1>6 DEF vars
<1> QED
  BY <1>3, <1>4, <1>5, <1>6 DEF Next

(* As long as reads work, one failed write, one failed allocation or one   *)
(* power loss never pairs an index with a foreign private key: between     *)
(* calls an index that both lists know has one key, and before the failure *)
(* the two lists hold the same keys.  A second failure can break this.     *)
THEOREM KeysStayMatched ==
    ASSUME OneFailureAtMost
    PROVE  Spec => []KeyMatch
<1>1. Init => KeyInv
  BY TypeInit, ReadInit, MatchInit DEF Init, KeyInv
<1>2. KeyInv /\ [Next]_vars => KeyInv'
  BY TypeNext, ReadNext, MatchNext DEF KeyInv, OneFailureAtMost
<1>3. KeyInv => KeyMatch
  <2> SUFFICES ASSUME KeyInv, pc = "idle"
               PROVE  /\ Agree(Live(kp), Live(pk))
                      /\ faults = 0 => Live(kp) = Live(pk)
    BY DEF KeyMatch, Agree
  <2>1. faults \in {0, 1}
    BY FailureCount DEF KeyInv
  <2>2. faults = 0 => Live(kp) = Live(pk)
    BY DEF KeyInv, MatchInv, NoFailure
  <2>3. faults = 1 => Agree(Live(kp), Live(pk))
    BY DEF KeyInv, MatchInv, OneFailure
  <2> QED
    BY <2>1, <2>2, <2>3, AgreeNow
<1> QED
  BY <1>1, <1>2, <1>3, PTL DEF Spec

-----------------------------------------------------------------------------
(* The keypair store implements the table KeyVault                         *)
(*                                                                         *)
(* Every step maps to a step of the table or leaves it as it is.  What can *)
(* be used is the intersection of the two lists, each with the records the *)
(* running call has hidden but not yet given up; the step that gives the   *)
(* last of them up is the one the table sees.                              *)

Table(U) == [i \in Indexes |->
               IF \E s \in U : s.index = i
               THEN (CHOOSE s \in U : s.index = i).key
               ELSE NoKey]

CallInv ==
    /\ pc = "idle" => loc = NoCall
    /\ pc # "idle" => loc.op \in {"create", "delete"}
    /\ pc \in {"storeRec", "storeNum", "pkCheck", "pkRec", "pkNum"} =>
        /\ loc.op = "create" /\ loc.key \in Keys
        /\ \A t \in Live(pk) : t.key # loc.key
    /\ pc \in {"pkCheck", "pkRec", "pkNum"} => NewRecord \in Live(kp)
    /\ loc.op = "create" => \A s \in Usable : s.index # loc.index
    /\ Num(kp) <= Fits
    /\ pc \in {"storeNum", "restoreNum"} => loc.n + 1 <= Fits
    /\ pc \in {"delNum", "delData", "delUndo"} => loc.n <= Fits
    /\ pc \in {"dpkCheck", "dpkNum", "dpkData", "dpkUndo", "restoreRec"} =>
        Num(kp) + 1 <= Fits

VaultInv == KeyInv /\ CallInv

(* One failed write or allocation at most; reads work, the power stays on. *)
OneFailedCall == FaultKinds \subseteq {"write", "alloc"} /\ MaxFaults <= 1

(* What a step of the store is to the table.                               *)
Silent == Usable' = Usable /\ UNCHANGED <<call, ok, onetime>>
Failing == Usable' = Usable /\ call' = Vault!None /\ ok' = FALSE /\ UNCHANGED onetime
Creating ==
    /\ call.op = "create"
    /\ loc.index \in Indexes /\ loc.key \in Keys
    /\ \A s \in Usable : s.index # loc.index /\ s.key # loc.key
    /\ Usable' = Usable \cup {NewRecord}
    /\ call' = Vault!None /\ ok' = TRUE /\ UNCHANGED onetime
Deleting ==
    /\ call.op = "delete"
    /\ loc.index \in Indexes
    /\ Usable' = Without(Usable, loc.index)
    /\ call' = Vault!None /\ ok' = TRUE /\ UNCHANGED onetime
Starting ==
    /\ call = Vault!None
    /\ loc'.index \in Indexes
    /\ \/ loc'.op = "create" /\ \A s \in Usable : s.index # loc'.index
       \/ loc'.op = "delete"
    /\ Usable' = Usable /\ UNCHANGED <<ok, onetime>>

LEMMA OneFailedCallReads ==
    ASSUME OneFailedCall
    PROVE  OneFailureAtMost /\ "crash" \notin FaultKinds
BY DEF OneFailedCall, OneFailureAtMost, ReadsWork

LEMMA TableValue ==
    ASSUME NEW U, Agree(U, U), NEW i \in Indexes
    PROVE  /\ \A s \in U : s.index = i => Table(U)[i] = s.key
           /\ (\A s \in U : s.index # i) => Table(U)[i] = NoKey
<1>1. ASSUME NEW s \in U, s.index = i PROVE Table(U)[i] = s.key
  <2> DEFINE c == CHOOSE t \in U : t.index = i
  <2>1. c \in U /\ c.index = i
    BY <1>1
  <2>2. Table(U)[i] = c.key
    BY <1>1 DEF Table
  <2> HIDE DEF c
  <2> QED
    BY <1>1, <2>1, <2>2 DEF Agree
<1>2. ASSUME \A s \in U : s.index # i PROVE Table(U)[i] = NoKey
  BY <1>2 DEF Table
<1> QED
  BY <1>1, <1>2

LEMMA TableWithout ==
    ASSUME NEW U, Agree(U, U), NEW i \in Indexes
    PROVE  Table(Without(U, i)) = [Table(U) EXCEPT ![i] = NoKey]
<1> DEFINE W == Without(U, i)
<1>1. Agree(W, W) /\ \A s : s \in W <=> s \in U /\ s.index # i
  BY DEF Agree, Without
<1> HIDE DEF W
<1>2. ASSUME NEW j \in Indexes
      PROVE  Table(W)[j] = IF j = i THEN NoKey ELSE Table(U)[j]
  <2>1. CASE j = i
    BY <1>1, <2>1, TableValue
  <2>2. CASE j # i /\ \E s \in U : s.index = j
    <3>1. PICK s \in U : s.index = j
      BY <2>2
    <3>2. Table(U)[j] = s.key /\ Table(W)[j] = s.key
      BY <1>1, <2>2, <3>1, TableValue
    <3> QED
      BY <2>2, <3>2
  <2>3. CASE j # i /\ \A s \in U : s.index # j
    <3>1. Table(U)[j] = NoKey /\ Table(W)[j] = NoKey
      BY <1>1, <2>3, TableValue
    <3> QED
      BY <2>3, <3>1
  <2> QED
    BY <2>1, <2>2, <2>3
<1>3. DOMAIN Table(W) = Indexes /\ DOMAIN Table(U) = Indexes
  BY DEF Table
<1>4. Table(W) = [j \in Indexes |-> Table(W)[j]]
      /\ Table(U) = [j \in Indexes |-> Table(U)[j]]
  BY DEF Table
<1>5. Table(W) = [Table(U) EXCEPT ![i] = NoKey]
  BY <1>2, <1>3, <1>4
<1> QED
  BY <1>5 DEF W

LEMMA TableWith ==
    ASSUME NEW U, Agree(U, U), NEW rec, rec.index \in Indexes,
           \A s \in U : s.index # rec.index
    PROVE  Table(U \cup {rec}) = [Table(U) EXCEPT ![rec.index] = rec.key]
<1> DEFINE W == U \cup {rec}
<1>1. Agree(W, W) /\ \A s : s \in W <=> s \in U \/ s = rec
  BY DEF Agree
<1> HIDE DEF W
<1>2. ASSUME NEW j \in Indexes
      PROVE  Table(W)[j] = IF j = rec.index THEN rec.key ELSE Table(U)[j]
  <2>1. CASE j = rec.index
    BY <1>1, <2>1, TableValue
  <2>2. CASE j # rec.index /\ \E s \in U : s.index = j
    <3>1. PICK s \in U : s.index = j
      BY <2>2
    <3>2. Table(U)[j] = s.key /\ Table(W)[j] = s.key
      BY <1>1, <2>2, <3>1, TableValue
    <3> QED
      BY <2>2, <3>2
  <2>3. CASE j # rec.index /\ \A s \in U : s.index # j
    <3>1. Table(U)[j] = NoKey /\ Table(W)[j] = NoKey
      BY <1>1, <2>3, TableValue
    <3> QED
      BY <2>3, <3>1
  <2> QED
    BY <2>1, <2>2, <2>3
<1>3. DOMAIN Table(W) = Indexes /\ DOMAIN Table(U) = Indexes
  BY DEF Table
<1>4. Table(W) = [j \in Indexes |-> Table(W)[j]]
      /\ Table(U) = [j \in Indexes |-> Table(U)[j]]
  BY DEF Table
<1>5. Table(W) = [Table(U) EXCEPT ![rec.index] = rec.key]
  BY <1>2, <1>3, <1>4
<1> QED
  BY <1>5 DEF W

LEMMA Views ==
    /\ vault = Table(Usable)
    /\ Usable = Keypairs \cap Prikeys
    /\ pc \in {"delData", "delUndo"} => Keypairs = Upto(kp, loc.n)
    /\ pc \in {"dpkCheck", "dpkNum", "dpkData", "dpkUndo", "restoreRec", "restoreNum"} =>
        Keypairs = Live(kp) \cup {loc.rec}
    /\ pc \in {"idle", "storeRec", "storeNum", "pkCheck", "pkRec", "pkNum",
               "delCheck", "delNum"} => Keypairs = Live(kp)
    /\ pc \in {"dpkData", "dpkUndo"} => Prikeys = Upto(pk, loc.n)
    /\ pc \notin {"dpkData", "dpkUndo"} => Prikeys = Live(pk)
BY DEF vault, Table, Usable, Keypairs, Prikeys

LEMMA ViewsNext ==
    /\ vault' = Table(Usable')
    /\ Usable' = Keypairs' \cap Prikeys'
    /\ pc' \in {"delData", "delUndo"} => Keypairs' = Upto(kp', loc'.n)
    /\ pc' \in {"dpkCheck", "dpkNum", "dpkData", "dpkUndo", "restoreRec", "restoreNum"} =>
        Keypairs' = Live(kp') \cup {loc'.rec}
    /\ pc' \in {"idle", "storeRec", "storeNum", "pkCheck", "pkRec", "pkNum",
               "delCheck", "delNum"} => Keypairs' = Live(kp')
    /\ pc' \in {"dpkData", "dpkUndo"} => Prikeys' = Upto(pk', loc'.n)
    /\ pc' \notin {"dpkData", "dpkUndo"} => Prikeys' = Live(pk')
BY DEF vault, Table, Usable, Keypairs, Prikeys

(* Every private key list is readable, so an index is used once.           *)
LEMMA UsableOnce ==
    ASSUME ReadInv
    PROVE  Agree(Usable, Usable)
<1>1. CASE pc \in {"dpkData", "dpkUndo"}
  <2>1. Prikeys = Upto(pk, loc.n) /\ ReadableUpto(pk, loc.n)
    BY <1>1, Views DEF ReadInv
  <2> QED
    BY <2>1, Views, AgreeReadable
<1>2. CASE pc \notin {"dpkData", "dpkUndo"}
  <2>1. Prikeys = Upto(pk, Num(pk)) /\ ReadableUpto(pk, Num(pk))
    BY <1>2, Views DEF ReadInv, ListsReadable, Readable, Live
  <2> QED
    BY <2>1, Views, AgreeReadable
<1> QED
  BY <1>1, <1>2

(* Each kind of step is one of the table's.                                *)
LEMMA VaultStep ==
    ASSUME ReadInv, Silent \/ Failing \/ Creating \/ Deleting \/ Starting
    PROVE  [Vault!Next]_(Vault!vaultVars)
<1>1. vault = Table(Usable) /\ vault' = Table(Usable') /\ Agree(Usable, Usable)
      /\ Indexes = 1..MaxKeypairs
  BY Views, ViewsNext, UsableOnce DEF Indexes
<1>2. CASE Silent
  BY <1>1, <1>2 DEF Silent, Vault!vaultVars
<1>3. CASE Failing
  BY <1>1, <1>3 DEF Failing, Vault!Next, Vault!Fail, Vault!Done
<1>4. CASE Creating
  <2>1. NewRecord.index = loc.index /\ NewRecord.key = loc.key /\ call.index = loc.index
    BY DEF NewRecord, call
  <2>2. vault' = [vault EXCEPT ![call.index] = loc.key]
    <3>1. NewRecord.index \in Indexes /\ \A s \in Usable : s.index # NewRecord.index
      BY <1>4, <2>1 DEF Creating
    <3>2. Table(Usable \cup {NewRecord})
            = [Table(Usable) EXCEPT ![NewRecord.index] = NewRecord.key]
      BY <1>1, <3>1, TableWith
    <3> QED
      BY <1>1, <1>4, <2>1, <3>2 DEF Creating
  <2>3. \A i \in 1..MaxKeypairs : vault[i] # loc.key
    <3> SUFFICES ASSUME NEW i \in Indexes PROVE Table(Usable)[i] # loc.key
      BY <1>1
    <3>1. CASE \E s \in Usable : s.index = i
      BY <1>1, <1>4, <3>1, TableValue DEF Creating
    <3>2. CASE \A s \in Usable : s.index # i
      BY <1>1, <1>4, <3>2, TableValue, RegionAssumption DEF Creating
    <3> QED
      BY <3>1, <3>2
  <2>4. Vault!Create
    BY <1>4, <2>2, <2>3 DEF Creating, Vault!Create, Vault!Done
  <2> QED
    BY <2>4 DEF Vault!Next
<1>5. CASE Deleting
  <2>1. call.index = loc.index
    BY DEF call
  <2>2. vault' = [vault EXCEPT ![call.index] = NoKey]
    BY <1>1, <1>5, <2>1, TableWithout DEF Deleting
  <2>3. Vault!Delete
    BY <1>5, <2>2 DEF Deleting, Vault!Delete, Vault!Done
  <2> QED
    BY <2>3 DEF Vault!Next
<1>6. CASE Starting
  <2>1. vault' = vault
    BY <1>1, <1>6 DEF Starting
  <2>2. loc'.op = "create" => vault[loc'.index] = NoKey
    BY <1>1, <1>6, TableValue DEF Starting
  <2>3. call' = [op |-> loc'.op, index |-> loc'.index]
    BY DEF call
  <2>4. Vault!Begin
    BY <1>1, <1>6, <2>1, <2>2, <2>3 DEF Starting, Vault!Begin
  <2> QED
    BY <2>4 DEF Vault!Next
<1> QED
  BY <1>2, <1>3, <1>4, <1>5, <1>6

LEMMA FitsInv ==
    ASSUME VaultInv
    PROVE  Num(kp) \in Nat /\ Num(pk) \in Nat /\ loc.n \in Nat /\ loc \in Locals
           /\ kp \in Region /\ pk \in Region /\ pc \in Steps
BY NumType, RegionAssumption DEF VaultInv, KeyInv, TypeInv, TypeOK, Locals

LEMMA NoCallIsNone ==
    /\ NoCall.op = "none"
    /\ pc' = "idle" /\ loc' = NoCall => call' = Vault!None
BY DEF NoCall, Call, call, Vault!None

(* A step that shows nothing and stays in the call.                        *)
LEMMA SilentStep ==
    ASSUME Usable' = Usable, UNCHANGED <<ok, onetime>>,
           loc'.op = loc.op, loc'.index = loc.index
    PROVE  Silent
BY DEF Silent, call

(* A call that ends, with the lists as they were or without its keypair.   *)
LEMMA FailingStep ==
    ASSUME Usable' = Usable, UNCHANGED onetime,
           Return(FALSE) \/ ReturnDelete(FALSE)
    PROVE  Failing
BY NoCallIsNone DEF Failing, Return, ReturnDelete

LEMMA DeletingStep ==
    ASSUME VaultInv, pc # "idle", UNCHANGED onetime, ReturnDelete(TRUE),
           Usable' = Without(Usable, loc.index)
    PROVE  Deleting \/ Failing
<1>1. loc.index \in Indexes /\ loc.op \in {"create", "delete"}
  BY DEF VaultInv, CallInv, KeyInv, TypeInv, LocalsOK
<1>2. call' = Vault!None /\ ok' = (loc.op = "delete")
  BY NoCallIsNone DEF ReturnDelete, Return
<1>3. CASE loc.op = "delete"
  BY <1>1, <1>2, <1>3 DEF Deleting, call
<1>4. CASE loc.op = "create"
  <2>1. \A s \in Usable : s.index # loc.index
    BY <1>4 DEF VaultInv, CallInv
  <2>2. Usable' = Usable
    BY <2>1 DEF Without
  <2> QED
    BY <1>2, <1>4, <2>2 DEF Failing
<1> QED
  BY <1>1, <1>3, <1>4

(* A call that returns leaves nothing to say but how many records there are. *)
LEMMA CallReturns ==
    ASSUME NEW success, Return(success) \/ ReturnDelete(success), Num(kp') <= Fits
    PROVE  CallInv'
<1>1. pc' = "idle" /\ loc' = NoCall
  BY DEF Return, ReturnDelete
<1> QED
  BY <1>1, NoCallIsNone DEF CallInv

LEMMA VaultCreateFlash ==
    ASSUME OneFailureAtMost, VaultInv, ReadInv', TypeInv',
           NEW key \in FreshKeys, CreateFlash(key)
    PROVE  CallInv' /\ (Silent \/ Failing \/ Starting)
<1> USE DEF VaultInv, KeyInv
<1>1. pc = "idle" /\ UNCHANGED <<kp, pk, onetime>> /\ loc = NoCall /\ Num(kp) <= Fits
  BY DEF CreateFlash, CallInv
<1>2. \/ ok' = FALSE /\ UNCHANGED <<pc, loc>>
      \/ /\ pc' = "storeRec" /\ UNCHANGED ok
         /\ \E i : loc' = Call("create", i, key)
  BY DEF CreateFlash, GoTo
<1>3. pc' \in {"idle", "storeRec"} => Usable' = Usable
  BY <1>1, Views, ViewsNext
<1>4. CASE ok' = FALSE /\ UNCHANGED <<pc, loc>>
  <2>1. Usable' = Usable
    BY <1>1, <1>3, <1>4
  <2>2. Failing
    BY <1>1, <1>4, <2>1, NoCallIsNone DEF Failing
  <2>3. CallInv'
    BY <1>1, <1>4, NoCallIsNone DEF CallInv
  <2> QED
    BY <2>2, <2>3
<1>5. CASE pc' = "storeRec" /\ UNCHANGED ok /\ \E i : loc' = Call("create", i, key)
  <2>1. loc'.op = "create" /\ loc'.key = key
    BY <1>5 DEF Call
  <2>2. key \in Keys /\ \A t \in Live(pk) : t.key # key
    BY DEF FreshKeys
  <2>3. loc'.index \in Indexes /\ ~HasIndex(kp', loc'.index)
    BY <1>5 DEF ReadInv, TypeInv, LocalsOK
  <2>4. \A s \in Live(kp) : s.index # loc'.index
    BY <1>1, <2>3, IndexLive
  <2>5. Usable' = Usable /\ Usable \subseteq Live(kp)
    BY <1>1, <1>3, <1>5, Views
  <2>6. call = Vault!None
    BY <1>1 DEF NoCall, Call, call, Vault!None
  <2>7. Starting
    BY <1>1, <1>5, <2>1, <2>3, <2>4, <2>5, <2>6 DEF Starting
  <2>8. CallInv'
    BY <1>1, <1>5, <2>1, <2>2, <2>4, <2>5 DEF CallInv
  <2> QED
    BY <2>7, <2>8
<1> QED
  BY <1>2, <1>4, <1>5

LEMMA VaultStoreRecord ==
    ASSUME OneFailureAtMost, VaultInv, StoreRecord
    PROVE  CallInv' /\ (Silent \/ Failing)
<1>1. pc = "storeRec" /\ UNCHANGED <<pk, onetime>> /\ AppendKeypair(NewRecord, "storeNum")
  BY DEF StoreRecord, NewRecord
<1>2. NewRecord \in Slot /\ loc \in Locals /\ Num(kp) \in Nat
      /\ Num(kp) \in 0..MaxKeypairs /\ Num(kp) <= Fits
  BY NumType, RegionAssumption
     DEF VaultInv, KeyInv, CallInv, TypeInv, TypeOK, Locals, Slot, NewRecord
<1>3. CASE \E n \in 0..MaxKeypairs :
            /\ CountRead(kp, n)
            /\ n + 1 <= Fits
            /\ kp' = Put(kp, n + 1, NewRecord)
            /\ GoTo("storeNum", [loc EXCEPT !.n = n])
  <2>1. PICK n \in 0..MaxKeypairs :
            /\ CountRead(kp, n)
            /\ n + 1 <= Fits
            /\ kp' = Put(kp, n + 1, NewRecord)
            /\ GoTo("storeNum", [loc EXCEPT !.n = n])
    BY <1>3
  <2>2. n = Num(kp)
    BY <2>1, CountReadWorks DEF OneFailureAtMost
  <2>3. n + 1 \in Indexes /\ kp \in Region
    BY <1>2, <2>1, <2>2, FitsType, RegionAssumption, FitsInv DEF Indexes
  <2>4. Live(kp') = Live(kp) /\ Num(kp') = Num(kp)
    BY <1>2, <2>1, <2>2, <2>3, LivePut, PutType
  <2>5. /\ pc' = "storeNum" /\ UNCHANGED ok /\ loc'.n = n
        /\ loc'.op = loc.op /\ loc'.index = loc.index /\ loc'.key = loc.key
    BY <1>2, <2>1 DEF GoTo, Locals
  <2>6. Usable' = Usable
    BY <1>1, <2>4, <2>5, Views, ViewsNext
  <2>7. Silent
    BY <1>1, <2>5, <2>6, SilentStep
  <2>8. CallInv'
    BY <1>1, <1>2, <2>1, <2>4, <2>5, <2>6 DEF CallInv, VaultInv
  <2> QED
    BY <2>7, <2>8
<1>4. CASE Return(FALSE) /\ UNCHANGED kp
  <2>1. Usable' = Usable
    BY <1>1, <1>4, Views, ViewsNext DEF Return
  <2> QED
    BY <1>1, <1>2, <1>4, <2>1, FailingStep, CallReturns
<1> QED
  BY <1>1, <1>3, <1>4 DEF AppendKeypair

LEMMA VaultStoreNum ==
    ASSUME OneFailureAtMost, VaultInv, StoreNum
    PROVE  CallInv' /\ (Silent \/ Failing)
<1> USE DEF VaultInv, KeyInv
<1>1. pc = "storeNum" /\ UNCHANGED <<pk, onetime>>
  BY DEF StoreNum
<1>2. Num(kp) <= Fits /\ loc.n + 1 <= Fits /\ loc.op = "create" /\ loc.key \in Keys
      /\ (\A t \in Live(pk) : t.key # loc.key) /\ \A s \in Usable : s.index # loc.index
  BY <1>1 DEF CallInv
<1>3. CASE kp' = SetNum(kp, loc.n + 1) /\ GoTo("pkCheck", loc)
  <2>1. kp \in Region /\ loc.n \in Nat /\ loc.n + 1 \in 0..MaxKeypairs
    BY <1>1, RegionAssumption DEF TypeInv, TypeOK, LocalsOK, Locals
  <2>2. loc.n = Num(kp) /\ kp.slot[loc.n + 1] = NewRecord
    BY <1>1 DEF ReadInv, MatchInv, RecordsOK
  <2>3. Num(kp') = Num(kp) + 1 /\ Live(kp') = Live(kp) \cup {NewRecord}
    <3>1. Num(kp') = loc.n + 1 /\ Live(kp') = Upto(kp, loc.n + 1)
      BY <1>3, <2>1, SetNumType, LiveSetNum
    <3>2. Upto(kp, loc.n + 1) = Upto(kp, loc.n) \cup {NewRecord}
      BY <2>1, <2>2, UptoNext
    <3> QED
      BY <2>2, <3>1, <3>2 DEF Live
  <2>4. pc' = "pkCheck" /\ UNCHANGED <<loc, ok>> /\ NewRecord' = NewRecord
    BY <1>3 DEF GoTo, NewRecord
  <2>5. NewRecord \notin Live(pk)
    BY <1>2 DEF NewRecord
  <2>6. Usable' = Usable
    BY <1>1, <2>3, <2>4, <2>5, Views, ViewsNext
  <2>7. Silent
    BY <1>1, <2>4, <2>6, SilentStep
  <2>8. CallInv'
    BY <1>1, <1>2, <2>2, <2>3, <2>4, <2>6 DEF CallInv
  <2> QED
    BY <2>7, <2>8
<1>4. CASE Return(FALSE) /\ UNCHANGED kp
  <2>1. Usable' = Usable
    BY <1>1, <1>4, Views, ViewsNext DEF Return
  <2> QED
    BY <1>1, <1>2, <1>4, <2>1, FailingStep, CallReturns
<1> QED
  BY <1>3, <1>4 DEF StoreNum

LEMMA VaultCheckPrikey ==
    ASSUME OneFailureAtMost, VaultInv, CheckPrikey
    PROVE  CallInv' /\ Silent
<1>1. pc = "pkCheck" /\ UNCHANGED <<kp, pk, onetime>>
  BY DEF CheckPrikey
<1>2. pc' \in {"pkRec", "delCheck"} /\ UNCHANGED ok
      /\ loc'.op = loc.op /\ loc'.index = loc.index /\ loc'.key = loc.key
  BY FitsInv DEF CheckPrikey, GoTo, Locals
<1>3. Usable' = Usable /\ NewRecord' = NewRecord
  BY <1>1, <1>2, Views, ViewsNext DEF NewRecord
<1>4. CallInv'
  BY <1>1, <1>2, <1>3 DEF VaultInv, CallInv
<1> QED
  BY <1>1, <1>2, <1>3, <1>4, SilentStep

LEMMA VaultPrikeyRecord ==
    ASSUME OneFailureAtMost, VaultInv, PrikeyRecord
    PROVE  CallInv' /\ Silent
<1>1. pc = "pkRec" /\ UNCHANGED <<kp, onetime>>
  BY DEF PrikeyRecord
<1>2. pc' \in {"pkNum", "delCheck"} /\ UNCHANGED <<loc, ok>> /\ NewRecord' = NewRecord
  BY DEF PrikeyRecord, GoTo, NewRecord
<1>3. Live(pk') = Live(pk)
  <2>1. CASE pk' = Put(pk, loc.n + 1, [index |-> loc.index, key |-> loc.key])
    <3>1. pk \in Region /\ loc.n + 1 \in Indexes /\ loc.n = Num(pk) /\ NewRecord \in Slot
      BY <1>1, RegionAssumption DEF VaultInv, KeyInv, TypeInv, TypeOK, LocalsOK, Locals,
         Indexes, ReadInv, NewRecord, Slot
    <3>2. pk' = Put(pk, Num(pk) + 1, NewRecord)
      BY <2>1, <3>1 DEF NewRecord
    <3> QED
      BY <3>1, <3>2, LivePut
  <2> QED
    BY <2>1 DEF PrikeyRecord
<1>4. Usable' = Usable
  BY <1>1, <1>2, <1>3, Views, ViewsNext
<1>5. CallInv'
  BY <1>1, <1>2, <1>3, <1>4 DEF VaultInv, CallInv
<1> QED
  BY <1>1, <1>2, <1>4, <1>5, SilentStep

LEMMA VaultPrikeyNum ==
    ASSUME OneFailureAtMost, VaultInv, PrikeyNum
    PROVE  CallInv' /\ (Silent \/ Creating)
<1> USE DEF VaultInv, KeyInv
<1>1. pc = "pkNum" /\ UNCHANGED <<kp, onetime>>
  BY DEF PrikeyNum
<1>2. Num(kp) <= Fits /\ loc.op = "create" /\ loc.key \in Keys /\ NewRecord \in Live(kp)
      /\ (\A t \in Live(pk) : t.key # loc.key) /\ \A s \in Usable : s.index # loc.index
  BY <1>1 DEF CallInv
<1>3. CASE pk' = SetNum(pk, loc.n + 1) /\ Return(TRUE)
  <2>1. pk \in Region /\ loc.n \in Nat /\ loc.n + 1 \in 0..MaxKeypairs
        /\ loc.index \in Indexes
    BY <1>1, RegionAssumption DEF TypeInv, TypeOK, LocalsOK, Locals
  <2>2. loc.n = Num(pk) /\ pk.slot[loc.n + 1] = NewRecord
    BY <1>1 DEF ReadInv, MatchInv, RecordsOK
  <2>3. Live(pk') = Live(pk) \cup {NewRecord}
    <3>1. Live(pk') = Upto(pk, loc.n + 1)
      BY <1>3, <2>1, LiveSetNum
    <3>2. Upto(pk, loc.n + 1) = Upto(pk, loc.n) \cup {NewRecord}
      BY <2>1, <2>2, UptoNext
    <3> QED
      BY <2>2, <3>1, <3>2 DEF Live
  <2>4. pc' = "idle" /\ loc' = NoCall /\ ok' = TRUE
    BY <1>3 DEF Return
  <2>5. Usable' = Usable \cup {NewRecord}
    BY <1>1, <1>2, <2>3, <2>4, Views, ViewsNext
  <2>6. Usable \subseteq Live(pk)
    BY <1>1, Views
  <2>7. Creating
    BY <1>1, <1>2, <2>1, <2>4, <2>5, <2>6, NoCallIsNone DEF Creating, call
  <2> QED
    BY <1>1, <1>2, <1>3, <2>7, CallReturns
<1>4. CASE GoTo("delCheck", loc) /\ UNCHANGED pk
  <2>1. pc' = "delCheck" /\ UNCHANGED <<loc, ok>>
    BY <1>4 DEF GoTo
  <2>2. Usable' = Usable
    BY <1>1, <1>4, <2>1, Views, ViewsNext
  <2>3. CallInv'
    BY <1>1, <1>2, <2>1, <2>2 DEF CallInv
  <2> QED
    BY <1>1, <2>1, <2>2, <2>3, SilentStep
<1> QED
  BY <1>3, <1>4 DEF PrikeyNum

LEMMA VaultDeleteFlash ==
    ASSUME VaultInv, NEW i \in Indexes, DeleteFlash(i)
    PROVE  CallInv' /\ Starting
<1>1. pc = "idle" /\ UNCHANGED <<kp, pk, onetime, ok>> /\ pc' = "delCheck"
      /\ loc = NoCall /\ Num(kp) <= Fits
  BY DEF DeleteFlash, GoTo, VaultInv, CallInv
<1>2. loc'.op = "delete" /\ loc'.index = i
  BY DEF DeleteFlash, GoTo, Call
<1>3. Usable' = Usable
  BY <1>1, Views, ViewsNext
<1>4. call = Vault!None
  BY <1>1 DEF NoCall, Call, call, Vault!None
<1>5. CallInv'
  BY <1>1, <1>2 DEF CallInv
<1> QED
  BY <1>1, <1>2, <1>3, <1>4, <1>5 DEF Starting

LEMMA VaultFindKeypair ==
    ASSUME OneFailureAtMost, VaultInv, FindKeypair
    PROVE  CallInv' /\ (Silent \/ Failing)
<1>1. pc = "delCheck" /\ UNCHANGED <<kp, pk, onetime>> /\ Num(kp) <= Fits
  BY DEF FindKeypair, VaultInv, CallInv
<1> DEFINE p == Position(kp, loc.index)
           n == Num(kp)
           rec == kp.slot[p]
<1>2. CASE GoTo("delNum", [loc EXCEPT !.n = n, !.at = p, !.rec = rec])
  <2>1. loc' = [loc EXCEPT !.n = n, !.at = p, !.rec = rec] /\ pc' = "delNum" /\ UNCHANGED ok
    BY <1>2 DEF GoTo
  <2>2. n = Num(kp)
    OBVIOUS
  <2> HIDE DEF p, n, rec
  <2>3. loc'.index = loc.index /\ loc'.n = n /\ loc'.op = loc.op
    BY <2>1, FitsInv DEF Locals
  <2>4. Usable' = Usable
    BY <1>1, <2>1, Views, ViewsNext
  <2>5. CallInv'
    BY <1>1, <2>1, <2>2, <2>3, <2>4 DEF VaultInv, CallInv
  <2> QED
    BY <1>1, <2>1, <2>3, <2>4, <2>5, SilentStep
<1>3. CASE ReturnDelete(FALSE)
  <2>1. Usable' = Usable
    BY <1>1, <1>3, Views, ViewsNext DEF ReturnDelete, Return
  <2> QED
    BY <1>1, <1>3, <2>1, FailingStep, CallReturns
<1> QED
  BY <1>2, <1>3 DEF FindKeypair

LEMMA VaultDeleteNum ==
    ASSUME OneFailureAtMost, VaultInv, DeleteNum
    PROVE  CallInv' /\ (Silent \/ Failing)
<1> USE DEF VaultInv, KeyInv
<1>1. pc = "delNum" /\ UNCHANGED <<pk, onetime>> /\ Num(kp) <= Fits /\ loc.n <= Fits
  BY DEF DeleteNum, CallInv
<1>2. CASE kp' = SetNum(kp, loc.n - 1) /\ GoTo("delData", loc)
  <2>1. kp \in Region /\ loc.n \in Nat /\ loc.n - 1 \in 0..MaxKeypairs
    BY <1>1, RegionAssumption DEF TypeInv, TypeOK, LocalsOK, Locals
  <2>2. Num(kp') = loc.n - 1 /\ Upto(kp', loc.n) = Upto(kp, loc.n)
    BY <1>2, <2>1, SetNumType, LiveSetNum
  <2>3. Upto(kp, loc.n) = Live(kp)
    BY <1>1 DEF MatchInv, RecordsOK, Live
  <2>4. pc' = "delData" /\ UNCHANGED <<loc, ok>>
    BY <1>2 DEF GoTo
  <2>5. Usable' = Usable
    BY <1>1, <2>2, <2>3, <2>4, Views, ViewsNext
  <2>6. Num(kp') <= Fits
    BY <1>1, <2>1, <2>2, FitsType
  <2>7. CallInv'
    BY <1>1, <2>4, <2>5, <2>6 DEF CallInv
  <2> QED
    BY <1>1, <2>4, <2>5, <2>7, SilentStep
<1>3. CASE ReturnDelete(FALSE) /\ UNCHANGED kp
  <2>1. Usable' = Usable
    BY <1>1, <1>3, Views, ViewsNext DEF ReturnDelete, Return
  <2> QED
    BY <1>1, <1>3, <2>1, FailingStep, CallReturns
<1> QED
  BY <1>2, <1>3 DEF DeleteNum

LEMMA VaultDeleteData ==
    ASSUME OneFailureAtMost, VaultInv, DeleteData
    PROVE  CallInv' /\ Silent
<1> USE DEF VaultInv, KeyInv
<1>1. pc = "delData" /\ UNCHANGED <<pk, onetime>> /\ Num(kp) <= Fits /\ loc.n <= Fits
  BY DEF DeleteData, CallInv
<1>2. /\ kp \in Region /\ loc.n \in 0..MaxKeypairs /\ loc.n \in Nat
      /\ loc.at \in 1..loc.n
  BY <1>1, RegionAssumption DEF TypeInv, TypeOK, LocalsOK, Locals
<1>3. /\ Num(kp) = loc.n - 1 /\ ReadableUpto(kp, loc.n) /\ loc.rec = kp.slot[loc.at]
  BY <1>1 DEF ReadInv, MatchInv, RecordsOK
<1>4. CASE kp' = Drop(kp, loc.at, loc.n) /\ GoTo("dpkCheck", loc)
  <2>1. Live(kp') \cup {loc.rec} = Upto(kp, loc.n) /\ Num(kp') + 1 = loc.n
    BY <1>2, <1>3, <1>4, LiveDrop, DropType
  <2>2. pc' = "dpkCheck" /\ UNCHANGED <<loc, ok>>
    BY <1>4 DEF GoTo
  <2>3. Usable' = Usable
    BY <1>1, <2>1, <2>2, Views, ViewsNext
  <2>4. Num(kp') = Num(kp)
    BY <1>2, <1>3, <1>4, DropType
  <2>5. CallInv'
    BY <1>1, <2>1, <2>2, <2>3, <2>4 DEF CallInv
  <2> QED
    BY <1>1, <2>2, <2>3, <2>5, SilentStep
<1>5. CASE GoTo("delUndo", loc) /\ UNCHANGED kp
  <2>1. pc' = "delUndo" /\ UNCHANGED <<loc, ok>>
    BY <1>5 DEF GoTo
  <2>2. Usable' = Usable
    BY <1>1, <1>5, <2>1, Views, ViewsNext
  <2>3. CallInv'
    BY <1>1, <1>5, <2>1, <2>2 DEF CallInv
  <2> QED
    BY <1>1, <2>1, <2>2, <2>3, SilentStep
<1> QED
  BY <1>4, <1>5 DEF DeleteData

(* The undo works: the failure that led to it was the only one.            *)
LEMMA VaultDeleteUndo ==
    ASSUME OneFailureAtMost, VaultInv, DeleteUndo
    PROVE  CallInv' /\ Failing
<1> USE DEF VaultInv, KeyInv
<1>1. pc = "delUndo" /\ UNCHANGED <<pk, onetime>> /\ loc.n <= Fits
  BY DEF DeleteUndo, CallInv
<1>2. ~Fault("write")
  BY <1>1, FailureCount DEF MatchInv, NoFailure
<1>3. kp' = SetNum(kp, loc.n) /\ ReturnDelete(FALSE)
  BY <1>2 DEF DeleteUndo
<1>4. Live(kp') = Upto(kp, loc.n) /\ Num(kp') = loc.n
  BY <1>3, LiveSetNum, SetNumType DEF TypeInv, TypeOK, Locals
<1>5. pc' = "idle"
  BY <1>3 DEF ReturnDelete, Return
<1>6. Usable' = Usable
  BY <1>1, <1>4, <1>5, Views, ViewsNext
<1> QED
  BY <1>1, <1>3, <1>4, <1>6, FailingStep, CallReturns

(* What a keypair's deletion gives up is the record it has set aside.      *)
LEMMA SetAside ==
    ASSUME VaultInv, pc \in {"dpkCheck", "dpkNum", "dpkData", "dpkUndo"}
    PROVE  /\ loc.rec.index = loc.index
           /\ \A s \in Live(kp) : s.index # loc.index
           /\ Num(kp) + 1 <= Fits /\ Num(kp) <= Fits
BY IndexLive DEF VaultInv, KeyInv, ReadInv, CallInv

LEMMA VaultFindPrikey ==
    ASSUME OneFailureAtMost, VaultInv, FindPrikey
    PROVE  CallInv' /\ (Silent \/ Failing \/ Deleting)
<1>1. pc = "dpkCheck" /\ UNCHANGED <<kp, pk, onetime>>
  BY DEF FindPrikey
<1>2. ASSUME pc' \in {"dpkNum", "restoreRec"}, UNCHANGED ok, Prikeys' = Live(pk),
             loc'.op = loc.op, loc'.index = loc.index, loc'.rec = loc.rec
      PROVE  CallInv' /\ Silent
  <2>1. Usable' = Usable
    BY <1>1, <1>2, Views, ViewsNext
  <2>2. CallInv'
    BY <1>1, <1>2, <2>1 DEF VaultInv, CallInv
  <2> QED
    BY <1>1, <1>2, <2>1, <2>2, SilentStep
<1> DEFINE p == Position(pk, loc.index)
           n == Num(pk)
<1>3. CASE GoTo("dpkNum", [loc EXCEPT !.n = n, !.at = p])
  <2>1. loc' = [loc EXCEPT !.n = n, !.at = p] /\ pc' = "dpkNum" /\ UNCHANGED ok
    BY <1>3 DEF GoTo
  <2> HIDE DEF p, n
  <2>2. loc'.index = loc.index /\ loc'.op = loc.op /\ loc'.rec = loc.rec
    BY <2>1, FitsInv DEF Locals
  <2>3. Prikeys' = Live(pk)
    BY <1>1, <2>1, ViewsNext
  <2> QED
    BY <1>2, <2>1, <2>2, <2>3
<1>4. CASE pk.num = 0 /\ ReturnDelete(TRUE)
  <2>1. Live(pk) = {}
    BY <1>4 DEF Live, Upto, Num, NoHeader
  <2>2. pc' = "idle"
    BY <1>4 DEF ReturnDelete, Return
  <2>3. Usable = {} /\ Usable' = {}
    BY <1>1, <2>1, <2>2, Views, ViewsNext
  <2>4. Usable' = Without(Usable, loc.index)
    BY <2>3 DEF Without
  <2> QED
    BY <1>1, <1>4, <2>4, DeletingStep, CallReturns, SetAside
<1>5. CASE GoTo("restoreRec", loc)
  <2>1. pc' = "restoreRec" /\ UNCHANGED <<loc, ok>>
    BY <1>5 DEF GoTo
  <2>2. Prikeys' = Live(pk)
    BY <1>1, <2>1, ViewsNext
  <2> QED
    BY <1>2, <2>1, <2>2
<1> QED
  BY <1>3, <1>4, <1>5 DEF FindPrikey

LEMMA VaultDeletePrikeyNum ==
    ASSUME OneFailureAtMost, VaultInv, DeletePrikeyNum
    PROVE  CallInv' /\ Silent
<1> USE DEF VaultInv, KeyInv
<1>1. pc = "dpkNum" /\ UNCHANGED <<kp, onetime>>
  BY DEF DeletePrikeyNum
<1>2. pc' \in {"dpkData", "restoreRec"} /\ UNCHANGED <<loc, ok>>
  BY DEF DeletePrikeyNum, GoTo
<1>3. Prikeys' = Live(pk)
  <2>1. CASE pk' = SetNum(pk, loc.n - 1) /\ GoTo("dpkData", loc)
    <3>1. pk \in Region /\ loc.n \in Nat /\ loc.n - 1 \in 0..MaxKeypairs
      BY <1>1, RegionAssumption DEF TypeInv, TypeOK, LocalsOK, Locals
    <3>2. Upto(pk', loc.n) = Upto(pk, loc.n)
      BY <2>1, <3>1, LiveSetNum
    <3>3. Upto(pk, loc.n) = Live(pk)
      BY <1>1 DEF MatchInv, RecordsOK, Live
    <3>4. pc' = "dpkData"
      BY <2>1 DEF GoTo
    <3> QED
      BY <1>2, <3>2, <3>3, <3>4, ViewsNext
  <2>2. CASE GoTo("restoreRec", loc) /\ UNCHANGED pk
    <3>1. pc' = "restoreRec"
      BY <2>2 DEF GoTo
    <3> QED
      BY <2>2, <3>1, ViewsNext
  <2> QED
    BY <2>1, <2>2 DEF DeletePrikeyNum
<1>4. Usable' = Usable
  BY <1>1, <1>2, <1>3, Views, ViewsNext
<1>5. CallInv'
  BY <1>1, <1>2, <1>4 DEF CallInv
<1> QED
  BY <1>1, <1>2, <1>4, <1>5, SilentStep

LEMMA VaultDeletePrikeyData ==
    ASSUME OneFailureAtMost, VaultInv, DeletePrikeyData
    PROVE  CallInv' /\ (Silent \/ Failing \/ Deleting)
<1> USE DEF VaultInv, KeyInv
<1>1. pc = "dpkData" /\ UNCHANGED <<kp, onetime>>
  BY DEF DeletePrikeyData
<1>2. /\ pk \in Region /\ loc.n \in 0..MaxKeypairs /\ loc.at \in 1..loc.n
  BY <1>1, RegionAssumption DEF TypeInv, TypeOK, LocalsOK, Locals
<1>3. /\ Num(pk) = loc.n - 1 /\ ReadableUpto(pk, loc.n)
      /\ pk.slot[loc.at].index = loc.index
  BY <1>1 DEF ReadInv, MatchInv, RecordsOK
<1>4. CASE pk' = Drop(pk, loc.at, loc.n) /\ ReturnDelete(TRUE)
  <2>1. Live(pk') = Without(Upto(pk, loc.n), loc.index)
    BY <1>2, <1>3, <1>4, LiveDrop
  <2>2. pc' = "idle"
    BY <1>4 DEF ReturnDelete, Return
  <2>3. Usable' = Live(kp) \cap Without(Upto(pk, loc.n), loc.index)
        /\ Usable = (Live(kp) \cup {loc.rec}) \cap Upto(pk, loc.n)
    BY <1>1, <2>1, <2>2, Views, ViewsNext
  <2>4. Usable' = Without(Usable, loc.index)
    BY <1>1, <2>3, SetAside DEF Without
  <2> QED
    BY <1>1, <1>4, <2>4, DeletingStep, CallReturns, SetAside
<1>5. CASE GoTo("dpkUndo", loc) /\ UNCHANGED pk
  <2>1. pc' = "dpkUndo" /\ UNCHANGED <<loc, ok>>
    BY <1>5 DEF GoTo
  <2>2. Usable' = Usable
    BY <1>1, <1>5, <2>1, Views, ViewsNext
  <2>3. CallInv'
    BY <1>1, <2>1, <2>2 DEF CallInv
  <2> QED
    BY <1>1, <2>1, <2>2, <2>3, SilentStep
<1> QED
  BY <1>4, <1>5 DEF DeletePrikeyData

(* The private key stays behind, and the delete is done: without its       *)
(* keypair nobody can use it.                                              *)
LEMMA VaultDeletePrikeyUndo ==
    ASSUME OneFailureAtMost, VaultInv, DeletePrikeyUndo
    PROVE  CallInv' /\ (Failing \/ Deleting)
<1> USE DEF VaultInv, KeyInv
<1>1. pc = "dpkUndo" /\ UNCHANGED <<kp, onetime>>
  BY DEF DeletePrikeyUndo
<1>2. ~Fault("write")
  BY <1>1, FailureCount DEF MatchInv, NoFailure
<1>3. pk' = SetNum(pk, loc.n) /\ ReturnDelete(TRUE)
  BY <1>2 DEF DeletePrikeyUndo
<1>4. Live(pk') = Upto(pk, loc.n)
  BY <1>3, LiveSetNum DEF TypeInv, TypeOK, Locals
<1>5. pc' = "idle"
  BY <1>3 DEF ReturnDelete, Return
<1>6. Usable' = Live(kp) \cap Upto(pk, loc.n)
      /\ Usable = (Live(kp) \cup {loc.rec}) \cap Upto(pk, loc.n)
  BY <1>1, <1>4, <1>5, Views, ViewsNext
<1>7. Usable' = Without(Usable, loc.index)
  BY <1>1, <1>6, SetAside DEF Without
<1> QED
  BY <1>1, <1>3, <1>7, DeletingStep, CallReturns, SetAside

(* The restore finds the room its record had, and nothing else fails.      *)
LEMMA VaultRestoreRecord ==
    ASSUME OneFailureAtMost, VaultInv, RestoreRecord
    PROVE  CallInv' /\ Silent
<1> USE DEF VaultInv, KeyInv
<1>1. pc = "restoreRec" /\ UNCHANGED <<pk, onetime>> /\ AppendKeypair(loc.rec, "restoreNum")
  BY DEF RestoreRecord
<1>2. loc.rec \in Slot /\ loc \in Locals /\ Num(kp) \in Nat
      /\ Num(kp) \in 0..MaxKeypairs /\ Num(kp) + 1 <= Fits
  BY <1>1, NumType, RegionAssumption DEF CallInv, TypeInv, TypeOK, Locals
<1>3. \A kind : ~Fault(kind)
  BY <1>1, FailureCount DEF MatchInv, NoFailure
<1>4. PICK n \in 0..MaxKeypairs :
            /\ CountRead(kp, n)
            /\ n + 1 <= Fits
            /\ kp' = Put(kp, n + 1, loc.rec)
            /\ GoTo("restoreNum", [loc EXCEPT !.n = n])
  <2>1. ~(Num(kp) + 1 > Fits)
    BY <1>2, FitsType
  <2> QED
    BY <1>1, <1>3, <2>1 DEF AppendKeypair
<1>5. n = Num(kp)
  BY <1>4, CountReadWorks DEF OneFailureAtMost
<1>6. n + 1 \in Indexes /\ kp \in Region
  BY <1>2, <1>5, FitsType, RegionAssumption, FitsInv DEF Indexes
<1>7. Live(kp') = Live(kp) /\ Num(kp') = Num(kp)
  BY <1>2, <1>4, <1>5, <1>6, LivePut, PutType
<1>8. /\ pc' = "restoreNum" /\ UNCHANGED ok /\ loc'.n = n
      /\ loc'.op = loc.op /\ loc'.index = loc.index /\ loc'.rec = loc.rec
  BY <1>2, <1>4 DEF GoTo, Locals
<1>9. Usable' = Usable
  BY <1>1, <1>7, <1>8, Views, ViewsNext
<1>10. CallInv'
  BY <1>1, <1>4, <1>7, <1>8, <1>9 DEF CallInv
<1> QED
  BY <1>1, <1>8, <1>9, <1>10, SilentStep

LEMMA VaultRestoreNum ==
    ASSUME OneFailureAtMost, VaultInv, RestoreNum
    PROVE  CallInv' /\ Failing
<1> USE DEF VaultInv, KeyInv
<1>1. pc = "restoreNum" /\ UNCHANGED <<pk, onetime>> /\ Return(FALSE) /\ loc.n + 1 <= Fits
  BY DEF RestoreNum, CallInv
<1>2. ~Fault("write")
  BY <1>1, FailureCount DEF MatchInv, NoFailure
<1>3. kp' = SetNum(kp, loc.n + 1)
  BY <1>2 DEF RestoreNum
<1>4. kp \in Region /\ loc.n \in Nat /\ loc.n + 1 \in 0..MaxKeypairs
  BY <1>1, RegionAssumption DEF TypeInv, TypeOK, LocalsOK, Locals
<1>5. loc.n = Num(kp) /\ kp.slot[loc.n + 1] = loc.rec
  BY <1>1 DEF ReadInv, MatchInv, RecordsOK
<1>6. Num(kp') = loc.n + 1 /\ Live(kp') = Live(kp) \cup {loc.rec}
  <2>1. Num(kp') = loc.n + 1 /\ Live(kp') = Upto(kp, loc.n + 1)
    BY <1>3, <1>4, SetNumType, LiveSetNum
  <2>2. Upto(kp, loc.n + 1) = Upto(kp, loc.n) \cup {loc.rec}
    BY <1>4, <1>5, UptoNext
  <2> QED
    BY <1>5, <2>1, <2>2 DEF Live
<1>7. pc' = "idle"
  BY <1>1 DEF Return
<1>8. Usable' = Usable
  BY <1>1, <1>6, <1>7, Views, ViewsNext
<1> QED
  BY <1>1, <1>6, <1>8, FailingStep, CallReturns

LEMMA VaultOnetime ==
    ASSUME VaultInv, CreateOnetime \/ DeleteOnetime
    PROVE  CallInv' /\ Vault!Onetime /\ Usable' = Usable
<1>1. pc = "idle" /\ loc = NoCall /\ UNCHANGED <<kp, pk, pc, loc>>
  BY DEF CreateOnetime, DeleteOnetime, VaultInv, CallInv
<1>2. Usable' = Usable /\ vault' = vault
  BY <1>1, Views, ViewsNext
<1>3. call = Vault!None /\ UNCHANGED call
  BY <1>1 DEF NoCall, Call, call, Vault!None
<1>4. CallInv'
  BY <1>1, <1>2 DEF VaultInv, CallInv, NewRecord
<1>5. CASE CreateOnetime
  <2>1. CASE onetime' = {"keypair", "prikey"} /\ ok' = TRUE
    <3>1. ("keypair" \in onetime') = TRUE /\ ok' = TRUE
      BY <2>1
    <3> QED
      BY <1>2, <1>3, <1>4, <3>1 DEF Vault!Onetime, Vault!CreateOnetime
  <2>2. CASE onetime' = onetime /\ ok' = FALSE
    BY <1>2, <1>3, <1>4, <2>2, Zenon DEF Vault!Onetime, Vault!CreateOnetime
  <2>3. CASE onetime' = onetime \ {"keypair"} /\ ok' = FALSE
    <3>1. ("keypair" \in onetime') = FALSE /\ ok' = FALSE
      BY <2>3
    <3> QED
      BY <1>2, <1>3, <1>4, <3>1, Zenon DEF Vault!Onetime, Vault!CreateOnetime
  <2> QED
    BY <1>5, <2>1, <2>2, <2>3 DEF CreateOnetime
<1>6. CASE DeleteOnetime
  <2>1. ("keypair" \in onetime') = FALSE /\ ok' = ("keypair" \in onetime)
    BY <1>6 DEF DeleteOnetime
  <2> QED
    BY <1>2, <1>3, <1>4, <2>1 DEF Vault!Onetime, Vault!DeleteOnetime
<1> QED
  BY <1>5, <1>6

LEMMA VaultCrash ==
    ASSUME VaultInv, Crash
    PROVE  CallInv'
<1>1. pc' = "idle" /\ loc' = NoCall /\ UNCHANGED kp
  BY DEF Crash
<1> QED
  BY <1>1, NoCallIsNone DEF VaultInv, CallInv

LEMMA VaultNext ==
    ASSUME OneFailureAtMost, VaultInv, KeyInv', [Next]_vars
    PROVE  /\ CallInv'
           /\ \/ Silent \/ Failing \/ Creating \/ Deleting \/ Starting
              \/ Vault!Onetime /\ Usable' = Usable
              \/ Crash
<1>1. ReadInv' /\ TypeInv'
  BY DEF KeyInv
<1>2. CASE CreateOnetime \/ DeleteOnetime
  BY <1>2, VaultOnetime
<1>3. CASE Create
  BY <1>1, <1>2, <1>3, VaultCreateFlash, VaultStoreRecord, VaultStoreNum,
     VaultCheckPrikey, VaultPrikeyRecord, VaultPrikeyNum DEF Create
<1>4. CASE Delete
  BY <1>2, <1>4, VaultDeleteFlash, VaultFindKeypair, VaultDeleteNum,
     VaultDeleteData, VaultDeleteUndo, VaultFindPrikey, VaultDeletePrikeyNum,
     VaultDeletePrikeyData, VaultDeletePrikeyUndo, VaultRestoreRecord,
     VaultRestoreNum DEF Delete
<1>5. CASE Crash
  BY <1>5, VaultCrash
<1>6. CASE UNCHANGED vars
  <2>1. UNCHANGED <<kp, pk, onetime, pc, loc, ok>>
    BY <1>6 DEF vars
  <2>2. Usable' = Usable
    BY <2>1 DEF Usable, Keypairs, Prikeys
  <2>3. Silent
    BY <2>1, <2>2, SilentStep
  <2>4. CallInv'
    BY <2>1, <2>2 DEF VaultInv, CallInv, NewRecord
  <2> QED
    BY <2>3, <2>4
<1> QED
  BY <1>3, <1>4, <1>5, <1>6 DEF Next

LEMMA VaultInit == Init => CallInv /\ Vault!Init
<1> SUFFICES ASSUME Init PROVE CallInv /\ Vault!Init
  OBVIOUS
<1>1. pc = "idle" /\ kp = EmptyRegion /\ pk = EmptyRegion /\ loc = NoCall
      /\ onetime = {} /\ ok = TRUE
  BY DEF Init
<1>2. Num(EmptyRegion) = 0 /\ Live(EmptyRegion) = {}
  BY DEF EmptyRegion, Num, NoHeader, Live, Upto
<1>3. Usable = {}
  BY <1>1, <1>2, Views
<1>4. vault = [i \in 1..MaxKeypairs |-> NoKey]
  BY <1>3 DEF vault, Indexes
<1>5. CallInv
  BY <1>1, <1>2, <1>3, NoCallIsNone, FitsType DEF CallInv
<1>6. ("keypair" \in onetime) = FALSE /\ call = Vault!None
  BY <1>1 DEF NoCall, Call, call, Vault!None
<1> QED
  BY <1>1, <1>4, <1>5, <1>6 DEF Vault!Init

LEMMA VaultInvNext ==
    ASSUME OneFailureAtMost
    PROVE  VaultInv /\ [Next]_vars => VaultInv'
<1> SUFFICES ASSUME VaultInv, [Next]_vars PROVE VaultInv'
  OBVIOUS
<1>1. KeyInv'
  BY TypeNext, ReadNext, MatchNext DEF VaultInv, KeyInv, OneFailureAtMost
<1> QED
  BY <1>1, VaultNext DEF VaultInv

LEMMA VaultInvInit == Init => VaultInv
BY TypeInit, ReadInit, MatchInit, VaultInit DEF VaultInv, KeyInv

(* With one failed write or allocation at most, every call on a persistent *)
(* keypair is atomic, for any number of keypairs and any room in flash: it *)
(* does what the table KeyVault does in one step, or reports an error and  *)
(* every index signs with the key it had.  A onetime create replaces the   *)
(* onetime keypair, or fails with or without the one of before.            *)
THEOREM StoreImplementsVault ==
    ASSUME OneFailedCall
    PROVE  Spec => ImplementsVault
<1>1. Init => VaultInv /\ Vault!Init
  BY VaultInvInit, VaultInit
<1>2. VaultInv /\ [Next]_vars => VaultInv'
  BY VaultInvNext, OneFailedCallReads
<1>3. VaultInv /\ VaultInv' /\ [Next]_vars => [Vault!Next]_(Vault!vaultVars)
  <2> SUFFICES ASSUME VaultInv, VaultInv', [Next]_vars
               PROVE  [Vault!Next]_(Vault!vaultVars)
    OBVIOUS
  <2>1. ~Crash
    BY OneFailedCallReads DEF Crash, Fault
  <2>2. ReadInv /\ KeyInv'
    BY DEF VaultInv, KeyInv
  <2> QED
    BY <2>1, <2>2, VaultNext, VaultStep, OneFailedCallReads DEF Vault!Next
<1> QED
  BY <1>1, <1>2, <1>3, PTL DEF Spec, ImplementsVault, Vault!Spec

(* A power loss shows the count of the moment: the last record of a list   *)
(* that a delete is about to move is out of reach.                         *)
LEMMA CrashLoses ==
    ASSUME VaultInv, Crash
    PROVE  \A s, t \in Usable \ Usable' :
               s.index # loc.index /\ t.index # loc.index => s = t
<1> USE DEF VaultInv, KeyInv
<1>1. pc' = "idle" /\ UNCHANGED <<kp, pk>>
  BY DEF Crash
<1>2. Usable' = Live(kp) \cap Live(pk)
  BY <1>1, ViewsNext
<1>3. \A r, n : Num(r) = n - 1 /\ n \in Nat => Upto(r, n) \subseteq Live(r) \cup {r.slot[n]}
  BY DEF Upto, Live
<1>4. CASE pc \in {"delData", "delUndo"}
  <2>1. Upto(kp, loc.n) \subseteq Live(kp) \cup {kp.slot[loc.n]}
    BY <1>3, <1>4, FitsInv DEF ReadInv
  <2> QED
    BY <1>2, <1>4, <2>1, Views
<1>5. CASE pc \in {"dpkCheck", "dpkNum", "restoreRec", "restoreNum"}
  <2>1. loc.rec.index = loc.index
    BY <1>5 DEF ReadInv, MatchInv, RecordsOK
  <2> QED
    BY <1>2, <1>5, <2>1, Views
<1>6. CASE pc \in {"dpkData", "dpkUndo"}
  <2>1. loc.rec.index = loc.index
    BY <1>6 DEF ReadInv
  <2>2. Upto(pk, loc.n) \subseteq Live(pk) \cup {pk.slot[loc.n]}
    BY <1>3, <1>6, FitsInv DEF ReadInv
  <2> QED
    BY <1>2, <1>6, <2>1, <2>2, Views
<1>7. CASE pc \in {"idle", "storeRec", "storeNum", "pkCheck", "pkRec", "pkNum",
                   "delCheck", "delNum"}
  BY <1>2, <1>7, Views
<1> QED
  BY <1>4, <1>5, <1>6, <1>7, FitsInv DEF Steps

(* One failure of any kind but a failed read, a power loss included, costs *)
(* at most one keypair that is not the one of the running call.            *)
THEOREM LossIsBounded ==
    ASSUME OneFailureAtMost
    PROVE  Spec => LosesAtMostOne
<1> DEFINE Bounded == \A s, t \in Usable \ Usable' :
                         s.index # loc.index /\ t.index # loc.index => s = t
<1>1. Init => VaultInv
  BY VaultInvInit
<1>2. VaultInv /\ [Next]_vars => VaultInv'
  BY VaultInvNext
<1>3. VaultInv /\ VaultInv' /\ [Next]_vars => [Bounded]_vars
  <2> SUFFICES ASSUME VaultInv, VaultInv', [Next]_vars PROVE Bounded
    OBVIOUS
  <2>1. KeyInv'
    BY DEF VaultInv
  <2>2. CASE Deleting
    BY <2>2 DEF Deleting, Without
  <2>3. CASE Creating
    BY <2>3 DEF Creating
  <2>4. CASE Crash
    BY <2>4, CrashLoses
  <2>5. CASE Usable' = Usable
    BY <2>5
  <2> QED
    BY <2>1, <2>2, <2>3, <2>4, <2>5, VaultNext DEF Silent, Failing, Starting
<1> QED
  BY <1>1, <1>2, <1>3, PTL DEF Spec, LosesAtMostOne
=============================================================================
