---------------------------- MODULE ProtocolProofs ----------------------------
(***************************************************************************)
(* Proofs about the two components that have a file for every protocol:    *)
(* the network configurations, for any capacity, protocols, configurations *)
(* and failures, and the wallets, for any number of calls and polls.  What *)
(* the ten protocols share is proved once, with their differences (which   *)
(* failure leads to what, which steps in which order) as parameters.       *)
(***************************************************************************)
EXTENDS Networks, Wallets, FiniteSetTheorems, SequenceTheorems, WellFoundedInduction, TLAPS

-----------------------------------------------------------------------------
(* Part 1: the network configurations *)

StoreSteps == {"storeRead", "storeRec", "storeNum"}
DeleteSteps == {"delNum", "delData", "delUndo"}

(* The locals of a call between two writes: a record to append has a place *)
(* and a position found is one of the records counted.  An undo follows a  *)
(* failure, and the RAM region has one record at most.                     *)
LocalsOK ==
    /\ pc = "idle" => loc = NoCall
    /\ pc # "idle" => view = NoView /\ loc.rec.key \in Networks
    /\ pc \in StoreSteps => loc.op = "create" /\ loc.rec.index \in Indexes
    /\ pc \in {"storeRec", "storeNum"} => loc.n < MaxNetworks
    /\ pc \in DeleteSteps => loc.op = "delete" /\ loc.at \in 1..loc.n
    /\ pc = "delUndo" => faults # <<>>
    /\ \A net, other \in ram : net = other

TypeInv == TypeOK /\ LocalsOK

Locals == [op : {"none", "create", "delete"}, rec : Slot, whole : BOOLEAN,
           n : 0..MaxNetworks, at : 0..MaxNetworks, before : SUBSET Slot]

Views == [op : {"list", "index"}, protocol : Protocols,
          num : 0..(MaxNetworks + 1), networks : Seq(Slot)]

-----------------------------------------------------------------------------
(* Lemmas about numbers *)

(* A set of natural numbers that is not empty has a least element.         *)
LEMMA LeastElement ==
    ASSUME NEW S \in SUBSET Nat, S # {}
    PROVE  \E m \in S : \A x \in S : m <= x
<1> DEFINE R == {ss \in Nat \X Nat : ss[1] < ss[2]}
<1>1. R = OpToRel(<, Nat)
  BY DEF OpToRel
<1>2. IsWellFoundedOn(R, Nat)
  BY <1>1, NatLessThanWellFounded
<1> HIDE DEF R
<1>3. PICK m \in S : \A x \in S : <<x, m>> \notin R
  BY <1>2, WFMin
<1>4. ASSUME NEW x \in S, x < m PROVE FALSE
  <2>1. <<x, m>> \in R
    BY <1>4 DEF R
  <2> QED
    BY <1>3, <2>1
<1> QED
  BY <1>4

(* A set that has 0 and with each number the next one has them all.        *)
LEMMA NatInductionSet ==
    ASSUME NEW S, 0 \in S, \A i \in Nat : i \in S => i + 1 \in S
    PROVE  Nat \subseteq S
<1> SUFFICES ASSUME Nat \ S # {} PROVE FALSE
  OBVIOUS
<1>1. PICK x \in Nat \ S : \A y \in Nat \ S : x <= y
  BY LeastElement, Nat \ S \in SUBSET Nat
<1>2. x # 0 /\ x - 1 \in Nat
  BY <1>1
<1>3. x - 1 \in S
  BY <1>1, <1>2
<1> QED
  BY <1>1, <1>2, <1>3, (x - 1) + 1 = x

-----------------------------------------------------------------------------
(* Lemmas about the region *)

LEMMA IndexesAre ==
    /\ MaxNetworks \in Nat /\ MaxNetworks # 0
    /\ Indexes = 1..MaxNetworks
BY NetworkAssumption DEF Indexes

LEMMA NumType ==
    ASSUME NEW r \in Region
    PROVE  /\ Num(r) \in 0..MaxNetworks
           /\ Num(r) \in Nat
BY IndexesAre DEF Num, Region, NoHeader

LEMMA SetNumType ==
    ASSUME NEW r \in Region, NEW n \in 0..MaxNetworks
    PROVE  /\ SetNum(r, n) \in Region
           /\ Num(SetNum(r, n)) = n
           /\ SetNum(r, n).slot = r.slot
BY IndexesAre DEF SetNum, Num, Region, NoHeader

LEMMA PutType ==
    ASSUME NEW r \in Region, NEW p \in Indexes, NEW rec \in Slot
    PROVE  /\ Put(r, p, rec) \in Region
           /\ Num(Put(r, p, rec)) = Num(r)
           /\ Put(r, p, rec).slot[p] = rec
           /\ \A q \in Indexes \ {p} : Put(r, p, rec).slot[q] = r.slot[q]
BY DEF Put, Num, Region

LEMMA SlotType ==
    ASSUME NEW r \in Region, NEW p \in 1..MaxNetworks
    PROVE  /\ r.slot[p] \in Slot
           /\ r.slot[p].index \in 0..MaxNetworks
           /\ r.slot[p].key \in Networks \cup {NoNetwork}
<1>1. p \in Indexes
  BY IndexesAre
<1> QED
  BY <1>1 DEF Region, Slot

LEMMA ErasedType == Erased \in Slot
BY IndexesAre DEF Erased, Slot

LEMMA HollowType ==
    ASSUME NEW rec \in Slot
    PROVE  /\ Hollow(rec) \in Slot
           /\ Hollow(rec).index = rec.index
           /\ Hollow(rec).key = NoNetwork
BY DEF Hollow, Slot

LEMMA LiveType ==
    ASSUME NEW r \in Region
    PROVE  Live(r) \in SUBSET Slot
<1>1. \A p \in 1..Num(r) : p \in 1..MaxNetworks
  BY NumType, IndexesAre
<1> QED
  BY <1>1, SlotType DEF Live, Upto

(* What deleting record p of n leaves: every record before p where it was, *)
(* every record after p one place down.                                    *)
LEMMA DropType ==
    ASSUME NEW r \in Region, NEW n \in 0..MaxNetworks, NEW p \in 1..n
    PROVE  /\ Drop(r, p, n) \in Region
           /\ Num(Drop(r, p, n)) = Num(r)
           /\ \A q \in 1..(n - 1) :
                Drop(r, p, n).slot[q] = IF q < p THEN r.slot[q] ELSE r.slot[q + 1]
<1>1. n \in Nat /\ p \in Indexes /\ \A q \in 1..(n - 1) : q \in Indexes /\ q + 1 \in Indexes
  BY IndexesAre
<1>2. CASE p = n
  BY <1>1, <1>2, PutType, ErasedType DEF Drop
<1>3. CASE p # n
  <2> DEFINE f == [q \in Indexes |->
                    IF q >= p /\ q < n THEN r.slot[q + 1] ELSE r.slot[q]]
  <2>1. Drop(r, p, n) = [r EXCEPT !.slot = f]
    BY <1>3 DEF Drop
  <2>2. f \in [Indexes -> Slot]
    <3> SUFFICES ASSUME NEW q \in Indexes PROVE f[q] \in Slot
      OBVIOUS
    <3>1. q >= p /\ q < n => q + 1 \in Indexes
      BY <1>1, IndexesAre
    <3> QED
      BY <3>1 DEF Region
  <2> HIDE DEF f
  <2>3. [r EXCEPT !.slot = f] \in Region /\ [r EXCEPT !.slot = f].num = r.num
        /\ [r EXCEPT !.slot = f].slot = f
    BY <2>2 DEF Region
  <2>4. \A q \in 1..(n - 1) : f[q] = IF q < p THEN r.slot[q] ELSE r.slot[q + 1]
    BY <1>1 DEF f
  <2> QED
    BY <2>1, <2>3, <2>4 DEF Num
<1> QED
  BY <1>2, <1>3

(* Fewer records than indexes: there is a free index, and FreeIndex is one *)
(* (the pigeonhole principle).                                             *)
LEMMA FreeIndexFree ==
    ASSUME NEW n \in Nat, n < MaxNetworks
    PROVE  /\ FreeIndex(n) \in Indexes
           /\ \A p \in 1..n : flash.slot[p].index # FreeIndex(n)
<1> DEFINE used == {flash.slot[p].index : p \in 1..n}
           S == Indexes \ used
<1>1. S \in SUBSET Nat
  BY IndexesAre
<1>2. S # {}
  <2> SUFFICES ASSUME S = {} PROVE FALSE
    OBVIOUS
  <2> DEFINE g == [i \in Indexes |-> CHOOSE p \in 1..n : flash.slot[p].index = i]
  <2>1. \A i \in Indexes : g[i] \in 1..n /\ flash.slot[g[i]].index = i
    OBVIOUS
  <2>2. g \in [Indexes -> 1..n]
    BY <2>1
  <2>3. /\ IsFiniteSet(Indexes) /\ Cardinality(Indexes) = MaxNetworks
        /\ IsFiniteSet(1..n) /\ Cardinality(1..n) = n
    BY FS_Interval, IndexesAre
  <2> HIDE DEF g
  <2>4. PICK x, y \in Indexes : x # y /\ g[x] = g[y]
    BY <2>2, <2>3, FS_PigeonHole
  <2> QED
    BY <2>1, <2>4
<1>3. PICK m \in S : \A x \in S : m <= x
  BY <1>1, <1>2, LeastElement
<1>4. \A j \in 1..(m - 1) : j \in used
  BY <1>3, IndexesAre
<1>5. FreeIndex(n) \in Indexes /\ FreeIndex(n) \notin used
  BY <1>3, <1>4 DEF FreeIndex
<1> QED
  BY <1>5

(* The position that a scan for an index and a protocol stops at.          *)
LEMMA FoundAt ==
    ASSUME flash \in Region, NEW i, NEW protocol
    PROVE  LET hits == {p \in 1..Num(flash) :
                          flash.slot[p].index = i /\ Owns(protocol, flash.slot[p])}
           IN /\ hits = {} <=> Found(i, protocol) = 0
              /\ hits # {} => Found(i, protocol) \in hits
                              /\ \A q \in hits : Found(i, protocol) <= q
<1> DEFINE hits == {p \in 1..Num(flash) :
                      flash.slot[p].index = i /\ Owns(protocol, flash.slot[p])}
<1>1. hits \in SUBSET Nat /\ 0 \notin hits
  BY NumType
<1>2. hits = {} => Found(i, protocol) = 0
  BY DEF Found
<1>3. ASSUME hits # {}
      PROVE  Found(i, protocol) \in hits /\ \A q \in hits : Found(i, protocol) <= q
  <2>1. PICK m \in hits : \A x \in hits : m <= x
    BY <1>1, <1>3, LeastElement
  <2>2. Found(i, protocol) = CHOOSE p \in hits : \A q \in hits : p <= q
    BY <1>3 DEF Found
  <2> HIDE DEF hits
  <2> QED
    BY <2>1, <2>2
<1> HIDE DEF hits
<1>4. hits = {} <=> Found(i, protocol) = 0
  BY <1>1, <1>2, <1>3
<1> QED
  BY <1>3, <1>4 DEF hits

-----------------------------------------------------------------------------
(* Lemmas about the list of networks *)

(* The recursive function over the records exists.                         *)
LEMMA OwnDefined ==
    ASSUME NEW protocol
    PROVE  \A n \in Nat : \E f : f =
               [i \in 0..n |->
                   IF i = 0 THEN <<>>
                   ELSE IF Owns(protocol, flash.slot[i])
                        THEN Append(f[i - 1], flash.slot[i])
                        ELSE f[i - 1]]
<1> DEFINE Lists(f, n) ==
        f = [i \in 0..n |->
                IF i = 0 THEN <<>>
                ELSE IF Owns(protocol, flash.slot[i])
                     THEN Append(f[i - 1], flash.slot[i])
                     ELSE f[i - 1]]
           S == {n \in Nat : \E f : Lists(f, n)}
<1>1. 0 \in S
  <2>1. Lists([i \in 0..0 |-> <<>>], 0)
    OBVIOUS
  <2> QED
    BY <2>1
<1>2. ASSUME NEW n \in Nat, n \in S PROVE n + 1 \in S
  <2>1. PICK f : Lists(f, n)
    BY <1>2
  <2> DEFINE g == [i \in 0..(n + 1) |->
                      IF i = n + 1
                      THEN IF Owns(protocol, flash.slot[n + 1])
                           THEN Append(f[n], flash.slot[n + 1])
                           ELSE f[n]
                      ELSE f[i]]
  <2>2. \A i \in 0..n : f[i] = IF i = 0 THEN <<>>
                               ELSE IF Owns(protocol, flash.slot[i])
                                    THEN Append(f[i - 1], flash.slot[i])
                                    ELSE f[i - 1]
    BY <2>1
  <2>3. \A i \in 0..(n + 1) : g[i] = IF i = 0 THEN <<>>
                                     ELSE IF Owns(protocol, flash.slot[i])
                                          THEN Append(g[i - 1], flash.slot[i])
                                          ELSE g[i - 1]
    BY <2>2
  <2>4. Lists(g, n + 1)
    BY <2>3
  <2> QED
    <3> HIDE DEF g
    <3> QED
      BY <2>4
<1> QED
  <2> HIDE DEF S
  <2>1. Nat \subseteq S
    BY <1>1, <1>2, NatInductionSet
  <2> QED
    BY <2>1 DEF S

(* What the loop has filled in after n records, from what it had before.   *)
LEMMA OwnDef ==
    ASSUME NEW protocol
    PROVE  \A n \in 0..MaxNetworks : Own(protocol)[n] =
               IF n = 0 THEN <<>>
               ELSE IF Owns(protocol, flash.slot[n])
                    THEN Append(Own(protocol)[n - 1], flash.slot[n])
                    ELSE Own(protocol)[n - 1]
<1> DEFINE Lists(f) ==
        f = [n \in 0..MaxNetworks |->
                IF n = 0 THEN <<>>
                ELSE IF Owns(protocol, flash.slot[n])
                     THEN Append(f[n - 1], flash.slot[n])
                     ELSE f[n - 1]]
<1>1. \E f : Lists(f)
  BY OwnDefined, IndexesAre
<1>2. Own(protocol) = CHOOSE f : Lists(f)
  BY DEF Own
<1>3. Lists(Own(protocol))
  <2> HIDE DEF Lists
  <2> QED
    BY <1>1, <1>2
<1> QED
  BY <1>3

LEMMA OwnType ==
    ASSUME flash \in Region, NEW protocol
    PROVE  \A n \in 0..MaxNetworks : Own(protocol)[n] \in Seq(Slot)
<1> DEFINE S == {n \in Nat : n <= MaxNetworks => Own(protocol)[n] \in Seq(Slot)}
<1>1. 0 \in S
  <2>1. 0 \in 0..MaxNetworks
    BY IndexesAre
  <2>2. Own(protocol)[0] = <<>>
    BY <2>1, OwnDef
  <2> HIDE DEF S
  <2>3. Own(protocol)[0] \in Seq(Slot)
    BY <2>2, EmptySeq
  <2> QED
    BY <2>3 DEF S
<1>2. ASSUME NEW n \in Nat, n \in S PROVE n + 1 \in S
  <2>1. CASE n + 1 <= MaxNetworks
    <3>1. n + 1 \in 0..MaxNetworks /\ n + 1 \in 1..MaxNetworks /\ (n + 1) - 1 = n
          /\ n <= MaxNetworks
      BY <2>1, IndexesAre
    <3>2. Own(protocol)[n] \in Seq(Slot) /\ flash.slot[n + 1] \in Slot
      BY <1>2, <3>1, SlotType
    <3>3. Own(protocol)[n + 1] = IF Owns(protocol, flash.slot[n + 1])
                                 THEN Append(Own(protocol)[n], flash.slot[n + 1])
                                 ELSE Own(protocol)[n]
      <4>1. PICK m \in 1..MaxNetworks : m = n + 1
        BY <3>1
      <4>2. m # 0 /\ m \in 0..MaxNetworks /\ m - 1 = n
        BY <3>1, <4>1, IndexesAre
      <4>3. Own(protocol)[m] = IF m = 0 THEN <<>>
                               ELSE IF Owns(protocol, flash.slot[m])
                                    THEN Append(Own(protocol)[m - 1], flash.slot[m])
                                    ELSE Own(protocol)[m - 1]
        BY <4>2, OwnDef
      <4>4. Own(protocol)[m] = IF Owns(protocol, flash.slot[m])
                               THEN Append(Own(protocol)[n], flash.slot[m])
                               ELSE Own(protocol)[n]
        BY <4>2, <4>3
      <4> QED
        BY <4>1, <4>4
    <3>4. Own(protocol)[n + 1] \in Seq(Slot)
      BY <3>2, <3>3
    <3> QED
      BY <3>4
  <2> QED
    BY <2>1
<1> HIDE DEF S
<1>3. Nat \subseteq S
  BY <1>1, <1>2, NatInductionSet
<1> QED
  BY <1>3, IndexesAre DEF S

LEMMA OnetimeType ==
    ASSUME ram \subseteq Networks \cup {NoNetwork}, NEW protocol
    PROVE  /\ Onetime(protocol) \in Seq(Slot)
           /\ \/ Onetime(protocol) = <<>>
              \/ \E net \in ram : Onetime(protocol) = <<[index |-> 0, key |-> net]>>
<1> DEFINE own == {rec \in {[index |-> 0, key |-> net] : net \in ram} :
                      Owns(protocol, rec)}
<1>1. own \in SUBSET Slot /\ \A rec \in own : \E net \in ram : rec = [index |-> 0, key |-> net]
  BY IndexesAre DEF Slot
<1>2. Onetime(protocol) = IF own = {} THEN <<>> ELSE <<CHOOSE rec \in own : TRUE>>
  BY DEF Onetime
<1> HIDE DEF own
<1>3. CASE own = {}
  BY <1>2, <1>3
<1>4. CASE own # {}
  <2>1. PICK rec \in own : Onetime(protocol) = <<rec>>
    BY <1>2, <1>4
  <2>2. rec \in Slot /\ \E net \in ram : rec = [index |-> 0, key |-> net]
    BY <1>1, <2>1
  <2> QED
    BY <2>1, <2>2
<1> QED
  BY <1>3, <1>4

LEMMA ListedType ==
    ASSUME TypeOK, NEW protocol, NEW n \in 0..MaxNetworks
    PROVE  Listed(n, protocol) \in Seq(Slot)
<1>1. Own(protocol)[n] \in Seq(Slot) /\ Onetime(protocol) \in Seq(Slot)
  BY OwnType, OnetimeType DEF TypeOK
<1> QED
  BY <1>1 DEF Listed

LEMMA LookupType ==
    ASSUME TypeOK, NEW protocol, NEW i
    PROVE  Lookup(i, protocol) \in Seq(Slot)
<1>1. Onetime(protocol) \in Seq(Slot)
  BY OnetimeType DEF TypeOK
<1>2. ASSUME Found(i, protocol) # 0 PROVE flash.slot[Found(i, protocol)] \in Slot
  <2>1. flash \in Region
    BY DEF TypeOK
  <2>2. Found(i, protocol) \in 1..Num(flash)
    BY <1>2, <2>1, FoundAt
  <2>3. Found(i, protocol) \in 1..MaxNetworks
    BY <2>1, <2>2, NumType, IndexesAre
  <2> QED
    BY <2>1, <2>3, SlotType
<1> QED
  BY <1>1, <1>2 DEF Lookup

-----------------------------------------------------------------------------
(* What a step does                                                        *)
(*                                                                         *)
(* The files of the protocols differ in which failure ends a call and how. *)
(* To the region that does not matter: a step is one of the eleven below,  *)
(* whichever protocol takes it.                                            *)

Packings == SUBSET {<<"alloc", "fails">>, <<"length", "fails">>,
                    <<"length", "hollow">>, <<"alloc", "dies">>}

Readings == SUBSET {<<"read", "fails">>, <<"alloc", "fails">>, <<"alloc", "dies">>}

Calls(protocol, packing, reading) ==
    \/ \E c \in Configs : TakeIndex(protocol, c) \/ CreateOnetime(protocol, c, packing)
    \/ \E i \in 0..MaxNetworks :
            Delete(i, protocol) \/ GetNetworkByIndex(i, protocol, reading)
    \/ Store(protocol, packing) \/ Remove(protocol)
    \/ GetNetworkList(protocol, reading) \/ Free(protocol)

Aside == UNCHANGED <<ram, view>>

(* No call is running after the step and the region is what it was.        *)
Rests ==
    /\ pc' = "idle" /\ loc' = NoCall /\ ok' \in BOOLEAN /\ UNCHANGED flash
    /\ ram' = ram \/ ram' = {} \/ \E net \in Networks \cup {NoNetwork} : ram' = {net}
    /\ UNCHANGED faults \/ \E kind : Fault(kind)
    /\ \/ view' = NoView
       \/ view'.op = "index" /\ view' \in Views
       \/ \E protocol \in Protocols, n \in 0..MaxNetworks :
            /\ CountRead(n)
            /\ See("list", protocol, n + Cardinality(ram), Listed(n, protocol))
            /\ UNCHANGED ram
    /\ pc # "idle" => ok' = FALSE \/ Fault("alloc") \/ Fault("crash")
    /\ pc = "delData" => Fault("read") \/ Fault("alloc") \/ Fault("crash")
    /\ pc = "delUndo" => \E kind : Fault(kind)

TakesIndex ==
    /\ Idle /\ pc' = "storeRead" /\ UNCHANGED <<flash, ok>> /\ Aside
    /\ \E n \in 0..(MaxNetworks - 1), net \in Networks :
            /\ CountRead(n)
            /\ loc' = Call("create", [index |-> FreeIndex(n), key |-> net])

Counts ==
    /\ pc = "storeRead" /\ pc' = "storeRec" /\ UNCHANGED <<flash, ok>> /\ Aside
    /\ \/ \E n \in 0..(MaxNetworks - 1) : CountRead(n) /\ loc' = [loc EXCEPT !.n = n]
       \/ /\ Num(flash) < MaxNetworks /\ Fault("length")
          /\ loc' = [loc EXCEPT !.n = Num(flash), !.whole = FALSE]

Writes ==
    /\ pc = "storeRec" /\ pc' = "storeNum" /\ UNCHANGED <<loc, ok, faults>> /\ Aside
    /\ flash' = Put(flash, loc.n + 1, IF loc.whole THEN loc.rec ELSE Hollow(loc.rec))

Tears ==
    /\ pc = "storeRec" /\ Return(FALSE) /\ Fault("write") /\ Aside
    /\ \E torn \in {flash.slot[loc.n + 1], Hollow(loc.rec)} :
            flash' = Put(flash, loc.n + 1, torn)

CountsNew ==
    /\ pc = "storeNum" /\ Return(TRUE) /\ UNCHANGED faults /\ Aside
    /\ flash' = SetNum(flash, loc.n + 1)

Finds ==
    /\ Idle /\ pc' = "delNum" /\ UNCHANGED <<flash, ok, faults>> /\ Aside
    /\ \E i \in 1..MaxNetworks, protocol \in Protocols :
            /\ Found(i, protocol) # 0
            /\ loc' = [Call("delete", [index |-> i,
                                       key |-> flash.slot[Found(i, protocol)].key])
                         EXCEPT !.n = Num(flash), !.at = Found(i, protocol)]

TakesDown ==
    /\ pc = "delNum" /\ pc' = "delData" /\ UNCHANGED <<loc, ok, faults>> /\ Aside
    /\ flash' = SetNum(flash, loc.n - 1)

Drops ==
    /\ pc = "delData" /\ Return(TRUE) /\ UNCHANGED faults /\ Aside
    /\ flash' = Drop(flash, loc.at, loc.n)

TurnsBack ==
    /\ pc = "delData" /\ pc' = "delUndo" /\ Fault("write")
    /\ UNCHANGED <<flash, loc, ok>> /\ Aside

Recovers ==
    /\ pc = "delUndo" /\ Return(loc.at = loc.n) /\ UNCHANGED faults /\ Aside
    /\ Recover

Effect ==
    \/ Rests \/ TakesIndex \/ Counts \/ Writes \/ Tears \/ CountsNew
    \/ Finds \/ TakesDown \/ Drops \/ TurnsBack \/ Recovers

LEMMA EffectTakeIndex ==
    ASSUME TypeInv, NEW protocol, NEW c \in Configs, TakeIndex(protocol, c)
    PROVE  Effect
<1>1. Idle /\ protocol \in Protocols /\ UNCHANGED <<store, view>>
  BY DEF TakeIndex
<1>2. pc = "idle" /\ view = NoView /\ loc = NoCall /\ ok \in BOOLEAN
  BY <1>1 DEF Idle, TypeInv, LocalsOK, TypeOK
<1>3. CASE Num(flash) > 0 /\ Fault("read") /\ Return(FALSE)
  BY <1>1, <1>2, <1>3 DEF Return, Rests, Effect, store
<1>4. CASE \E n \in 0..MaxNetworks :
            /\ CountRead(n)
            /\ IF n = MaxNetworks THEN ok' = FALSE /\ UNCHANGED <<pc, loc>>
               ELSE GoTo("storeRead",
                         Call("create",
                              [index |-> FreeIndex(n),
                               key |-> [protocol |-> protocol, config |-> c]]))
  <2>1. PICK n \in 0..MaxNetworks :
            /\ CountRead(n)
            /\ IF n = MaxNetworks THEN ok' = FALSE /\ UNCHANGED <<pc, loc>>
               ELSE GoTo("storeRead",
                         Call("create",
                              [index |-> FreeIndex(n),
                               key |-> [protocol |-> protocol, config |-> c]]))
    BY <1>4
  <2>2. CASE n = MaxNetworks
    <3>1. UNCHANGED faults \/ \E kind : Fault(kind)
      BY <2>1 DEF CountRead
    <3> QED
      BY <1>1, <1>2, <2>1, <2>2, <3>1 DEF Rests, Effect, store
  <2>3. CASE n # MaxNetworks
    <3> DEFINE net == [protocol |-> protocol, config |-> c]
    <3>1. n \in 0..(MaxNetworks - 1) /\ net \in Networks
      BY <1>1, <2>3, IndexesAre DEF Networks
    <3> HIDE DEF net
    <3>2. GoTo("storeRead", Call("create", [index |-> FreeIndex(n), key |-> net]))
      BY <2>1, <2>3 DEF net
    <3>3. TakesIndex
      BY <1>1, <2>1, <3>1, <3>2 DEF GoTo, TakesIndex, Aside, store
    <3> QED
      BY <3>3 DEF Effect
  <2> QED
    BY <2>2, <2>3
<1> QED
  BY <1>1, <1>3, <1>4 DEF TakeIndex

LEMMA PackingCases ==
    ASSUME NEW packing \in Packings, NEW f \in packing
    PROVE  \/ f[1] \in {"alloc", "length"} /\ f[2] = "fails"
           \/ f[1] = "length" /\ f[2] = "hollow"
           \/ f[1] = "alloc" /\ f[2] = "dies"
<1>1. f \in {<<"alloc", "fails">>, <<"length", "fails">>,
             <<"length", "hollow">>, <<"alloc", "dies">>}
  BY DEF Packings
<1> QED
  BY <1>1

LEMMA ReadingCases ==
    ASSUME NEW reading \in Readings, NEW f \in reading
    PROVE  \/ f[1] \in {"read", "alloc"} /\ f[2] = "fails"
           \/ f[1] = "alloc" /\ f[2] = "dies"
<1>1. f \in {<<"read", "fails">>, <<"alloc", "fails">>, <<"alloc", "dies">>}
  BY DEF Readings
<1> QED
  BY <1>1

LEMMA EffectReadCount ==
    ASSUME TypeInv, NEW protocol, NEW packing \in Packings,
           ReadCount(protocol, packing)
    PROVE  Effect
<1>1. pc = "storeRead" /\ view = NoView
  BY DEF ReadCount, Running, TypeInv, LocalsOK
<1>2. CASE \E n \in 0..(MaxNetworks - 1) :
            /\ CountRead(n) /\ GoTo("storeRec", [loc EXCEPT !.n = n])
            /\ UNCHANGED <<store, view>>
  BY <1>1, <1>2 DEF GoTo, Counts, Effect, Aside, store
<1>3. CASE /\ \/ Num(flash) = MaxNetworks /\ UNCHANGED faults
              \/ Num(flash) > 0 /\ Fault("read")
           /\ Fails
  BY <1>1, <1>3 DEF Fails, Rests, Effect, store
<1>4. ASSUME NEW f \in packing, Num(flash) < MaxNetworks, Fault(f[1]),
             CASE f[2] = "fails" -> Fails
               [] f[2] = "dies" -> Die
               [] f[2] = "hollow" ->
                    /\ GoTo("storeRec",
                            [loc EXCEPT !.n = Num(flash), !.whole = FALSE])
                    /\ UNCHANGED <<store, view>>
      PROVE  Effect
  <2>1. CASE f[1] \in {"alloc", "length"} /\ f[2] = "fails"
    BY <1>1, <1>4, <2>1 DEF Fails, Rests, Effect, store
  <2>2. CASE f[1] = "length" /\ f[2] = "hollow"
    BY <1>1, <1>4, <2>2 DEF GoTo, Counts, Effect, Aside, store
  <2>3. CASE f[1] = "alloc" /\ f[2] = "dies"
    BY <1>1, <1>4, <2>3 DEF Die, Rests, Effect
  <2> QED
    BY <2>1, <2>2, <2>3, PackingCases
<1> QED
  BY <1>2, <1>3, <1>4 DEF ReadCount

LEMMA EffectStore ==
    ASSUME TypeInv, NEW protocol, NEW packing \in Packings, Store(protocol, packing)
    PROVE  Effect
<1>1. CASE ReadCount(protocol, packing)
  BY <1>1, EffectReadCount
<1>2. CASE StoreRecord(protocol)
  <2>1. pc = "storeRec" /\ Aside
    BY <1>2 DEF StoreRecord, Running, Aside
  <2> QED
    BY <1>2, <2>1 DEF StoreRecord, GoTo, Writes, Tears, Effect
<1>3. CASE StoreNum(protocol)
  <2>1. pc = "storeNum" /\ Aside /\ view = NoView
    BY <1>3 DEF StoreNum, Running, Aside, TypeInv, LocalsOK
  <2> QED
    BY <1>3, <2>1 DEF StoreNum, Return, CountsNew, Rests, Aside, Effect
<1> QED
  BY <1>1, <1>2, <1>3 DEF Store

LEMMA EffectDeleteFlash ==
    ASSUME TypeInv, NEW protocol, NEW i \in 0..MaxNetworks, i # 0,
           DeleteFlash(i, protocol)
    PROVE  Effect
<1> DEFINE at == Found(i, protocol)
<1>1. Idle /\ protocol \in Protocols /\ UNCHANGED <<store, view>> /\ i \in 1..MaxNetworks
  BY IndexesAre DEF DeleteFlash
<1>2. CASE /\ at # 0
           /\ GoTo("delNum",
                   [Call("delete", [index |-> i, key |-> flash.slot[at].key])
                      EXCEPT !.n = Num(flash), !.at = at])
           /\ UNCHANGED faults
  BY <1>1, <1>2 DEF GoTo, Finds, Effect, Aside, store
<1>3. CASE ((at = 0 /\ UNCHANGED faults) \/ Fault("read")) /\ Return(FALSE)
  BY <1>1, <1>3 DEF Return, Rests, Effect, Idle, store
<1> QED
  BY <1>2, <1>3 DEF DeleteFlash

LEMMA EffectRemove ==
    ASSUME TypeInv, NEW protocol, Remove(protocol)
    PROVE  Effect
<1>1. CASE DeleteNum(protocol)
  <2>1. pc = "delNum" /\ Aside /\ view = NoView
    BY <1>1 DEF DeleteNum, Running, Aside, TypeInv, LocalsOK
  <2> QED
    BY <1>1, <2>1 DEF DeleteNum, GoTo, Return, TakesDown, Rests, Aside, Effect
<1>2. CASE DeleteData(protocol)
  <2>1. pc = "delData" /\ Aside /\ view = NoView
    BY <1>2 DEF DeleteData, Running, Aside, TypeInv, LocalsOK
  <2> QED
    BY <1>2, <2>1 DEF DeleteData, GoTo, Return, Drops, TurnsBack, Rests, Aside, Effect
<1>3. CASE DeleteUndo(protocol)
  <2>1. pc = "delUndo" /\ Aside /\ view = NoView
    BY <1>3 DEF DeleteUndo, Running, Aside, TypeInv, LocalsOK
  <2> QED
    BY <1>3, <2>1 DEF DeleteUndo, Return, Recovers, Rests, Aside, Effect
<1> QED
  BY <1>1, <1>2, <1>3 DEF Remove

LEMMA EffectCreateOnetime ==
    ASSUME TypeInv, NEW protocol, NEW packing \in Packings, NEW c \in Configs,
           CreateOnetime(protocol, c, packing)
    PROVE  Effect
<1>1. Idle /\ protocol \in Protocols
  BY DEF CreateOnetime
<1>2. pc = "idle" /\ view = NoView /\ loc = NoCall
  BY <1>1 DEF Idle, TypeInv, LocalsOK
<1>3. CASE /\ ram' = {[protocol |-> protocol, config |-> c]}
           /\ ok' = TRUE
           /\ UNCHANGED <<flash, view, pc, loc, faults>>
  <2>1. [protocol |-> protocol, config |-> c] \in Networks
    BY <1>1 DEF Networks
  <2> QED
    BY <1>2, <1>3, <2>1 DEF Rests, Effect
<1>4. ASSUME NEW f \in packing, Fault(f[1]),
             CASE f[2] = "fails" -> Fails
               [] f[2] = "dies" -> Die
               [] f[2] = "hollow" -> /\ ram' = {NoNetwork} /\ ok' = TRUE
                                     /\ UNCHANGED <<flash, view, pc, loc>>
      PROVE  Effect
  <2>1. CASE f[1] \in {"alloc", "length"} /\ f[2] = "fails"
    BY <1>2, <1>4, <2>1 DEF Fails, Rests, Effect, store
  <2>2. CASE f[1] = "length" /\ f[2] = "hollow"
    BY <1>2, <1>4, <2>2 DEF Rests, Effect
  <2>3. CASE f[1] = "alloc" /\ f[2] = "dies"
    BY <1>2, <1>4, <2>3 DEF Die, Rests, Effect
  <2> QED
    BY <2>1, <2>2, <2>3, PackingCases
<1> QED
  BY <1>3, <1>4 DEF CreateOnetime

LEMMA EffectReadFails ==
    ASSUME pc = "idle", view = NoView, NEW reading \in Readings, ReadFails(reading)
    PROVE  Rests
<1>1. PICK f \in reading :
        Fault(f[1]) /\ CASE f[2] = "fails" -> Fails [] f[2] = "dies" -> Die
  BY DEF ReadFails
<1>2. CASE f[1] \in {"read", "alloc"} /\ f[2] = "fails"
  BY <1>1, <1>2 DEF Fails, Rests, store
<1>3. CASE f[1] = "alloc" /\ f[2] = "dies"
  BY <1>1, <1>3 DEF Die, Rests
<1> QED
  BY <1>2, <1>3, ReadingCases

LEMMA EffectByIndex ==
    ASSUME TypeInv, NEW protocol, NEW reading \in Readings, NEW i \in 0..MaxNetworks,
           GetNetworkByIndex(i, protocol, reading)
    PROVE  Effect
<1> DEFINE hit == Lookup(i, protocol)
<1>1. Idle /\ protocol \in Protocols
  BY DEF GetNetworkByIndex
<1>2. pc = "idle" /\ view = NoView /\ loc = NoCall
  BY <1>1 DEF Idle, TypeInv, LocalsOK
<1>3. hit \in Seq(Slot)
  BY LookupType DEF TypeInv
<1> HIDE DEF hit
<1>4. CASE /\ IF hit = <<>> THEN UNCHANGED view ELSE See("index", protocol, 1, hit)
           /\ ok' = (hit # <<>>)
           /\ UNCHANGED <<store, pc, loc, faults>>
  <2>1. view' = NoView \/ (view'.op = "index" /\ view' \in Views)
    <3>1. CASE hit = <<>>
      <4>1. UNCHANGED view
        BY <1>4, <3>1
      <4> QED
        BY <1>2, <4>1
    <3>2. CASE hit # <<>>
      <4>1. view' = [op |-> "index", protocol |-> protocol, num |-> 1, networks |-> hit]
        BY <1>4, <3>2 DEF See
      <4>2. 1 \in 0..(MaxNetworks + 1)
        BY IndexesAre
      <4> QED
        BY <1>1, <1>3, <4>1, <4>2 DEF Views
    <3> QED
      BY <3>1, <3>2
  <2> QED
    BY <1>2, <1>4, <2>1 DEF Rests, Effect, store
<1>5. CASE ReadFails(reading)
  BY <1>2, <1>5, EffectReadFails DEF Effect
<1> QED
  BY <1>4, <1>5 DEF GetNetworkByIndex, hit

LEMMA EffectList ==
    ASSUME TypeInv, NEW protocol, NEW reading \in Readings,
           GetNetworkList(protocol, reading)
    PROVE  Effect
<1>1. Idle /\ protocol \in Protocols
  BY DEF GetNetworkList
<1>2. pc = "idle" /\ view = NoView /\ loc = NoCall
  BY <1>1 DEF Idle, TypeInv, LocalsOK
<1>3. ASSUME NEW n \in 0..MaxNetworks,
             CountRead(n), See("list", protocol, n + Cardinality(ram), Listed(n, protocol)),
             ok' = TRUE, UNCHANGED <<store, pc, loc>>
      PROVE  Effect
  <2>1. UNCHANGED faults \/ \E kind : Fault(kind)
    BY <1>3 DEF CountRead
  <2> QED
    BY <1>1, <1>2, <1>3, <2>1 DEF Rests, Effect, store
<1>4. CASE ReadFails(reading)
  BY <1>2, <1>4, EffectReadFails DEF Effect
<1> QED
  BY <1>3, <1>4 DEF GetNetworkList

LEMMA EffectOther ==
    ASSUME TypeInv, NEW protocol, DeleteOnetime \/ Free(protocol) \/ Crash
    PROVE  Effect
<1>1. CASE DeleteOnetime
  BY <1>1 DEF DeleteOnetime, Idle, TypeInv, LocalsOK, Rests, Effect
<1>2. CASE Free(protocol)
  <2>1. pc = "idle" /\ loc = NoCall
    BY <1>2 DEF Free, TypeInv, LocalsOK
  <2> QED
    BY <1>2, <2>1 DEF Free, Rests, Effect, store
<1>3. CASE Crash
  BY <1>3 DEF Crash, Die, Rests, Effect
<1> QED
  BY <1>1, <1>2, <1>3

LEMMA EffectCalls ==
    ASSUME TypeInv, NEW protocol, NEW packing \in Packings, NEW reading \in Readings,
           Calls(protocol, packing, reading)
    PROVE  Effect
<1>1. CASE \E c \in Configs : TakeIndex(protocol, c) \/ CreateOnetime(protocol, c, packing)
  BY <1>1, EffectTakeIndex, EffectCreateOnetime
<1>2. CASE \E i \in 0..MaxNetworks :
              Delete(i, protocol) \/ GetNetworkByIndex(i, protocol, reading)
  BY <1>2, EffectDeleteFlash, EffectOther, EffectByIndex DEF Delete
<1>3. CASE Store(protocol, packing) \/ Remove(protocol)
  BY <1>3, EffectStore, EffectRemove
<1>4. CASE GetNetworkList(protocol, reading) \/ Free(protocol)
  BY <1>4, EffectList, EffectOther
<1> QED
  BY <1>1, <1>2, <1>3, <1>4 DEF Calls

(* What the three kinds of files make of a failure.                        *)
LEMMA KindsOfFiles ==
    /\ {FlatPack, MessagePack, NestedPack} \subseteq Packings
    /\ {FlatRead, MessageRead, NestedRead} \subseteq Readings
<1>1. FlatPack \in Packings /\ MessagePack \in Packings /\ NestedPack \in Packings
  BY DEF FlatPack, MessagePack, NestedPack, Packings
<1>2. FlatRead \in Readings /\ MessageRead \in Readings /\ NestedRead \in Readings
  BY DEF FlatRead, MessageRead, NestedRead, Readings
<1> QED
  BY <1>1, <1>2

(* Every step of a protocol is a call of that protocol's file.             *)
LEMMA EffectNext == TypeInv /\ Next => Effect
<1> SUFFICES ASSUME TypeInv, Next PROVE Effect
  OBVIOUS
<1>1. CASE EthereumNext
  <2>1. Calls(ETHEREUM, FlatPack, FlatRead)
    BY <1>1 DEF EthereumNext, EthereumCreate, EthereumIndex, EthereumPack, EthereumRead,
        EthereumStore, EthereumDelete, EthereumRemove, EthereumByIndex, EthereumList,
        EthereumFree, Calls
  <2> QED
    BY <2>1, EffectCalls, KindsOfFiles
<1>2. CASE PlatonNext
  <2>1. Calls(PLATON, FlatPack, FlatRead)
    BY <1>2 DEF PlatonNext, PlatonCreate, PlatonIndex, PlatonPack, PlatonRead,
        PlatonStore, PlatonDelete, PlatonRemove, PlatonByIndex, PlatonList,
        PlatonFree, Calls
  <2> QED
    BY <2>1, EffectCalls, KindsOfFiles
<1>3. CASE PlatoneNext
  <2>1. Calls(PLATONE, FlatPack, FlatRead)
    BY <1>3 DEF PlatoneNext, PlatoneCreate, PlatoneIndex, PlatonePack, PlatoneRead,
        PlatoneStore, PlatoneDelete, PlatoneRemove, PlatoneByIndex, PlatoneList,
        PlatoneFree, Calls
  <2> QED
    BY <2>1, EffectCalls, KindsOfFiles
<1>4. CASE QuorumNext
  <2>1. Calls(QUORUM, FlatPack, FlatRead)
    BY <1>4 DEF QuorumNext, QuorumCreate, QuorumIndex, QuorumPack, QuorumRead,
        QuorumStore, QuorumDelete, QuorumRemove, QuorumByIndex, QuorumList,
        QuorumFree, Calls
  <2> QED
    BY <2>1, EffectCalls, KindsOfFiles
<1>5. CASE VenachainNext
  <2>1. Calls(VENACHAIN, FlatPack, FlatRead)
    BY <1>5 DEF VenachainNext, VenachainCreate, VenachainIndex, VenachainPack, VenachainRead,
        VenachainStore, VenachainDelete, VenachainRemove, VenachainByIndex, VenachainList,
        VenachainFree, Calls
  <2> QED
    BY <2>1, EffectCalls, KindsOfFiles
<1>6. CASE FiscobcosNext
  <2>1. Calls(FISCOBCOS, FlatPack, FlatRead)
    BY <1>6 DEF FiscobcosNext, FiscobcosCreate, FiscobcosIndex, FiscobcosPack, FiscobcosRead,
        FiscobcosStore, FiscobcosDelete, FiscobcosRemove, FiscobcosByIndex, FiscobcosList,
        FiscobcosFree, Calls
  <2> QED
    BY <2>1, EffectCalls, KindsOfFiles
<1>7. CASE CitaNext
  <2>1. Calls(CITA, MessagePack, MessageRead)
    BY <1>7 DEF CitaNext, CitaCreate, CitaIndex, CitaPack, CitaRead,
        CitaStore, CitaDelete, CitaRemove, CitaByIndex, CitaList,
        CitaFree, Calls
  <2> QED
    BY <2>1, EffectCalls, KindsOfFiles
<1>8. CASE ChainmakerNext
  <2>1. Calls(CHAINMAKER, MessagePack, NestedRead)
    BY <1>8 DEF ChainmakerNext, ChainmakerCreate, ChainmakerIndex, ChainmakerPack, ChainmakerRead,
        ChainmakerStore, ChainmakerDelete, ChainmakerRemove, ChainmakerByIndex, ChainmakerList,
        ChainmakerFree, Calls
  <2> QED
    BY <2>1, EffectCalls, KindsOfFiles
<1>9. CASE HlfabricNext
  <2>1. Calls(HLFABRIC, NestedPack, NestedRead)
    BY <1>9 DEF HlfabricNext, HlfabricCreate, HlfabricIndex, HlfabricPack, HlfabricRead,
        HlfabricStore, HlfabricDelete, HlfabricRemove, HlfabricByIndex, HlfabricList,
        HlfabricFree, Calls
  <2> QED
    BY <2>1, EffectCalls, KindsOfFiles
<1>10. CASE HwbcsNext
  <2>1. Calls(HWBCS, NestedPack, NestedRead)
    BY <1>10 DEF HwbcsNext, HwbcsCreate, HwbcsIndex, HwbcsPack, HwbcsRead,
        HwbcsStore, HwbcsDelete, HwbcsRemove, HwbcsByIndex, HwbcsList,
        HwbcsFree, Calls
  <2> QED
    BY <2>1, EffectCalls, KindsOfFiles
<1>11. CASE Crash
  BY <1>11, EffectOther
<1> QED
  BY <1>1, <1>2, <1>3, <1>4, <1>5, <1>6, <1>7, <1>8, <1>9, <1>10, <1>11 DEF Next

-----------------------------------------------------------------------------
(* Type correctness *)

LEMMA NoCallType == NoCall \in Locals
BY ErasedType, IndexesAre DEF NoCall, Locals

LEMMA CallType ==
    ASSUME flash \in Region, NEW op \in {"create", "delete"}, NEW rec \in Slot
    PROVE  /\ Call(op, rec) \in Locals
           /\ Call(op, rec).op = op /\ Call(op, rec).rec = rec
           /\ Call(op, rec).whole = TRUE /\ Call(op, rec).before = Live(flash)
BY LiveType, NoCallType DEF Call, NoCall, Locals

(* The count a call has read and what it takes for granted are its locals. *)
LEMMA CountedType ==
    ASSUME NEW l \in Locals, NEW n \in 0..MaxNetworks
    PROVE  /\ [l EXCEPT !.n = n] \in Locals
           /\ [l EXCEPT !.n = n].n = n /\ [l EXCEPT !.n = n].op = l.op
           /\ [l EXCEPT !.n = n].rec = l.rec /\ [l EXCEPT !.n = n].whole = l.whole
           /\ [l EXCEPT !.n = n].before = l.before
           /\ [l EXCEPT !.n = n, !.whole = FALSE] \in Locals
           /\ [l EXCEPT !.n = n, !.whole = FALSE].n = n
           /\ [l EXCEPT !.n = n, !.whole = FALSE].op = l.op
           /\ [l EXCEPT !.n = n, !.whole = FALSE].rec = l.rec
           /\ [l EXCEPT !.n = n, !.whole = FALSE].before = l.before
BY DEF Locals

FaultsTyped(f) == f \in Seq(FaultKinds) /\ Len(f) <= MaxFaults

LEMMA FaultType ==
    ASSUME FaultsTyped(faults), NEW kind, Fault(kind)
    PROVE  FaultsTyped(faults') /\ faults' # <<>>
<1>1. faults' = Append(faults, kind) /\ kind \in FaultKinds /\ Len(faults) < MaxFaults
  BY DEF Fault
<1>2. MaxFaults \in Nat
  BY NetworkAssumption
<1> QED
  BY <1>1, <1>2 DEF FaultsTyped

LEMMA CountReadType ==
    ASSUME FaultsTyped(faults), NEW n, CountRead(n)
    PROVE  FaultsTyped(faults')
BY FaultType DEF CountRead, FaultsTyped

(* The parts of the type invariant, one variable at a time.                *)
LEMMA TypeInvIs ==
    TypeInv <=>
        /\ flash \in Region
        /\ ram \subseteq Networks \cup {NoNetwork}
        /\ view = NoView \/ view \in Views
        /\ pc \in Steps
        /\ loc \in Locals
        /\ ok \in BOOLEAN
        /\ FaultsTyped(faults)
        /\ LocalsOK
BY DEF TypeInv, TypeOK, Views, Locals, FaultsTyped

LEMMA TypeRests == ASSUME TypeInv, Rests PROVE TypeInv'
<1>1. FaultsTyped(faults')
  BY TypeInvIs, FaultType DEF Rests
<1>2. /\ ram' \subseteq Networks \cup {NoNetwork}
      /\ \A net, other \in ram' : net = other
  BY TypeInvIs DEF Rests, LocalsOK
<1>3. view' = NoView \/ view' \in Views
  <2>1. ASSUME NEW protocol \in Protocols, NEW n \in 0..MaxNetworks,
               See("list", protocol, n + Cardinality(ram), Listed(n, protocol))
        PROVE  view' \in Views
    <3>1. Cardinality(ram) \in 0..1
      <4>1. CASE ram = {}
        BY <4>1, FS_EmptySet
      <4>2. CASE ram # {}
        <5>1. PICK net \in ram : TRUE
          BY <4>2
        <5>2. ram = {net}
          BY <5>1, TypeInvIs DEF LocalsOK
        <5>3. Cardinality({net}) = 1
          BY FS_Singleton
        <5> QED
          BY <5>2, <5>3
      <4> QED
        BY <4>1, <4>2
    <3>2. n + Cardinality(ram) \in 0..(MaxNetworks + 1)
      BY <3>1, IndexesAre
    <3>3. Listed(n, protocol) \in Seq(Slot)
      BY ListedType DEF TypeInv
    <3>4. view' = [op |-> "list", protocol |-> protocol, num |-> n + Cardinality(ram),
                   networks |-> Listed(n, protocol)]
      BY <2>1 DEF See
    <3> QED
      BY <3>2, <3>3, <3>4 DEF Views
  <2> QED
    BY <2>1 DEF Rests
<1>4. pc' = "idle" /\ loc' = NoCall /\ ok' \in BOOLEAN /\ flash' = flash
  BY DEF Rests
<1>5. LocalsOK'
  BY <1>2, <1>4 DEF LocalsOK, StoreSteps, DeleteSteps
<1> QED
  BY <1>1, <1>2, <1>3, <1>4, <1>5, TypeInvIs, NoCallType DEF TypeInv, TypeOK,
     Views, Locals, FaultsTyped, Steps

LEMMA TypeReturn ==
    ASSUME TypeInv, NEW success \in BOOLEAN, Return(success), Aside,
           flash' \in Region, FaultsTyped(faults')
    PROVE  TypeInv'
<1>1. pc' = "idle" /\ loc' = NoCall /\ ok' = success
  BY DEF Return
<1>2. LocalsOK'
  BY <1>1, TypeInvIs DEF LocalsOK, StoreSteps, DeleteSteps, Aside
<1> QED
  BY <1>1, <1>2, TypeInvIs, NoCallType DEF TypeInv, TypeOK, Views, Locals,
     FaultsTyped, Steps, Aside

(* A call that goes on.                                                    *)
LEMMA TypeGoesOn ==
    ASSUME TypeInv, view = NoView, Aside, UNCHANGED ok, pc' \in Steps \ {"idle"},
           loc' \in Locals, loc'.rec.key \in Networks, flash' \in Region,
           FaultsTyped(faults'),
           pc' \in StoreSteps => loc'.op = "create" /\ loc'.rec.index \in Indexes,
           pc' \in {"storeRec", "storeNum"} => loc'.n < MaxNetworks,
           pc' \in DeleteSteps => loc'.op = "delete" /\ loc'.at \in 1..loc'.n,
           pc' = "delUndo" => faults' # <<>>
    PROVE  TypeInv'
<1>1. LocalsOK'
  BY TypeInvIs DEF LocalsOK, Aside
<1> QED
  BY <1>1, TypeInvIs DEF TypeInv, TypeOK, Views, Locals, FaultsTyped, Aside

LEMMA TypeTakesIndex == ASSUME TypeInv, TakesIndex PROVE TypeInv'
<1>1. PICK n \in 0..(MaxNetworks - 1), net \in Networks :
            /\ CountRead(n)
            /\ loc' = Call("create", [index |-> FreeIndex(n), key |-> net])
  BY DEF TakesIndex
<1> DEFINE rec == [index |-> FreeIndex(n), key |-> net]
<1>2. n \in Nat /\ n < MaxNetworks
  BY IndexesAre
<1>3. FreeIndex(n) \in Indexes
  BY <1>2, FreeIndexFree
<1>4. rec \in Slot /\ rec.index \in Indexes /\ rec.key \in Networks
  BY <1>3, IndexesAre DEF Slot
<1> HIDE DEF rec
<1>5. loc' \in Locals /\ loc'.op = "create" /\ loc'.rec = rec
  BY <1>1, <1>4, CallType, TypeInvIs DEF rec
<1>6. FaultsTyped(faults')
  BY <1>1, CountReadType, TypeInvIs
<1>7. view = NoView /\ Aside /\ UNCHANGED <<flash, ok>> /\ pc' = "storeRead"
  BY DEF TakesIndex, Idle
<1> QED
  BY <1>4, <1>5, <1>6, <1>7, TypeInvIs, TypeGoesOn DEF Steps, StoreSteps, DeleteSteps

LEMMA TypeCounts == ASSUME TypeInv, Counts PROVE TypeInv'
<1>1. /\ view = NoView /\ Aside /\ UNCHANGED <<flash, ok>> /\ pc' = "storeRec"
      /\ loc.op = "create" /\ loc.rec.index \in Indexes /\ loc.rec.key \in Networks
      /\ loc \in Locals
  BY TypeInvIs DEF Counts, LocalsOK, StoreSteps
<1>2. /\ loc' \in Locals /\ loc'.op = loc.op /\ loc'.rec = loc.rec
      /\ loc'.n < MaxNetworks /\ FaultsTyped(faults')
  <2>1. ASSUME NEW n \in 0..(MaxNetworks - 1), CountRead(n), loc' = [loc EXCEPT !.n = n]
        PROVE  /\ loc' \in Locals /\ loc'.op = loc.op /\ loc'.rec = loc.rec
               /\ loc'.n < MaxNetworks /\ FaultsTyped(faults')
    <3>1. n \in 0..MaxNetworks /\ n < MaxNetworks
      BY IndexesAre
    <3> QED
      BY <1>1, <2>1, <3>1, CountedType, CountReadType, TypeInvIs
  <2>2. CASE /\ Num(flash) < MaxNetworks /\ Fault("length")
             /\ loc' = [loc EXCEPT !.n = Num(flash), !.whole = FALSE]
    <3>1. Num(flash) \in 0..MaxNetworks
      BY NumType, TypeInvIs
    <3> QED
      BY <1>1, <2>2, <3>1, CountedType, FaultType, TypeInvIs
  <2> QED
    BY <2>1, <2>2 DEF Counts
<1> QED
  BY <1>1, <1>2, TypeInvIs, TypeGoesOn DEF Steps, StoreSteps, DeleteSteps

(* Where a create writes is one of the places there are.                   *)
LEMMA RoomBehind ==
    ASSUME TypeInv, pc \in {"storeRec", "storeNum"}
    PROVE  /\ loc.n \in Nat /\ loc.n + 1 \in Indexes /\ loc.n + 1 \in 1..MaxNetworks
           /\ loc.n + 1 \in 0..MaxNetworks
           /\ loc.rec \in Slot /\ Hollow(loc.rec) \in Slot
           /\ flash.slot[loc.n + 1] \in Slot /\ flash \in Region
<1>1. loc \in Locals /\ flash \in Region /\ loc.n < MaxNetworks
  BY TypeInvIs DEF LocalsOK
<1>2. loc.n \in 0..MaxNetworks /\ loc.rec \in Slot
  BY <1>1 DEF Locals
<1>3. loc.n \in Nat /\ loc.n + 1 \in Indexes /\ loc.n + 1 \in 1..MaxNetworks
      /\ loc.n + 1 \in 0..MaxNetworks
  BY <1>1, <1>2, IndexesAre
<1> QED
  BY <1>1, <1>2, <1>3, SlotType, HollowType

LEMMA TypeWrites == ASSUME TypeInv, Writes PROVE TypeInv'
<1>1. /\ view = NoView /\ Aside /\ UNCHANGED <<loc, ok, faults>> /\ pc' = "storeNum"
      /\ loc.op = "create" /\ loc.rec.index \in Indexes /\ loc.rec.key \in Networks
      /\ loc \in Locals /\ loc.n < MaxNetworks
  BY TypeInvIs DEF Writes, LocalsOK, StoreSteps
<1>2. flash' \in Region
  BY RoomBehind, PutType DEF Writes
<1> QED
  BY <1>1, <1>2, TypeInvIs, TypeGoesOn DEF Steps, StoreSteps, DeleteSteps

LEMMA TypeTears == ASSUME TypeInv, Tears PROVE TypeInv'
<1>1. flash' \in Region
  BY RoomBehind, PutType DEF Tears
<1>2. FaultsTyped(faults')
  BY TypeInvIs, FaultType DEF Tears
<1> QED
  BY <1>1, <1>2, TypeReturn DEF Tears

LEMMA TypeCountsNew == ASSUME TypeInv, CountsNew PROVE TypeInv'
<1>1. flash' \in Region
  BY RoomBehind, SetNumType DEF CountsNew
<1>2. FaultsTyped(faults')
  BY TypeInvIs DEF CountsNew
<1> QED
  BY <1>1, <1>2, TypeReturn DEF CountsNew

LEMMA TypeFinds == ASSUME TypeInv, Finds PROVE TypeInv'
<1>1. PICK i \in 1..MaxNetworks, protocol \in Protocols :
            /\ Found(i, protocol) # 0
            /\ loc' = [Call("delete", [index |-> i,
                                       key |-> flash.slot[Found(i, protocol)].key])
                         EXCEPT !.n = Num(flash), !.at = Found(i, protocol)]
  BY DEF Finds
<1> DEFINE at == Found(i, protocol)
           rec == [index |-> i, key |-> flash.slot[at].key]
<1>2. flash \in Region /\ view = NoView /\ Aside /\ UNCHANGED <<flash, ok, faults>>
      /\ pc' = "delNum"
  BY TypeInvIs DEF Finds, Idle
<1>3. at \in 1..Num(flash) /\ Owns(protocol, flash.slot[at])
  BY <1>1, <1>2, FoundAt
<1> HIDE DEF at
<1>4. at \in 1..MaxNetworks /\ at \in 0..MaxNetworks /\ Num(flash) \in 0..MaxNetworks
  BY <1>2, <1>3, NumType, IndexesAre
<1>5. flash.slot[at].key \in Networks
  BY <1>2, <1>3, <1>4, SlotType DEF Owns
<1>6. rec \in Slot /\ rec.key \in Networks
  BY <1>5, IndexesAre DEF Slot
<1> HIDE DEF rec
<1>7. loc' = [Call("delete", rec) EXCEPT !.n = Num(flash), !.at = at]
  BY <1>1 DEF rec, at
<1>8. loc' \in Locals /\ loc'.op = "delete" /\ loc'.rec = rec /\ loc'.n = Num(flash)
      /\ loc'.at = at
  <2> DEFINE c == Call("delete", rec)
  <2>1. c \in Locals /\ c.op = "delete" /\ c.rec = rec
    BY <1>2, <1>6, CallType
  <2> HIDE DEF c
  <2>2. loc' = [c EXCEPT !.n = Num(flash), !.at = at]
    BY <1>7 DEF c
  <2> QED
    BY <1>4, <2>1, <2>2 DEF Locals
<1> QED
  BY <1>2, <1>3, <1>6, <1>8, TypeInvIs, TypeGoesOn DEF Steps, StoreSteps, DeleteSteps

(* What a delete takes down and puts back are positions there are.         *)
LEMMA PlaceOfRecord ==
    ASSUME TypeInv, pc \in DeleteSteps
    PROVE  /\ loc.n \in 0..MaxNetworks /\ loc.n \in Nat /\ loc.n - 1 \in 0..MaxNetworks
           /\ loc.at \in 1..loc.n /\ loc.at \in Indexes
           /\ loc.rec \in Slot /\ Hollow(loc.rec) \in Slot /\ flash \in Region
<1>1. loc \in Locals /\ flash \in Region /\ loc.at \in 1..loc.n
  BY TypeInvIs DEF LocalsOK
<1>2. loc.n \in 0..MaxNetworks /\ loc.rec \in Slot
  BY <1>1 DEF Locals
<1> QED
  BY <1>1, <1>2, HollowType, IndexesAre

LEMMA TypeTakesDown == ASSUME TypeInv, TakesDown PROVE TypeInv'
<1>1. /\ view = NoView /\ Aside /\ UNCHANGED <<loc, ok, faults>> /\ pc' = "delData"
      /\ loc.op = "delete" /\ loc.at \in 1..loc.n /\ loc.rec.key \in Networks
      /\ loc \in Locals
  BY TypeInvIs DEF TakesDown, LocalsOK, DeleteSteps
<1>2. flash' \in Region
  BY PlaceOfRecord, SetNumType DEF TakesDown, DeleteSteps
<1> QED
  BY <1>1, <1>2, TypeInvIs, TypeGoesOn DEF Steps, StoreSteps, DeleteSteps

LEMMA TypeDrops == ASSUME TypeInv, Drops PROVE TypeInv'
<1>1. flash' \in Region
  BY PlaceOfRecord, DropType DEF Drops, DeleteSteps
<1>2. FaultsTyped(faults')
  BY TypeInvIs DEF Drops
<1> QED
  BY <1>1, <1>2, TypeReturn DEF Drops

LEMMA TypeTurnsBack == ASSUME TypeInv, TurnsBack PROVE TypeInv'
<1>1. /\ view = NoView /\ Aside /\ UNCHANGED <<flash, loc, ok>> /\ pc' = "delUndo"
      /\ loc.op = "delete" /\ loc.at \in 1..loc.n /\ loc.rec.key \in Networks
      /\ loc \in Locals
  BY TypeInvIs DEF TurnsBack, LocalsOK, DeleteSteps
<1>2. FaultsTyped(faults') /\ faults' # <<>>
  BY TypeInvIs, FaultType DEF TurnsBack
<1> QED
  BY <1>1, <1>2, TypeInvIs, TypeGoesOn DEF Steps, StoreSteps, DeleteSteps

LEMMA TypeRecovers == ASSUME TypeInv, Recovers PROVE TypeInv'
<1>1. flash' \in Region
  BY PlaceOfRecord, PutType, SetNumType DEF Recovers, Recover, DeleteSteps
<1>2. FaultsTyped(faults')
  BY TypeInvIs DEF Recovers
<1> QED
  BY <1>1, <1>2, TypeReturn DEF Recovers

LEMMA TypeStutters == ASSUME TypeInv, UNCHANGED vars PROVE TypeInv'
BY DEF vars, TypeInv, TypeOK, LocalsOK

LEMMA TypeNext == TypeInv /\ [Next]_vars => TypeInv'
<1> SUFFICES ASSUME TypeInv, [Next]_vars PROVE TypeInv'
  OBVIOUS
<1>1. CASE Next
  BY <1>1, EffectNext, TypeRests, TypeTakesIndex, TypeCounts, TypeWrites, TypeTears,
     TypeCountsNew, TypeFinds, TypeTakesDown, TypeDrops, TypeTurnsBack, TypeRecovers
     DEF Effect
<1>2. CASE UNCHANGED vars
  BY <1>2, TypeStutters
<1> QED
  BY <1>1, <1>2

LEMMA TypeInit == Init => TypeInv
<1> SUFFICES ASSUME Init PROVE TypeInv
  OBVIOUS
<1>1. flash \in Region
  BY ErasedType DEF Init, EmptyRegion, Region
<1>2. FaultsTyped(faults)
  BY NetworkAssumption, EmptySeq DEF Init, FaultsTyped
<1>3. LocalsOK
  BY DEF Init, LocalsOK, StoreSteps, DeleteSteps
<1> QED
  BY <1>1, <1>2, <1>3, NoCallType, TypeInvIs DEF Init, Steps

LEMMA TypeInvariance == Spec => []TypeInv
BY TypeInit, TypeNext, PTL DEF Spec

(* Every reachable state of the network configurations is well typed, for  *)
(* any capacity and whatever fails: counts, indexes and positions stay in  *)
(* the region, and a list holds records that were stored.                  *)
THEOREM NetworksTypeCorrect == Spec => []TypeOK
<1>1. TypeInv => TypeOK
  BY DEF TypeInv
<1> QED
  BY <1>1, TypeInvariance, PTL

-----------------------------------------------------------------------------
(* The list stays readable while reads succeed                             *)
(*                                                                         *)
(* As in the keypair store, that the records counted have different        *)
(* indexes is not inductive: a count that goes up or back shows a record   *)
(* that no reader saw.  The invariant says what a call knows of it.        *)

Never(kind) == \A f \in DOMAIN faults : faults[f] # kind

ReadableUpto(r, n) ==
    /\ \A p \in 1..n : r.slot[p].index # 0
    /\ \A p, q \in 1..n : r.slot[p].index = r.slot[q].index => p = q

ReadInv ==
    /\ ReadableUpto(flash, Num(flash))
    /\ pc \in StoreSteps => ~HasIndex(flash, loc.rec.index)
    /\ pc \in {"storeRec", "storeNum"} => loc.n = Num(flash)
    /\ pc = "storeNum" => flash.slot[loc.n + 1] \in {loc.rec, Hollow(loc.rec)}
    /\ pc \in DeleteSteps =>
        ReadableUpto(flash, loc.n) /\ flash.slot[loc.at] = loc.rec
    /\ pc = "delNum" => Num(flash) = loc.n
    /\ pc \in {"delData", "delUndo"} => Num(flash) = loc.n - 1

(* A kind of failure that has not happened now has not happened before.    *)
LEMMA NeverBefore ==
    ASSUME FaultsTyped(faults), NEW kind, NEW other, Fault(kind), Never(other)'
    PROVE  Never(other) /\ kind # other
<1>1. faults' = Append(faults, kind) /\ faults \in Seq(FaultKinds) /\ kind \in FaultKinds
  BY DEF Fault, FaultsTyped
<1>2. \A f \in 1..Len(faults) : faults'[f] = faults[f]
  BY <1>1
<1>3. DOMAIN faults = 1..Len(faults) /\ DOMAIN faults' = 1..(Len(faults) + 1)
      /\ Len(faults) \in Nat /\ faults'[Len(faults) + 1] = kind
  BY <1>1
<1>4. \A f \in 1..Len(faults) : f \in DOMAIN faults'
  BY <1>3
<1>5. Len(faults) + 1 \in DOMAIN faults'
  BY <1>3
<1> QED
  BY <1>2, <1>3, <1>4, <1>5 DEF Never

LEMMA CountIsRead ==
    ASSUME FaultsTyped(faults), NEW n, CountRead(n), Never("read")'
    PROVE  n = Num(flash) /\ UNCHANGED faults
BY NeverBefore DEF CountRead

LEMMA NeverNext ==
    ASSUME FaultsTyped(faults), Effect, NEW other, Never(other)'
    PROVE  Never(other)
<1>1. UNCHANGED faults \/ \E kind : Fault(kind)
  BY DEF Effect, Rests, TakesIndex, Counts, Writes, Tears, CountsNew, Finds,
     TakesDown, Drops, TurnsBack, Recovers, CountRead
<1> QED
  BY <1>1, NeverBefore DEF Never

LEMMA ReadableLess ==
    ASSUME NEW r, NEW n \in Nat, NEW k \in Nat, k <= n, ReadableUpto(r, n)
    PROVE  ReadableUpto(r, k)
BY DEF ReadableUpto

(* What is written behind the records counted changes none of them.        *)
LEMMA PutBehind ==
    ASSUME NEW r \in Region, NEW k \in Indexes, NEW rec \in Slot, Num(r) < k
    PROVE  /\ Num(Put(r, k, rec)) = Num(r)
           /\ \A p \in 1..Num(r) : Put(r, k, rec).slot[p] = r.slot[p]
           /\ Live(Put(r, k, rec)) = Live(r)
           /\ ReadableUpto(r, Num(r)) => ReadableUpto(Put(r, k, rec), Num(r))
           /\ \A i : HasIndex(Put(r, k, rec), i) <=> HasIndex(r, i)
<1> DEFINE d == Put(r, k, rec)
<1>1. Num(d) = Num(r)
  BY PutType
<1>2. ASSUME NEW p \in 1..Num(r) PROVE d.slot[p] = r.slot[p]
  <2>1. p \in Indexes \ {k}
    BY NumType, IndexesAre
  <2> QED
    BY <2>1, PutType
<1> HIDE DEF d
<1>3. Live(d) = Live(r)
  BY <1>1, <1>2 DEF Live, Upto
<1>4. ReadableUpto(r, Num(r)) => ReadableUpto(d, Num(r))
  BY <1>2 DEF ReadableUpto
<1>5. \A i : HasIndex(d, i) <=> HasIndex(r, i)
  BY <1>1, <1>2 DEF HasIndex
<1> QED
  BY <1>1, <1>2, <1>3, <1>4, <1>5 DEF d

LEMMA ReadableCount ==
    ASSUME NEW r \in Region, ReadableUpto(r, Num(r)), Num(r) + 1 \in Indexes,
           r.slot[Num(r) + 1].index # 0, ~HasIndex(r, r.slot[Num(r) + 1].index)
    PROVE  ReadableUpto(SetNum(r, Num(r) + 1), Num(r) + 1)
<1>1. Num(r) \in Nat /\ Num(r) + 1 \in 0..MaxNetworks
  BY NumType, IndexesAre
<1>2. SetNum(r, Num(r) + 1).slot = r.slot
  BY <1>1, SetNumType
<1>3. ReadableUpto(r, Num(r) + 1)
  BY <1>1 DEF ReadableUpto, HasIndex
<1> QED
  BY <1>2, <1>3 DEF ReadableUpto

LEMMA ReadableDrop ==
    ASSUME NEW r \in Region, NEW n \in 0..MaxNetworks, NEW p \in 1..n,
           ReadableUpto(r, n)
    PROVE  ReadableUpto(Drop(r, p, n), n - 1)
<1> DEFINE d == Drop(r, p, n)
<1>1. \A q \in 1..(n - 1) : d.slot[q] = IF q < p THEN r.slot[q] ELSE r.slot[q + 1]
  BY DropType
<1>2. n \in Nat
  BY IndexesAre
<1> HIDE DEF d
<1>3. \A q \in 1..(n - 1) : d.slot[q].index # 0
  BY <1>1, <1>2 DEF ReadableUpto
<1>4. \A q, s \in 1..(n - 1) : d.slot[q].index = d.slot[s].index => q = s
  <2> SUFFICES ASSUME NEW q \in 1..(n - 1), NEW s \in 1..(n - 1),
                      d.slot[q].index = d.slot[s].index
               PROVE  q = s
    OBVIOUS
  <2>1. q \in 1..n /\ q + 1 \in 1..n /\ s \in 1..n /\ s + 1 \in 1..n
    BY <1>2
  <2>2. CASE q < p /\ s < p
    BY <1>1, <2>1, <2>2 DEF ReadableUpto
  <2>3. CASE q < p /\ ~(s < p)
    BY <1>1, <2>1, <2>3 DEF ReadableUpto
  <2>4. CASE ~(q < p) /\ s < p
    BY <1>1, <2>1, <2>4 DEF ReadableUpto
  <2>5. CASE ~(q < p) /\ ~(s < p)
    BY <1>1, <2>1, <2>5 DEF ReadableUpto
  <2> QED
    BY <2>2, <2>3, <2>4, <2>5
<1>5. ReadableUpto(d, n - 1)
  BY <1>3, <1>4 DEF ReadableUpto
<1> QED
  BY <1>5 DEF d

(* What a deletion leaves: all records but the one it is about.            *)
LEMMA LiveDrop ==
    ASSUME NEW r \in Region, NEW n \in 0..MaxNetworks, NEW p \in 1..n,
           Num(r) = n - 1, ReadableUpto(r, n)
    PROVE  Live(Drop(r, p, n)) = Upto(r, n) \ {r.slot[p]}
<1> DEFINE d == Drop(r, p, n)
<1>1. /\ Num(d) = n - 1
      /\ \A q \in 1..(n - 1) : d.slot[q] = IF q < p THEN r.slot[q] ELSE r.slot[q + 1]
  BY DropType
<1>2. n \in Nat
  BY IndexesAre
<1> HIDE DEF d
<1>3. ASSUME NEW s \in Live(d) PROVE s \in Upto(r, n) \ {r.slot[p]}
  <2>1. PICK q \in 1..(n - 1) : s = d.slot[q]
    BY <1>1, <1>3 DEF Live, Upto
  <2>2. PICK o \in 1..n : o # p /\ s = r.slot[o]
    <3>1. CASE q < p
      BY <1>1, <1>2, <2>1, <3>1
    <3>2. CASE ~(q < p)
      <4>1. q + 1 \in 1..n /\ q + 1 # p /\ s = r.slot[q + 1]
        BY <1>1, <1>2, <2>1, <3>2
      <4> QED
        BY <4>1
    <3> QED
      BY <3>1, <3>2
  <2>3. s # r.slot[p]
    BY <2>2 DEF ReadableUpto
  <2> QED
    BY <2>2, <2>3 DEF Upto
<1>4. ASSUME NEW s \in Upto(r, n) \ {r.slot[p]} PROVE s \in Live(d)
  <2>1. PICK o \in 1..n : o # p /\ s = r.slot[o]
    BY <1>4 DEF Upto
  <2>2. CASE o < p
    <3>1. o \in 1..(n - 1) /\ d.slot[o] = s
      BY <1>1, <1>2, <2>1, <2>2
    <3> QED
      BY <1>1, <3>1 DEF Live, Upto
  <2>3. CASE ~(o < p)
    <3>1. o - 1 \in 1..(n - 1) /\ ~(o - 1 < p) /\ (o - 1) + 1 = o
      BY <1>2, <2>1, <2>3
    <3>2. d.slot[o - 1] = s
      BY <1>1, <2>1, <3>1
    <3> QED
      BY <1>1, <3>1, <3>2 DEF Live, Upto
  <2> QED
    BY <2>2, <2>3
<1> QED
  BY <1>3, <1>4 DEF d

(* A step that leaves no call running.                                     *)
LEMMA ReadIdle ==
    ASSUME pc' = "idle", ReadableUpto(flash', Num(flash'))
    PROVE  ReadInv'
BY DEF ReadInv, StoreSteps, DeleteSteps

LEMMA ReadRests == ASSUME ReadInv, Rests PROVE ReadInv'
BY ReadIdle DEF Rests, ReadInv

LEMMA ReadTakesIndex ==
    ASSUME TypeInv, ReadInv, TakesIndex, Never("read")'
    PROVE  ReadInv'
<1>1. flash \in Region /\ FaultsTyped(faults)
  BY TypeInvIs
<1>2. PICK n \in 0..(MaxNetworks - 1), net \in Networks :
            /\ CountRead(n)
            /\ loc' = Call("create", [index |-> FreeIndex(n), key |-> net])
  BY DEF TakesIndex
<1>3. n = Num(flash) /\ n \in Nat /\ n < MaxNetworks
  BY <1>1, <1>2, CountIsRead, IndexesAre
<1> DEFINE rec == [index |-> FreeIndex(n), key |-> net]
<1>4. rec.index = FreeIndex(n) /\ rec \in Slot
  BY <1>3, FreeIndexFree, IndexesAre DEF Slot
<1>5. \A p \in 1..n : flash.slot[p].index # FreeIndex(n)
  BY <1>3, FreeIndexFree
<1> HIDE DEF rec
<1>6. loc'.rec = rec
  BY <1>1, <1>2, <1>4, CallType DEF rec
<1>7. ~HasIndex(flash, loc'.rec.index)
  BY <1>3, <1>4, <1>5, <1>6 DEF HasIndex
<1>8. pc' = "storeRead" /\ flash' = flash
  BY DEF TakesIndex
<1> QED
  BY <1>7, <1>8 DEF ReadInv, DeleteSteps

LEMMA ReadCounts ==
    ASSUME TypeInv, ReadInv, Counts, Never("read")'
    PROVE  ReadInv'
<1>1. /\ FaultsTyped(faults) /\ loc \in Locals /\ Num(flash) \in 0..MaxNetworks
      /\ flash' = flash /\ pc' = "storeRec" /\ pc = "storeRead"
  BY TypeInvIs, NumType DEF Counts
<1>2. loc'.rec = loc.rec /\ loc'.n = Num(flash)
  <2>1. ASSUME NEW n \in 0..(MaxNetworks - 1), CountRead(n), loc' = [loc EXCEPT !.n = n]
        PROVE  loc'.rec = loc.rec /\ loc'.n = Num(flash)
    <3>1. n \in 0..MaxNetworks /\ n = Num(flash)
      BY <1>1, <2>1, CountIsRead, IndexesAre
    <3> QED
      BY <1>1, <2>1, <3>1, CountedType
  <2>2. CASE loc' = [loc EXCEPT !.n = Num(flash), !.whole = FALSE]
    BY <1>1, <2>2, CountedType
  <2> QED
    BY <2>1, <2>2 DEF Counts
<1> QED
  BY <1>1, <1>2 DEF ReadInv, StoreSteps, DeleteSteps

LEMMA ReadWrites ==
    ASSUME TypeInv, ReadInv, Writes
    PROVE  ReadInv'
<1> DEFINE rec == IF loc.whole THEN loc.rec ELSE Hollow(loc.rec)
<1>1. pc = "storeRec" /\ pc' = "storeNum" /\ loc' = loc /\ flash' = Put(flash, loc.n + 1, rec)
  BY DEF Writes
<1>2. /\ loc.n + 1 \in Indexes /\ flash \in Region /\ rec \in Slot /\ loc.n \in Nat
      /\ loc.n = Num(flash) /\ ~HasIndex(flash, loc.rec.index)
  BY <1>1, RoomBehind DEF ReadInv, StoreSteps
<1>3. rec \in {loc.rec, Hollow(loc.rec)}
  OBVIOUS
<1> HIDE DEF rec
<1>4. Num(flash) < loc.n + 1
  BY <1>2
<1>5. /\ Num(flash') = Num(flash) /\ ReadableUpto(flash', Num(flash'))
      /\ ~HasIndex(flash', loc.rec.index)
  BY <1>1, <1>2, <1>4, PutBehind DEF ReadInv
<1>6. flash'.slot[loc.n + 1] = rec
  BY <1>1, <1>2, PutType
<1> QED
  BY <1>1, <1>2, <1>3, <1>5, <1>6 DEF ReadInv, DeleteSteps, Hollow

LEMMA ReadTears ==
    ASSUME TypeInv, ReadInv, Tears
    PROVE  ReadInv'
<1>1. PICK torn \in {flash.slot[loc.n + 1], Hollow(loc.rec)} :
            flash' = Put(flash, loc.n + 1, torn)
  BY DEF Tears
<1>2. pc = "storeRec" /\ pc' = "idle"
  BY DEF Tears, Return
<1>3. /\ loc.n + 1 \in Indexes /\ flash \in Region /\ torn \in Slot /\ loc.n \in Nat
      /\ loc.n = Num(flash)
  BY <1>2, RoomBehind DEF ReadInv
<1>4. Num(flash) < loc.n + 1
  BY <1>3
<1>5. Num(flash') = Num(flash) /\ ReadableUpto(flash', Num(flash'))
  BY <1>1, <1>3, <1>4, PutBehind DEF ReadInv
<1> QED
  BY <1>2, <1>5, ReadIdle

LEMMA ReadCountsNew ==
    ASSUME TypeInv, ReadInv, CountsNew
    PROVE  ReadInv'
<1>1. pc = "storeNum" /\ pc' = "idle" /\ flash' = SetNum(flash, loc.n + 1)
  BY DEF CountsNew, Return
<1>2. /\ loc.n + 1 \in Indexes /\ flash \in Region /\ loc.n + 1 \in 0..MaxNetworks
      /\ loc.n = Num(flash) /\ ~HasIndex(flash, loc.rec.index) /\ loc.rec \in Slot
      /\ flash.slot[loc.n + 1] \in {loc.rec, Hollow(loc.rec)}
  BY <1>1, RoomBehind DEF ReadInv, StoreSteps
<1>3. flash.slot[loc.n + 1].index = loc.rec.index
  BY <1>2, HollowType
<1>4. loc.rec.index # 0
  BY <1>1, TypeInvIs, IndexesAre DEF LocalsOK, StoreSteps
<1>5. ReadableUpto(flash', loc.n + 1)
  BY <1>1, <1>2, <1>3, <1>4, ReadableCount DEF ReadInv
<1>6. Num(flash') = loc.n + 1
  BY <1>1, <1>2, SetNumType
<1> QED
  BY <1>1, <1>5, <1>6, ReadIdle

LEMMA ReadFinds ==
    ASSUME TypeInv, ReadInv, Finds
    PROVE  ReadInv'
<1>1. PICK i \in 1..MaxNetworks, protocol \in Protocols :
            /\ Found(i, protocol) # 0
            /\ loc' = [Call("delete", [index |-> i,
                                       key |-> flash.slot[Found(i, protocol)].key])
                         EXCEPT !.n = Num(flash), !.at = Found(i, protocol)]
  BY DEF Finds
<1> DEFINE at == Found(i, protocol)
           rec == [index |-> i, key |-> flash.slot[at].key]
<1>2. flash \in Region /\ flash' = flash /\ pc' = "delNum"
  BY TypeInvIs DEF Finds
<1>3. at \in 1..Num(flash) /\ flash.slot[at].index = i
  BY <1>1, <1>2, FoundAt
<1> HIDE DEF at
<1>4. at \in 1..MaxNetworks /\ at \in 0..MaxNetworks /\ Num(flash) \in 0..MaxNetworks
  BY <1>2, <1>3, NumType, IndexesAre
<1>5. flash.slot[at] \in Slot
  BY <1>2, <1>4, SlotType
<1>6. flash.slot[at] = rec
  BY <1>3, <1>5 DEF Slot
<1> HIDE DEF rec
<1>7. loc'.rec = rec /\ loc'.n = Num(flash) /\ loc'.at = at
  <2> DEFINE c == Call("delete", rec)
  <2>1. c \in Locals /\ c.rec = rec
    BY <1>2, <1>5, <1>6, CallType
  <2> HIDE DEF c
  <2>2. loc' = [c EXCEPT !.n = Num(flash), !.at = at]
    BY <1>1 DEF c, rec, at
  <2> QED
    BY <1>4, <2>1, <2>2 DEF Locals
<1> QED
  BY <1>2, <1>6, <1>7 DEF ReadInv, StoreSteps

LEMMA ReadTakesDown ==
    ASSUME TypeInv, ReadInv, TakesDown
    PROVE  ReadInv'
<1>1. pc = "delNum" /\ pc' = "delData" /\ loc' = loc /\ flash' = SetNum(flash, loc.n - 1)
  BY DEF TakesDown
<1>2. /\ loc.n \in Nat /\ loc.n - 1 \in 0..MaxNetworks /\ flash \in Region
      /\ loc.n - 1 \in Nat /\ loc.n - 1 <= loc.n
      /\ ReadableUpto(flash, loc.n) /\ flash.slot[loc.at] = loc.rec
  BY <1>1, PlaceOfRecord, IndexesAre DEF ReadInv, DeleteSteps
<1>3. Num(flash') = loc.n - 1 /\ flash'.slot = flash.slot
  BY <1>1, <1>2, SetNumType
<1>4. ReadableUpto(flash, loc.n - 1)
  BY <1>2, ReadableLess
<1>5. ReadableUpto(flash', loc.n - 1) /\ ReadableUpto(flash', loc.n)
  BY <1>2, <1>3, <1>4 DEF ReadableUpto
<1> QED
  BY <1>1, <1>2, <1>3, <1>5 DEF ReadInv, StoreSteps

LEMMA ReadDrops ==
    ASSUME TypeInv, ReadInv, Drops
    PROVE  ReadInv'
<1>1. pc = "delData" /\ pc' = "idle" /\ flash' = Drop(flash, loc.at, loc.n)
  BY DEF Drops, Return
<1>2. /\ loc.n \in 0..MaxNetworks /\ loc.at \in 1..loc.n /\ flash \in Region
      /\ ReadableUpto(flash, loc.n) /\ Num(flash) = loc.n - 1
  BY <1>1, PlaceOfRecord DEF ReadInv, DeleteSteps
<1>3. ReadableUpto(flash', loc.n - 1) /\ Num(flash') = loc.n - 1
  BY <1>1, <1>2, ReadableDrop, DropType
<1> QED
  BY <1>1, <1>3, ReadIdle

LEMMA ReadTurnsBack ==
    ASSUME ReadInv, TurnsBack
    PROVE  ReadInv'
<1>1. pc = "delData" /\ pc' = "delUndo" /\ flash' = flash /\ loc' = loc
  BY DEF TurnsBack
<1> QED
  BY <1>1 DEF ReadInv, StoreSteps, DeleteSteps

(* What is put back: the count, or, for the last record, four bytes over   *)
(* the record.                                                             *)
LEMMA RecoverEffect ==
    ASSUME TypeInv, ReadInv, Recovers
    PROVE  /\ loc.at # loc.n => /\ Num(flash') = loc.n /\ flash'.slot = flash.slot
                                /\ Live(flash') = Upto(flash, loc.n)
           /\ loc.at = loc.n => /\ Num(flash') = Num(flash) /\ Live(flash') = Live(flash)
                                /\ \A p \in 1..Num(flash) : flash'.slot[p] = flash.slot[p]
<1>1. pc = "delUndo"
  BY DEF Recovers
<1>2. /\ loc.n \in 0..MaxNetworks /\ loc.n \in Nat /\ loc.at \in Indexes
      /\ Hollow(loc.rec) \in Slot /\ flash \in Region /\ Num(flash) = loc.n - 1
  BY <1>1, PlaceOfRecord DEF ReadInv, DeleteSteps
<1>3. CASE loc.at # loc.n
  <2>1. flash' = SetNum(flash, loc.n)
    BY <1>3 DEF Recovers, Recover
  <2>2. Num(flash') = loc.n /\ flash'.slot = flash.slot
    BY <1>2, <2>1, SetNumType
  <2> QED
    BY <1>3, <2>2 DEF Live, Upto
<1>4. CASE loc.at = loc.n
  <2>1. flash' = Put(flash, loc.at, Hollow(loc.rec))
    BY <1>4 DEF Recovers, Recover
  <2>2. Num(flash) < loc.at
    BY <1>2, <1>4
  <2> QED
    BY <1>2, <1>4, <2>1, <2>2, PutBehind
<1> QED
  BY <1>3, <1>4

LEMMA ReadRecovers ==
    ASSUME TypeInv, ReadInv, Recovers
    PROVE  ReadInv'
<1>1. pc = "delUndo" /\ pc' = "idle"
  BY DEF Recovers, Return
<1>2. ReadableUpto(flash, loc.n) /\ ReadableUpto(flash, Num(flash))
  BY <1>1 DEF ReadInv, DeleteSteps
<1>3. ReadableUpto(flash', Num(flash'))
  BY <1>2, RecoverEffect DEF ReadableUpto
<1> QED
  BY <1>1, <1>3, ReadIdle

LEMMA ReadNext ==
    ASSUME TypeInv, ReadInv, [Next]_vars, Never("read")'
    PROVE  ReadInv'
<1>1. CASE Next
  BY <1>1, EffectNext, ReadRests, ReadTakesIndex, ReadCounts, ReadWrites, ReadTears,
     ReadCountsNew, ReadFinds, ReadTakesDown, ReadDrops, ReadTurnsBack, ReadRecovers
     DEF Effect
<1>2. CASE UNCHANGED vars
  BY <1>2 DEF vars, ReadInv
<1> QED
  BY <1>1, <1>2

-----------------------------------------------------------------------------
(* What a call has still to do to the networks there are                   *)

(* Between two writes the networks there were when the call began are      *)
(* still there, the one that is deleted included.                          *)
BeforeInv == pc # "idle" => loc.before = Kept

KeptInv == TypeInv /\ (Never("read") => ReadInv /\ BeforeInv)

(* What is kept during a delete, by the step it is at.                     *)
LEMMA KeptIs ==
    /\ pc \notin {"delData", "delUndo"} => Kept = Live(flash)
    /\ pc \in {"delData", "delUndo"} => Kept = Upto(flash, loc.n)
    /\ pc' \notin {"delData", "delUndo"} => Kept' = Live(flash')
    /\ pc' \in {"delData", "delUndo"} => Kept' = Upto(flash', loc'.n)
BY DEF Kept

LEMMA BeforeNext ==
    ASSUME TypeInv, ReadInv, BeforeInv, Effect, Never("read")'
    PROVE  BeforeInv'
<1>1. flash \in Region /\ loc \in Locals
  BY TypeInvIs
<1>2. CASE Rests \/ Tears \/ CountsNew \/ Drops \/ Recovers
  BY <1>2 DEF Rests, Tears, CountsNew, Drops, Recovers, Return, BeforeInv
<1>3. CASE TakesIndex
  <2>1. PICK n \in 0..(MaxNetworks - 1), net \in Networks :
            /\ CountRead(n)
            /\ loc' = Call("create", [index |-> FreeIndex(n), key |-> net])
    BY <1>3 DEF TakesIndex
  <2>2. loc'.before = Live(flash)
    BY <2>1 DEF Call, NoCall
  <2>3. pc' = "storeRead" /\ flash' = flash
    BY <1>3 DEF TakesIndex
  <2> QED
    BY <2>2, <2>3, KeptIs DEF BeforeInv
<1>4. CASE Counts
  <2>1. pc = "storeRead" /\ pc' = "storeRec" /\ flash' = flash
    BY <1>4 DEF Counts
  <2>2. loc'.before = loc.before
    BY <1>1, <1>4 DEF Counts, Locals
  <2> QED
    BY <2>1, <2>2, KeptIs DEF BeforeInv
<1>5. CASE Writes
  <2> DEFINE rec == IF loc.whole THEN loc.rec ELSE Hollow(loc.rec)
  <2>1. pc = "storeRec" /\ pc' = "storeNum" /\ loc' = loc
        /\ flash' = Put(flash, loc.n + 1, rec)
    BY <1>5 DEF Writes
  <2>2. loc.n + 1 \in Indexes /\ rec \in Slot /\ loc.n \in Nat /\ loc.n = Num(flash)
    BY <2>1, RoomBehind DEF ReadInv
  <2> HIDE DEF rec
  <2>3. Num(flash) < loc.n + 1
    BY <2>2
  <2>4. Live(flash') = Live(flash)
    BY <1>1, <2>1, <2>2, <2>3, PutBehind
  <2> QED
    BY <2>1, <2>4, KeptIs DEF BeforeInv
<1>6. CASE Finds
  <2>1. loc'.before = Live(flash)
    BY <1>6 DEF Finds, Call, NoCall
  <2>2. pc' = "delNum" /\ flash' = flash
    BY <1>6 DEF Finds
  <2> QED
    BY <2>1, <2>2, KeptIs DEF BeforeInv
<1>7. CASE TakesDown
  <2>1. pc = "delNum" /\ pc' = "delData" /\ loc' = loc /\ flash' = SetNum(flash, loc.n - 1)
    BY <1>7 DEF TakesDown
  <2>2. Num(flash) = loc.n /\ loc.n - 1 \in 0..MaxNetworks
    BY <2>1, PlaceOfRecord DEF ReadInv, DeleteSteps
  <2>3. flash'.slot = flash.slot
    BY <1>1, <2>1, <2>2, SetNumType
  <2>4. Upto(flash', loc.n) = Live(flash)
    BY <2>2, <2>3 DEF Live, Upto
  <2> QED
    BY <2>1, <2>4, KeptIs DEF BeforeInv
<1>8. CASE TurnsBack
  <2>1. pc = "delData" /\ pc' = "delUndo" /\ UNCHANGED <<flash, loc>>
    BY <1>8 DEF TurnsBack
  <2> QED
    BY <2>1, KeptIs DEF BeforeInv
<1> QED
  BY <1>2, <1>3, <1>4, <1>5, <1>6, <1>7, <1>8 DEF Effect

LEMMA KeptNext == KeptInv /\ [Next]_vars => KeptInv'
<1> SUFFICES ASSUME KeptInv, [Next]_vars PROVE KeptInv'
  OBVIOUS
<1>1. TypeInv /\ TypeInv' /\ FaultsTyped(faults)
  BY TypeNext, TypeInvIs DEF KeptInv
<1>2. ASSUME Never("read")' PROVE ReadInv' /\ BeforeInv'
  <2>1. CASE Next
    <3>1. Effect
      BY <1>1, <2>1, EffectNext
    <3>2. Never("read")
      BY <1>1, <1>2, <3>1, NeverNext
    <3> QED
      BY <1>1, <1>2, <3>1, <3>2, ReadNext, BeforeNext DEF KeptInv
  <2>2. CASE UNCHANGED vars
    <3>1. Never("read")
      BY <1>2, <2>2 DEF vars, Never
    <3> QED
      BY <2>2, <3>1 DEF KeptInv, vars, ReadInv, BeforeInv, Kept
  <2> QED
    BY <2>1, <2>2
<1> QED
  BY <1>1, <1>2 DEF KeptInv

LEMMA KeptInit == Init => KeptInv
<1> SUFFICES ASSUME Init PROVE KeptInv
  OBVIOUS
<1>1. pc = "idle" /\ Num(flash) = 0
  BY DEF Init, Num, EmptyRegion
<1> QED
  BY <1>1, TypeInit DEF KeptInv, ReadInv, BeforeInv, ReadableUpto, StoreSteps, DeleteSteps

LEMMA KeptInvariance == Spec => []KeptInv
BY KeptInit, KeptNext, PTL DEF Spec

-----------------------------------------------------------------------------
(* A call costs at most one network besides its own                        *)

(* What is lost by leaving out the last record counted.                    *)
LEMMA LastLost ==
    ASSUME NEW r, NEW n \in Nat, n # 0
    PROVE  Upto(r, n) \ Upto(r, n - 1) \subseteq {r.slot[n]}
<1>1. \A p \in 1..n : p = n \/ p \in 1..(n - 1)
  OBVIOUS
<1> QED
  BY <1>1 DEF Upto

LEMMA LosesOne ==
    ASSUME TypeInv, ReadInv, Effect, Never("read")'
    PROVE  \A s, t \in Kept \ Kept' : s # loc.rec /\ t # loc.rec => s = t
<1>1. flash \in Region /\ loc \in Locals
  BY TypeInvIs
<1> DEFINE Cost == \A s, t \in Kept \ Kept' : s # loc.rec /\ t # loc.rec => s = t
<1> SUFFICES Cost
  OBVIOUS
<1> HIDE DEF Cost
<1>2. ASSUME Kept \subseteq Kept' PROVE Cost
  BY <1>2 DEF Cost
<1>3. ASSUME pc \in {"delData", "delUndo"}, Kept' = Live(flash), Num(flash) = loc.n - 1
      PROVE  Cost
  <2>1. loc.n \in Nat /\ loc.n # 0
    BY <1>3, PlaceOfRecord DEF DeleteSteps
  <2>2. Kept = Upto(flash, loc.n) /\ Kept' = Upto(flash, loc.n - 1)
    BY <1>3, KeptIs DEF Live
  <2>3. Kept \ Kept' \subseteq {flash.slot[loc.n]}
    BY <2>1, <2>2, LastLost
  <2> QED
    BY <2>3 DEF Cost
<1>4. CASE Rests
  <2>1. Kept' = Live(flash)
    BY <1>4, KeptIs DEF Rests
  <2>2. CASE pc \in {"delData", "delUndo"}
    BY <1>3, <2>1, <2>2 DEF ReadInv
  <2>3. CASE pc \notin {"delData", "delUndo"}
    BY <1>2, <2>1, <2>3, KeptIs
  <2> QED
    BY <2>2, <2>3
<1>5. CASE TakesIndex \/ Counts \/ Finds
  <2>1. Kept = Live(flash) /\ Kept' = Live(flash)
    BY <1>5, KeptIs DEF TakesIndex, Counts, Finds, Idle
  <2> QED
    BY <1>2, <2>1
<1>6. CASE Writes \/ Tears
  <2>1. PICK rec \in {loc.rec, Hollow(loc.rec), flash.slot[loc.n + 1]} :
            flash' = Put(flash, loc.n + 1, rec)
    BY <1>6 DEF Writes, Tears
  <2>2. pc = "storeRec" /\ pc' \in {"storeNum", "idle"}
    BY <1>6 DEF Writes, Tears, Return
  <2>3. loc.n + 1 \in Indexes /\ rec \in Slot /\ loc.n \in Nat /\ loc.n = Num(flash)
    BY <2>1, <2>2, RoomBehind DEF ReadInv
  <2>4. Num(flash) < loc.n + 1
    BY <2>3
  <2>5. Live(flash') = Live(flash)
    BY <1>1, <2>1, <2>3, <2>4, PutBehind
  <2> QED
    BY <1>2, <2>2, <2>5, KeptIs
<1>7. CASE CountsNew
  <2>1. pc = "storeNum" /\ pc' = "idle" /\ flash' = SetNum(flash, loc.n + 1)
    BY <1>7 DEF CountsNew, Return
  <2>2. loc.n + 1 \in 0..MaxNetworks /\ loc.n \in Nat /\ loc.n = Num(flash)
    BY <2>1, RoomBehind DEF ReadInv
  <2>3. Num(flash') = Num(flash) + 1 /\ flash'.slot = flash.slot
    BY <1>1, <2>1, <2>2, SetNumType
  <2>4. Live(flash) \subseteq Live(flash')
    BY <2>2, <2>3 DEF Live, Upto
  <2> QED
    BY <1>2, <2>1, <2>4, KeptIs
<1>8. CASE TakesDown
  <2>1. pc = "delNum" /\ pc' = "delData" /\ loc' = loc /\ flash' = SetNum(flash, loc.n - 1)
    BY <1>8 DEF TakesDown
  <2>2. Num(flash) = loc.n /\ loc.n - 1 \in 0..MaxNetworks
    BY <2>1, PlaceOfRecord DEF ReadInv, DeleteSteps
  <2>3. flash'.slot = flash.slot
    BY <1>1, <2>1, <2>2, SetNumType
  <2>4. Kept' = Kept
    BY <2>1, <2>2, <2>3, KeptIs DEF Live, Upto
  <2> QED
    BY <1>2, <2>4
<1>9. CASE Drops
  <2>1. pc = "delData" /\ pc' = "idle" /\ flash' = Drop(flash, loc.at, loc.n)
    BY <1>9 DEF Drops, Return
  <2>2. /\ loc.n \in 0..MaxNetworks /\ loc.at \in 1..loc.n
        /\ ReadableUpto(flash, loc.n) /\ Num(flash) = loc.n - 1
        /\ flash.slot[loc.at] = loc.rec
    BY <2>1, PlaceOfRecord DEF ReadInv, DeleteSteps
  <2>3. Kept' = Kept \ {loc.rec}
    BY <1>1, <2>1, <2>2, LiveDrop, KeptIs
  <2> QED
    BY <2>3 DEF Cost
<1>10. CASE TurnsBack
  <2>1. pc = "delData" /\ pc' = "delUndo" /\ UNCHANGED <<flash, loc>>
    BY <1>10 DEF TurnsBack
  <2> QED
    BY <1>2, <2>1, KeptIs
<1>11. CASE Recovers
  <2>1. pc = "delUndo" /\ pc' = "idle"
    BY <1>11 DEF Recovers, Return
  <2>2. CASE loc.at = loc.n
    <3>1. Kept' = Live(flash)
      BY <1>11, <2>1, <2>2, RecoverEffect, KeptIs
    <3> QED
      BY <1>3, <2>1, <3>1 DEF ReadInv
  <2>3. CASE loc.at # loc.n
    BY <1>2, <1>11, <2>1, <2>3, RecoverEffect, KeptIs
  <2> QED
    BY <2>2, <2>3
<1> QED
  BY <1>4, <1>5, <1>6, <1>7, <1>8, <1>9, <1>10, <1>11 DEF Effect

LEMMA ReadsNeverFail ==
    ASSUME "read" \notin FaultKinds, FaultsTyped(faults)
    PROVE  Never("read")
<1>1. faults \in Seq(FaultKinds)
  BY DEF FaultsTyped
<1>2. \A f \in DOMAIN faults : faults[f] \in FaultKinds
  BY <1>1
<1> QED
  BY <1>2 DEF Never

(* As long as the flash file can be read, no step of a call costs more     *)
(* than one network besides the one it is about, of whichever protocol:    *)
(* however many writes and allocations fail, in the undo too, and wherever *)
(* the process dies.                                                       *)
THEOREM NetworkLossIsBounded ==
    ASSUME "read" \notin FaultKinds
    PROVE  Spec => LosesAtMostOne
<1>1. KeptInv /\ KeptInv' /\ [Next]_vars =>
        [\A s, t \in Kept \ Kept' : s # loc.rec /\ t # loc.rec => s = t]_vars
  <2> SUFFICES ASSUME KeptInv, KeptInv', Next
               PROVE  \A s, t \in Kept \ Kept' : s # loc.rec /\ t # loc.rec => s = t
    OBVIOUS
  <2>1. TypeInv /\ FaultsTyped(faults) /\ FaultsTyped(faults)'
    BY TypeInvIs DEF KeptInv, TypeInv, TypeOK, FaultsTyped
  <2>2. Never("read") /\ Never("read")'
    BY <2>1, ReadsNeverFail DEF FaultsTyped, Never
  <2> QED
    BY <2>1, <2>2, EffectNext, LosesOne DEF KeptInv
<1> QED
  BY <1>1, KeptInvariance, PTL DEF Spec, LosesAtMostOne

-----------------------------------------------------------------------------
(* Every network that is counted is found under its index                  *)

WholeUpto(r, n) == \A p \in 1..n : r.slot[p].key # NoNetwork

(* No record without a body is counted or about to be.                     *)
WholeInv ==
    /\ WholeUpto(flash, Num(flash))
    /\ pc \in StoreSteps => loc.whole
    /\ pc = "storeNum" => flash.slot[loc.n + 1] = loc.rec
    /\ pc \in DeleteSteps => WholeUpto(flash, loc.n)

WholeStore == KeptInv /\ (Never("read") /\ Never("length") => WholeInv)

LEMMA WholeNext ==
    ASSUME TypeInv, ReadInv, WholeInv, Effect, Never("read")', Never("length")'
    PROVE  WholeInv'
<1> USE DEF StoreSteps, DeleteSteps
<1>1. flash \in Region /\ loc \in Locals /\ FaultsTyped(faults)
  BY TypeInvIs
<1>2. CASE Rests
  BY <1>2 DEF Rests, WholeInv
<1>3. CASE TakesIndex
  <2>1. PICK n \in 0..(MaxNetworks - 1), net \in Networks :
            /\ CountRead(n)
            /\ loc' = Call("create", [index |-> FreeIndex(n), key |-> net])
    BY <1>3 DEF TakesIndex
  <2>2. loc'.whole = TRUE
    BY <2>1 DEF Call, NoCall
  <2>3. pc' = "storeRead" /\ flash' = flash
    BY <1>3 DEF TakesIndex
  <2> QED
    BY <2>2, <2>3 DEF WholeInv
<1>4. CASE Counts
  <2>1. pc = "storeRead" /\ pc' = "storeRec" /\ flash' = flash
    BY <1>4 DEF Counts
  <2>2. ~Fault("length")
    BY <1>1, NeverBefore
  <2>3. loc'.whole = loc.whole
    BY <1>1, <1>4, <2>2 DEF Counts, Locals
  <2> QED
    BY <2>1, <2>3 DEF WholeInv
<1>5. CASE Writes
  <2>1. pc = "storeRec" /\ pc' = "storeNum" /\ loc' = loc
        /\ flash' = Put(flash, loc.n + 1, loc.rec)
    BY <1>5 DEF Writes, WholeInv
  <2>2. loc.n + 1 \in Indexes /\ loc.rec \in Slot /\ loc.n \in Nat /\ loc.n = Num(flash)
    BY <2>1, RoomBehind DEF ReadInv
  <2>3. Num(flash) < loc.n + 1
    BY <2>2
  <2>4. /\ Num(flash') = Num(flash)
        /\ \A p \in 1..Num(flash) : flash'.slot[p] = flash.slot[p]
    BY <1>1, <2>1, <2>2, <2>3, PutBehind
  <2>5. flash'.slot[loc.n + 1] = loc.rec
    BY <1>1, <2>1, <2>2, PutType
  <2> QED
    BY <2>1, <2>4, <2>5 DEF WholeInv, WholeUpto
<1>6. CASE Tears
  <2>1. PICK torn \in {flash.slot[loc.n + 1], Hollow(loc.rec)} :
            flash' = Put(flash, loc.n + 1, torn)
    BY <1>6 DEF Tears
  <2>2. pc = "storeRec" /\ pc' = "idle"
    BY <1>6 DEF Tears, Return
  <2>3. loc.n + 1 \in Indexes /\ torn \in Slot /\ loc.n \in Nat /\ loc.n = Num(flash)
    BY <2>1, <2>2, RoomBehind DEF ReadInv
  <2>4. Num(flash) < loc.n + 1
    BY <2>3
  <2>5. /\ Num(flash') = Num(flash)
        /\ \A p \in 1..Num(flash) : flash'.slot[p] = flash.slot[p]
    BY <1>1, <2>1, <2>3, <2>4, PutBehind
  <2> QED
    BY <2>2, <2>5 DEF WholeInv, WholeUpto
<1>7. CASE CountsNew
  <2>1. pc = "storeNum" /\ pc' = "idle" /\ flash' = SetNum(flash, loc.n + 1)
    BY <1>7 DEF CountsNew, Return
  <2>2. loc.n + 1 \in 0..MaxNetworks /\ loc.n \in Nat /\ loc.n = Num(flash)
    BY <2>1, RoomBehind DEF ReadInv
  <2>3. Num(flash') = loc.n + 1 /\ flash'.slot = flash.slot
    BY <1>1, <2>1, <2>2, SetNumType
  <2>4. flash.slot[loc.n + 1].key # NoNetwork
    BY <2>1, TypeInvIs, NetworkAssumption DEF WholeInv, LocalsOK
  <2>5. \A p \in 1..(loc.n + 1) : p \in 1..loc.n \/ p = loc.n + 1
    BY <2>2
  <2> QED
    BY <2>1, <2>2, <2>3, <2>4, <2>5 DEF WholeInv, WholeUpto
<1>8. CASE Finds
  <2>1. PICK i \in 1..MaxNetworks, protocol \in Protocols :
            loc' = [Call("delete", [index |-> i,
                                    key |-> flash.slot[Found(i, protocol)].key])
                      EXCEPT !.n = Num(flash), !.at = Found(i, protocol)]
    BY <1>8 DEF Finds
  <2>2. loc'.n = Num(flash)
    BY <2>1 DEF Call, NoCall
  <2>3. pc' = "delNum" /\ flash' = flash
    BY <1>8 DEF Finds
  <2> QED
    BY <2>2, <2>3 DEF WholeInv
<1>9. CASE TakesDown
  <2>1. pc = "delNum" /\ pc' = "delData" /\ loc' = loc /\ flash' = SetNum(flash, loc.n - 1)
    BY <1>9 DEF TakesDown
  <2>2. loc.n - 1 \in 0..MaxNetworks /\ loc.n \in Nat
    BY <2>1, PlaceOfRecord
  <2>3. flash'.slot = flash.slot /\ Num(flash') = loc.n - 1
    BY <1>1, <2>1, <2>2, SetNumType
  <2>4. \A p \in 1..(loc.n - 1) : p \in 1..loc.n
    BY <2>2
  <2> QED
    BY <2>1, <2>3, <2>4 DEF WholeInv, WholeUpto
<1>10. CASE Drops
  <2>1. pc = "delData" /\ pc' = "idle" /\ flash' = Drop(flash, loc.at, loc.n)
    BY <1>10 DEF Drops, Return
  <2>2. loc.n \in 0..MaxNetworks /\ loc.at \in 1..loc.n /\ Num(flash) = loc.n - 1
        /\ loc.n \in Nat
    BY <2>1, PlaceOfRecord DEF ReadInv
  <2>3. /\ Num(flash') = loc.n - 1
        /\ \A q \in 1..(loc.n - 1) : flash'.slot[q] =
              IF q < loc.at THEN flash.slot[q] ELSE flash.slot[q + 1]
    BY <1>1, <2>1, <2>2, DropType
  <2>4. \A q \in 1..(loc.n - 1) : q \in 1..loc.n /\ q + 1 \in 1..loc.n
    BY <2>2
  <2> QED
    BY <2>1, <2>3, <2>4 DEF WholeInv, WholeUpto
<1>11. CASE TurnsBack
  BY <1>11 DEF TurnsBack, WholeInv
<1>12. CASE Recovers
  <2>1. pc = "delUndo" /\ pc' = "idle"
    BY <1>12 DEF Recovers, Return
  <2> QED
    BY <1>12, <2>1, RecoverEffect DEF WholeInv, WholeUpto
<1> QED
  BY <1>2, <1>3, <1>4, <1>5, <1>6, <1>7, <1>8, <1>9, <1>10, <1>11, <1>12 DEF Effect

LEMMA WholeStoreNext == WholeStore /\ [Next]_vars => WholeStore'
<1> SUFFICES ASSUME WholeStore, [Next]_vars PROVE WholeStore'
  OBVIOUS
<1>1. KeptInv /\ KeptInv' /\ TypeInv /\ FaultsTyped(faults)
  BY KeptNext, TypeInvIs DEF WholeStore, KeptInv
<1>2. ASSUME Never("read")', Never("length")' PROVE WholeInv'
  <2>1. CASE Next
    <3>1. Effect
      BY <1>1, <2>1, EffectNext
    <3>2. Never("read") /\ Never("length")
      BY <1>1, <1>2, <3>1, NeverNext
    <3> QED
      BY <1>1, <1>2, <3>1, <3>2, WholeNext DEF WholeStore, KeptInv
  <2>2. CASE UNCHANGED vars
    <3>1. Never("read") /\ Never("length")
      BY <1>2, <2>2 DEF vars, Never
    <3> QED
      BY <2>2, <3>1 DEF WholeStore, vars, WholeInv
  <2> QED
    BY <2>1, <2>2
<1> QED
  BY <1>1, <1>2 DEF WholeStore

LEMMA WholeStoreInit == Init => WholeStore
<1> SUFFICES ASSUME Init PROVE WholeStore
  OBVIOUS
<1>1. pc = "idle" /\ Num(flash) = 0
  BY DEF Init, Num, EmptyRegion
<1> QED
  BY <1>1, KeptInit DEF WholeStore, WholeInv, WholeUpto, StoreSteps, DeleteSteps

LEMMA WholeStoreInvariance == Spec => []WholeStore
BY WholeStoreInit, WholeStoreNext, PTL DEF Spec

LEMMA FoundUnderIndex ==
    ASSUME TypeInv, ReadInv, WholeInv
    PROVE  Addressed
<1> SUFFICES ASSUME NEW p \in 1..Num(flash)
             PROVE  /\ flash.slot[p].key # NoNetwork
                    /\ Found(flash.slot[p].index, flash.slot[p].key.protocol) = p
  BY DEF Addressed
<1> DEFINE i == flash.slot[p].index
           protocol == flash.slot[p].key.protocol
           hits == {q \in 1..Num(flash) :
                      flash.slot[q].index = i /\ Owns(protocol, flash.slot[q])}
<1>1. flash.slot[p].key # NoNetwork
  BY DEF WholeInv, WholeUpto
<1>2. p \in hits
  BY <1>1 DEF Owns
<1>3. \A q \in hits : q = p
  BY DEF ReadInv, ReadableUpto
<1>4. flash \in Region
  BY TypeInvIs
<1>5. Found(i, protocol) \in hits
  BY <1>2, <1>4, FoundAt
<1> QED
  BY <1>1, <1>3, <1>5

(* A network is found under its index and protocol as long as no read of   *)
(* the flash file failed and no copy of a field was left out, whatever     *)
(* else fails and wherever the process dies: nothing else makes a record   *)
(* that is counted unreadable or hides it behind another one.              *)
THEOREM NetworksAddressed ==
    Spec => [](Never("read") /\ Never("length") => Addressed)
<1>1. WholeStore => (Never("read") /\ Never("length") => Addressed)
  BY FoundUnderIndex DEF WholeStore, KeptInv
<1> QED
  BY <1>1, WholeStoreInvariance, PTL

-----------------------------------------------------------------------------
(* A call does what it reports                                             *)

LEMMA CallIsAtomic ==
    ASSUME MaxFaults <= 1, WholeStore, Effect, pc # "idle", pc' = "idle",
           \A f \in DOMAIN faults' : faults'[f] = "write"
    PROVE  Live(flash') =
             IF ~ok' THEN loc.before
             ELSE IF loc.op = "create" THEN loc.before \cup {loc.rec}
             ELSE loc.before \ {loc.rec}
<1> USE DEF StoreSteps, DeleteSteps
<1>1. TypeInv /\ flash \in Region /\ loc \in Locals /\ FaultsTyped(faults)
  BY TypeInvIs DEF WholeStore, KeptInv
<1>2. \A kind : kind # "write" => Never(kind)'
  BY DEF Never
<1>3. ~Fault("read") /\ ~Fault("alloc") /\ ~Fault("crash")
  BY <1>1, <1>2, NeverBefore
<1>4. Never("read") /\ Never("length") /\ Never("read")'
  BY <1>1, <1>2, NeverNext
<1>5. ReadInv /\ BeforeInv /\ WholeInv
  BY <1>4 DEF WholeStore, KeptInv
<1>6. loc.before = Kept
  BY <1>5 DEF BeforeInv
<1>7. CASE Rests
  <2>1. ok' = FALSE /\ flash' = flash /\ pc # "delData"
    BY <1>3, <1>7 DEF Rests
  <2>2. pc # "delUndo"
    <3>1. ASSUME NEW kind, Fault(kind) PROVE faults = <<>>
      <4>1. Len(faults) < 1 /\ faults \in Seq(FaultKinds)
        BY <1>1, <3>1, NetworkAssumption DEF Fault, FaultsTyped
      <4> QED
        BY <4>1
    <3> QED
      BY <1>1, <1>7, <3>1 DEF Rests, TypeInv, LocalsOK
  <2> QED
    BY <1>6, <2>1, <2>2, KeptIs
<1>8. CASE Tears
  <2>1. PICK torn \in {flash.slot[loc.n + 1], Hollow(loc.rec)} :
            flash' = Put(flash, loc.n + 1, torn)
    BY <1>8 DEF Tears
  <2>2. pc = "storeRec" /\ ok' = FALSE
    BY <1>8 DEF Tears, Return
  <2>3. loc.n + 1 \in Indexes /\ torn \in Slot /\ loc.n \in Nat /\ loc.n = Num(flash)
    BY <1>1, <1>5, <2>1, <2>2, RoomBehind DEF ReadInv
  <2>4. Num(flash) < loc.n + 1
    BY <2>3
  <2>5. Live(flash') = Live(flash)
    BY <1>1, <2>1, <2>3, <2>4, PutBehind
  <2> QED
    BY <1>6, <2>2, <2>5, KeptIs
<1>9. CASE CountsNew
  <2>1. pc = "storeNum" /\ ok' = TRUE /\ flash' = SetNum(flash, loc.n + 1)
    BY <1>9 DEF CountsNew, Return
  <2>2. loc.n + 1 \in 0..MaxNetworks /\ loc.n \in Nat /\ loc.n = Num(flash)
    BY <1>1, <1>5, <2>1, RoomBehind DEF ReadInv
  <2>3. Num(flash') = loc.n + 1 /\ flash'.slot = flash.slot
    BY <1>1, <2>1, <2>2, SetNumType
  <2>4. flash.slot[loc.n + 1] = loc.rec
    BY <1>5, <2>1 DEF WholeInv
  <2>5. \A p \in 1..(loc.n + 1) : p \in 1..loc.n \/ p = loc.n + 1
    BY <2>2
  <2>6. loc.n + 1 \in 1..(loc.n + 1) /\ \A p \in 1..loc.n : p \in 1..(loc.n + 1)
    BY <2>2
  <2>7. Live(flash') = Live(flash) \cup {loc.rec}
    BY <2>2, <2>3, <2>4, <2>5, <2>6 DEF Live, Upto
  <2>8. loc.op = "create"
    BY <1>1, <2>1 DEF TypeInv, LocalsOK
  <2> QED
    BY <1>6, <2>1, <2>7, <2>8, KeptIs
<1>10. CASE Drops
  <2>1. pc = "delData" /\ ok' = TRUE /\ flash' = Drop(flash, loc.at, loc.n)
    BY <1>10 DEF Drops, Return
  <2>2. /\ loc.n \in 0..MaxNetworks /\ loc.at \in 1..loc.n
        /\ ReadableUpto(flash, loc.n) /\ Num(flash) = loc.n - 1
        /\ flash.slot[loc.at] = loc.rec
    BY <1>1, <1>5, <2>1, PlaceOfRecord DEF ReadInv
  <2>3. Live(flash') = Upto(flash, loc.n) \ {loc.rec}
    BY <1>1, <2>1, <2>2, LiveDrop
  <2>4. loc.op = "delete"
    BY <1>1, <2>1 DEF TypeInv, LocalsOK
  <2> QED
    BY <1>6, <2>1, <2>3, <2>4, KeptIs
<1>11. CASE Recovers
  <2>1. pc = "delUndo" /\ ok' = (loc.at = loc.n)
    BY <1>11 DEF Recovers, Return
  <2>2. /\ loc.n \in 0..MaxNetworks /\ loc.n \in Nat /\ loc.at \in 1..loc.n
        /\ ReadableUpto(flash, loc.n) /\ Num(flash) = loc.n - 1
        /\ flash.slot[loc.at] = loc.rec
    BY <1>1, <1>5, <2>1, PlaceOfRecord DEF ReadInv
  <2>3. CASE loc.at # loc.n
    BY <1>1, <1>5, <1>6, <1>11, <2>1, <2>3, RecoverEffect, KeptIs
  <2>4. CASE loc.at = loc.n
    <3>1. Live(flash') = Upto(flash, loc.n - 1)
      BY <1>1, <1>5, <1>11, <2>2, <2>4, RecoverEffect DEF Live
    <3>2. \A p \in 1..(loc.n - 1) : p \in 1..loc.n /\ p # loc.n
      BY <2>2
    <3>3. \A p \in 1..loc.n : p = loc.n \/ p \in 1..(loc.n - 1)
      BY <2>2
    <3>4. Upto(flash, loc.n - 1) = Upto(flash, loc.n) \ {flash.slot[loc.n]}
      BY <2>2, <3>2, <3>3, <2>4 DEF Upto, ReadableUpto
    <3>5. loc.op = "delete"
      BY <1>1, <2>1 DEF TypeInv, LocalsOK
    <3> QED
      BY <1>6, <2>1, <2>2, <2>4, <3>1, <3>4, <3>5, KeptIs
  <2> QED
    BY <2>3, <2>4
<1>12. ~(TakesIndex \/ Counts \/ Writes \/ Finds \/ TakesDown \/ TurnsBack)
  BY DEF TakesIndex, Counts, Writes, Finds, TakesDown, TurnsBack
<1> QED
  BY <1>7, <1>8, <1>9, <1>10, <1>11, <1>12 DEF Effect

(* With at most one failure, a call whose only trouble was that write did  *)
(* all of what it reports, to its own network and to no other, or nothing. *)
THEOREM NetworkCallsAtomic ==
    ASSUME MaxFaults <= 1
    PROVE  Spec => CallsAtomic
<1>1. WholeStore /\ [Next]_vars =>
        [pc # "idle" /\ pc' = "idle" /\ (\A f \in DOMAIN faults' : faults'[f] = "write")
           => Live(flash') =
                IF ~ok' THEN loc.before
                ELSE IF loc.op = "create" THEN loc.before \cup {loc.rec}
                ELSE loc.before \ {loc.rec}]_vars
  <2>1. WholeStore => TypeInv
    BY DEF WholeStore, KeptInv
  <2> QED
    BY <2>1, EffectNext, CallIsAtomic
<1> QED
  BY <1>1, WholeStoreInvariance, PTL DEF Spec, CallsAtomic

-----------------------------------------------------------------------------
(* What is listed is what is found                                         *)

(* The list as a function of the two regions, to compare a list that was   *)
(* filled in with the regions of a later state.                            *)
ListOf(r, m, protocol) ==
    LET own[n \in 0..MaxNetworks] ==
            IF n = 0 THEN <<>>
            ELSE IF Owns(protocol, r.slot[n])
                 THEN Append(own[n - 1], r.slot[n])
                 ELSE own[n - 1]
        single == {rec \in {[index |-> 0, key |-> net] : net \in m} : Owns(protocol, rec)}
    IN  own[Num(r)] \o (IF single = {} THEN <<>> ELSE <<CHOOSE rec \in single : TRUE>>)

LEMMA ListedIs ==
    ASSUME NEW protocol
    PROVE  Listed(Num(flash), protocol) = ListOf(flash, ram, protocol)
BY DEF Listed, Own, Onetime, ListOf

(* What the application holds is the list of the regions as they are.      *)
ViewInv == view.op = "list" => view.networks = ListOf(flash, ram, view.protocol)

ViewStore == KeptInv /\ (Never("read") => ViewInv)

LEMMA ViewNext ==
    ASSUME TypeInv, Effect, Never("read")'
    PROVE  ViewInv'
<1>1. NoView.op = "none"
  BY DEF NoView
<1>2. CASE view' = NoView
  BY <1>1, <1>2 DEF ViewInv
<1>3. CASE Rests
  <2>1. CASE view'.op = "index"
    BY <2>1 DEF ViewInv
  <2>2. ASSUME NEW protocol \in Protocols, NEW n \in 0..MaxNetworks,
               CountRead(n), UNCHANGED ram,
               See("list", protocol, n + Cardinality(ram), Listed(n, protocol))
        PROVE  ViewInv'
    <3>1. n = Num(flash)
      BY <2>2, CountIsRead, TypeInvIs
    <3>2. flash' = flash
      BY <1>3 DEF Rests
    <3>3. view'.networks = Listed(n, protocol) /\ view'.protocol = protocol
      BY <2>2 DEF See
    <3>4. view'.networks = ListOf(flash, ram, protocol)
      BY <3>1, <3>3, ListedIs
    <3> QED
      BY <2>2, <3>2, <3>3, <3>4 DEF ViewInv
  <2> QED
    BY <1>2, <1>3, <2>1, <2>2 DEF Rests
<1>4. CASE ~Rests
  <2>1. view = NoView /\ view' = view
    BY <1>4 DEF Effect, TakesIndex, Counts, Writes, Tears, CountsNew, Finds, TakesDown,
       Drops, TurnsBack, Recovers, Aside, Idle, TypeInv, LocalsOK
  <2> QED
    BY <1>2, <2>1
<1> QED
  BY <1>3, <1>4

LEMMA ViewStoreNext == ViewStore /\ [Next]_vars => ViewStore'
<1> SUFFICES ASSUME ViewStore, [Next]_vars PROVE ViewStore'
  OBVIOUS
<1>1. KeptInv /\ KeptInv' /\ TypeInv
  BY KeptNext DEF ViewStore, KeptInv
<1>2. ASSUME Never("read")' PROVE ViewInv'
  <2>1. CASE Next
    BY <1>1, <1>2, <2>1, EffectNext, ViewNext
  <2>2. CASE UNCHANGED vars
    <3>1. Never("read")
      BY <1>2, <2>2 DEF vars, Never
    <3> QED
      BY <2>2, <3>1 DEF ViewStore, vars, ViewInv
  <2> QED
    BY <2>1, <2>2
<1> QED
  BY <1>1, <1>2 DEF ViewStore

LEMMA ViewStoreInvariance == Spec => []ViewStore
<1>1. Init => ViewStore
  BY KeptInit DEF Init, NoView, ViewStore, ViewInv
<1> QED
  BY <1>1, ViewStoreNext, PTL DEF Spec

(* A list whose records have different indexes has as many as there are    *)
(* indexes.                                                                *)
LEMMA CountByIndex ==
    ASSUME NEW L \in Seq(Slot), NEW S,
           \A e \in 1..Len(L) : L[e].index \in S,
           \A i \in S : \E e \in 1..Len(L) : L[e].index = i,
           \A e, d \in 1..Len(L) : L[e].index = L[d].index => e = d
    PROVE  Len(L) = Cardinality(S)
<1> DEFINE g == [e \in 1..Len(L) |-> L[e].index]
<1>1. Len(L) \in Nat
  OBVIOUS
<1>2. IsFiniteSet(1..Len(L)) /\ Cardinality(1..Len(L)) = Len(L)
  BY <1>1, FS_Interval
<1>3. g \in [1..Len(L) -> S]
  OBVIOUS
<1>4. \A x, y \in 1..Len(L) : x # y => g[x] # g[y]
  OBVIOUS
<1>5. \A i \in S : \E e \in 1..Len(L) : g[e] = i
  OBVIOUS
<1> HIDE DEF g
<1>6. g \in Bijection(1..Len(L), S)
  BY <1>3, <1>4, <1>5 DEF Bijection, Injection, Surjection, IsInjective
<1>7. ExistsBijection(1..Len(L), S)
  BY <1>6 DEF ExistsBijection
<1> QED
  BY <1>1, <1>7, FS_CountingElements

(* What the loop has filled in: the records of the protocol, each once.    *)
OwnInv(n, protocol) ==
    LET L == Own(protocol)[n]
    IN /\ L \in Seq(Slot)
       /\ \A e \in 1..Len(L) :
            \E p \in 1..n : L[e] = flash.slot[p] /\ Owns(protocol, flash.slot[p])
       /\ \A p \in 1..n : Owns(protocol, flash.slot[p]) =>
            \E e \in 1..Len(L) : L[e] = flash.slot[p]
       /\ \A e, d \in 1..Len(L) : L[e].index = L[d].index => e = d

LEMMA OwnStep ==
    ASSUME flash \in Region, NEW protocol, NEW n \in Nat, n + 1 \in 1..MaxNetworks,
           ReadableUpto(flash, n + 1), OwnInv(n, protocol)
    PROVE  OwnInv(n + 1, protocol)
<1> DEFINE L == Own(protocol)[n]
           M == Own(protocol)[n + 1]
           rec == flash.slot[n + 1]
<1>1. L \in Seq(Slot) /\ rec \in Slot /\ Len(L) \in Nat
  BY SlotType DEF OwnInv
<1>2. M = IF Owns(protocol, rec) THEN Append(L, rec) ELSE L
  <2>1. n + 1 \in 0..MaxNetworks /\ (n + 1) - 1 = n /\ n + 1 # 0
    BY IndexesAre
  <2> QED
    BY <2>1, OwnDef
<1>3. /\ \A e \in 1..Len(L) :
            \E p \in 1..n : L[e] = flash.slot[p] /\ Owns(protocol, flash.slot[p])
      /\ \A p \in 1..n : Owns(protocol, flash.slot[p]) =>
            \E e \in 1..Len(L) : L[e] = flash.slot[p]
      /\ \A e, d \in 1..Len(L) : L[e].index = L[d].index => e = d
  BY DEF OwnInv
<1> HIDE DEF L, M
<1>4. \A p \in 1..(n + 1) : p \in 1..n \/ p = n + 1
  OBVIOUS
<1>5. n + 1 \in 1..(n + 1) /\ \A p \in 1..n : p \in 1..(n + 1) /\ p # n + 1
  OBVIOUS
<1>6. CASE ~Owns(protocol, rec)
  <2>1. M = L
    BY <1>2, <1>6
  <2>2. \A e \in 1..Len(M) :
            \E p \in 1..(n + 1) : M[e] = flash.slot[p] /\ Owns(protocol, flash.slot[p])
    BY <1>3, <1>5, <2>1
  <2>3. \A p \in 1..(n + 1) : Owns(protocol, flash.slot[p]) =>
            \E e \in 1..Len(M) : M[e] = flash.slot[p]
    BY <1>3, <1>4, <1>6, <2>1
  <2> QED
    BY <1>1, <1>3, <2>1, <2>2, <2>3 DEF OwnInv, M
<1>7. CASE Owns(protocol, rec)
  <2>1. M = Append(L, rec)
    BY <1>2, <1>7
  <2>2. /\ M \in Seq(Slot) /\ Len(M) = Len(L) + 1 /\ M[Len(L) + 1] = rec
        /\ \A e \in 1..Len(L) : M[e] = L[e]
    BY <1>1, <2>1
  <2>3. \A e \in 1..Len(M) : e \in 1..Len(L) \/ e = Len(L) + 1
    BY <1>1, <2>2
  <2>4. Len(L) + 1 \in 1..Len(M) /\ \A e \in 1..Len(L) : e \in 1..Len(M)
    BY <1>1, <2>2
  <2>5. \A e \in 1..Len(M) :
            \E p \in 1..(n + 1) : M[e] = flash.slot[p] /\ Owns(protocol, flash.slot[p])
    <3> SUFFICES ASSUME NEW e \in 1..Len(M)
                 PROVE  \E p \in 1..(n + 1) :
                            M[e] = flash.slot[p] /\ Owns(protocol, flash.slot[p])
      OBVIOUS
    <3>1. CASE e \in 1..Len(L)
      BY <1>3, <1>5, <2>2, <3>1
    <3>2. CASE e = Len(L) + 1
      BY <1>5, <1>7, <2>2, <3>2
    <3> QED
      BY <2>3, <3>1, <3>2
  <2>6. \A p \in 1..(n + 1) : Owns(protocol, flash.slot[p]) =>
            \E e \in 1..Len(M) : M[e] = flash.slot[p]
    <3> SUFFICES ASSUME NEW p \in 1..(n + 1), Owns(protocol, flash.slot[p])
                 PROVE  \E e \in 1..Len(M) : M[e] = flash.slot[p]
      OBVIOUS
    <3>1. CASE p \in 1..n
      BY <1>3, <2>2, <2>4, <3>1
    <3>2. CASE p = n + 1
      BY <2>2, <2>4, <3>2
    <3> QED
      BY <1>4, <3>1, <3>2
  <2>7. \A e \in 1..Len(L) : L[e].index # rec.index
    <3> SUFFICES ASSUME NEW e \in 1..Len(L) PROVE L[e].index # rec.index
      OBVIOUS
    <3>1. PICK p \in 1..n : L[e] = flash.slot[p]
      BY <1>3
    <3>2. p \in 1..(n + 1) /\ n + 1 \in 1..(n + 1) /\ p # n + 1
      BY <1>5
    <3> QED
      BY <3>1, <3>2 DEF ReadableUpto
  <2>8. \A e, d \in 1..Len(M) : M[e].index = M[d].index => e = d
    BY <1>3, <2>2, <2>3, <2>7
  <2> QED
    BY <2>2, <2>5, <2>6, <2>8 DEF OwnInv, M
<1> QED
  BY <1>6, <1>7

LEMMA OwnCorrect ==
    ASSUME flash \in Region, NEW protocol, ReadableUpto(flash, Num(flash))
    PROVE  OwnInv(Num(flash), protocol)
<1> DEFINE S == {n \in Nat : n <= Num(flash) => OwnInv(n, protocol)}
<1>0. Num(flash) \in 0..MaxNetworks /\ Num(flash) \in Nat /\ 0 \in 0..MaxNetworks
  BY NumType, IndexesAre
<1>1. 0 \in S
  <2>1. Own(protocol)[0] = <<>>
    BY <1>0, OwnDef
  <2>2. OwnInv(0, protocol)
    BY <2>1, EmptySeq DEF OwnInv
  <2> QED
    BY <2>2
<1>2. ASSUME NEW n \in Nat, n \in S PROVE n + 1 \in S
  <2>1. CASE n + 1 <= Num(flash)
    <3>1. n + 1 \in 1..MaxNetworks /\ OwnInv(n, protocol) /\ n + 1 \in Nat
      BY <1>0, <1>2, <2>1, IndexesAre
    <3>2. ReadableUpto(flash, n + 1)
      BY <1>0, <2>1, <3>1, ReadableLess
    <3>3. OwnInv(n + 1, protocol)
      BY <3>1, <3>2, OwnStep
    <3> QED
      BY <3>3
  <2> QED
    BY <2>1
<1> HIDE DEF S
<1>3. Nat \subseteq S
  BY <1>1, <1>2, NatInductionSet
<1> QED
  BY <1>0, <1>3 DEF S

(* A lookup under an index and protocol, and what the loop fills in.       *)
LEMMA LookupListed ==
    ASSUME TypeInv, ReadInv, NEW protocol
    PROVE  LET L == Own(protocol)[Num(flash)]
           IN /\ \A e \in 1..Len(L) : /\ L[e].index \in 1..MaxNetworks
                                      /\ Lookup(L[e].index, protocol) = <<L[e]>>
              /\ \A i \in 1..MaxNetworks : Lookup(i, protocol) # <<>> =>
                    \E e \in 1..Len(L) : L[e].index = i
<1> DEFINE L == Own(protocol)[Num(flash)]
<1>1. flash \in Region /\ ReadableUpto(flash, Num(flash)) /\ Num(flash) \in 0..MaxNetworks
  BY TypeInvIs, NumType DEF ReadInv
<1>2. OwnInv(Num(flash), protocol)
  BY <1>1, OwnCorrect
<1>3. /\ \A e \in 1..Len(L) : \E p \in 1..Num(flash) :
            L[e] = flash.slot[p] /\ Owns(protocol, flash.slot[p])
      /\ \A p \in 1..Num(flash) : Owns(protocol, flash.slot[p]) =>
            \E e \in 1..Len(L) : L[e] = flash.slot[p]
  BY <1>2 DEF OwnInv
<1> HIDE DEF L
<1>4. ASSUME NEW e \in 1..Len(L)
      PROVE  L[e].index \in 1..MaxNetworks /\ Lookup(L[e].index, protocol) = <<L[e]>>
  <2>1. PICK p \in 1..Num(flash) : L[e] = flash.slot[p] /\ Owns(protocol, flash.slot[p])
    BY <1>3
  <2>2. p \in 1..MaxNetworks
    BY <1>1, IndexesAre
  <2>3. L[e].index \in 1..MaxNetworks
    BY <1>1, <2>1, <2>2, SlotType, IndexesAre DEF ReadableUpto
  <2> DEFINE i == L[e].index
             hits == {q \in 1..Num(flash) :
                        flash.slot[q].index = i /\ Owns(protocol, flash.slot[q])}
  <2>4. p \in hits
    BY <2>1
  <2>5. Found(i, protocol) \in hits /\ Found(i, protocol) # 0
    BY <1>1, <2>4, FoundAt
  <2>6. Found(i, protocol) = p
    BY <1>1, <2>1, <2>5 DEF ReadableUpto
  <2>7. i # 0
    BY <2>3, IndexesAre
  <2> HIDE DEF i, hits
  <2>8. Lookup(i, protocol) = <<flash.slot[p]>>
    BY <2>5, <2>6, <2>7 DEF Lookup
  <2> QED
    BY <2>1, <2>3, <2>8 DEF i
<1>5. ASSUME NEW i \in 1..MaxNetworks, Lookup(i, protocol) # <<>>
      PROVE  \E e \in 1..Len(L) : L[e].index = i
  <2>1. i # 0
    BY IndexesAre
  <2>2. Found(i, protocol) # 0
    BY <1>5, <2>1 DEF Lookup
  <2>3. PICK p \in 1..Num(flash) : flash.slot[p].index = i /\ Owns(protocol, flash.slot[p])
    BY <1>1, <2>2, FoundAt
  <2> QED
    BY <1>3, <2>3
<1> QED
  BY <1>4, <1>5 DEF L

LEMMA ListMatches ==
    ASSUME TypeInv, ReadInv, ViewInv
    PROVE  ListsWhatIsFound
<1> SUFFICES ASSUME view.op = "list"
             PROVE  LET found == {i \in 0..MaxNetworks : Lookup(i, view.protocol) # <<>>}
                    IN /\ Len(view.networks) = Cardinality(found)
                       /\ \A i \in found :
                            \E e \in DOMAIN view.networks :
                                Lookup(i, view.protocol) = <<view.networks[e]>>
  BY DEF ListsWhatIsFound
<1> DEFINE protocol == view.protocol
           L == Own(protocol)[Num(flash)]
           O == Onetime(protocol)
           M == L \o O
           found == {i \in 0..MaxNetworks : Lookup(i, protocol) # <<>>}
<1>0. MaxNetworks \in Nat
  BY IndexesAre
<1>1. view.networks = M
  BY ListedIs DEF ViewInv, Listed
<1>2. flash \in Region /\ ReadableUpto(flash, Num(flash))
      /\ ram \subseteq Networks \cup {NoNetwork}
  BY TypeInvIs DEF ReadInv
<1>3. /\ L \in Seq(Slot) /\ Len(L) \in Nat
      /\ \A e, d \in 1..Len(L) : L[e].index = L[d].index => e = d
  BY <1>2, OwnCorrect DEF OwnInv
<1>4. /\ \A e \in 1..Len(L) : /\ L[e].index \in 1..MaxNetworks
                              /\ Lookup(L[e].index, protocol) = <<L[e]>>
      /\ \A i \in 1..MaxNetworks : Lookup(i, protocol) # <<>> =>
            \E e \in 1..Len(L) : L[e].index = i
  BY LookupListed
<1>5. Lookup(0, protocol) = O
  BY DEF Lookup
<1>6. O \in Seq(Slot) /\ (O = <<>> \/ \E rec \in Slot : rec.index = 0 /\ O = <<rec>>)
  <2>1. O \in Seq(Slot) /\ (O = <<>> \/ \E net \in ram : O = <<[index |-> 0, key |-> net]>>)
    BY <1>2, OnetimeType
  <2> HIDE DEF O
  <2>2. \A net \in ram : [index |-> 0, key |-> net] \in Slot
    BY <1>0, <1>2 DEF Slot
  <2> QED
    BY <2>1, <2>2
<1> HIDE DEF protocol, L, O
<1>7. M \in Seq(Slot)
  BY <1>3, <1>6
<1>8. /\ \A e \in 1..Len(M) : M[e].index \in 0..MaxNetworks
                              /\ Lookup(M[e].index, protocol) = <<M[e]>>
      /\ \A e, d \in 1..Len(M) : M[e].index = M[d].index => e = d
      /\ \A i \in found : \E e \in 1..Len(M) : M[e].index = i
  <2>1. CASE O = <<>>
    <3>1. M = L
      BY <1>3, <2>1
    <3>2. \A i \in found : i \in 1..MaxNetworks
      BY <1>0, <1>5, <2>1
    <3>3. \A i \in 1..MaxNetworks : i \in 0..MaxNetworks
      BY <1>0
    <3> QED
      BY <1>3, <1>4, <3>1, <3>2, <3>3
  <2>2. CASE O # <<>>
    <3>1. PICK rec \in Slot : rec.index = 0 /\ O = <<rec>>
      BY <1>6, <2>2
    <3>2. /\ Len(M) = Len(L) + 1 /\ M[Len(L) + 1] = rec
          /\ \A e \in 1..Len(L) : M[e] = L[e]
      BY <1>3, <3>1
    <3>3. \A e \in 1..Len(M) : e \in 1..Len(L) \/ e = Len(L) + 1
      BY <1>3, <3>2
    <3>4. Len(L) + 1 \in 1..Len(M) /\ \A e \in 1..Len(L) : e \in 1..Len(M)
      BY <1>3, <3>2
    <3>5. \A i \in 1..MaxNetworks : i \in 0..MaxNetworks /\ i # 0
      BY <1>0
    <3>6. \A i \in 0..MaxNetworks : i = 0 \/ i \in 1..MaxNetworks
      BY <1>0
    <3>7. 0 \in 0..MaxNetworks
      BY <1>0
    <3>8. \A e \in 1..Len(M) : M[e].index \in 0..MaxNetworks
                               /\ Lookup(M[e].index, protocol) = <<M[e]>>
      BY <1>4, <1>5, <3>1, <3>2, <3>3, <3>5, <3>7
    <3>9. \A e, d \in 1..Len(M) : M[e].index = M[d].index => e = d
      BY <1>3, <1>4, <3>1, <3>2, <3>3, <3>5
    <3>10. \A i \in found : \E e \in 1..Len(M) : M[e].index = i
      <4> SUFFICES ASSUME NEW i \in found PROVE \E e \in 1..Len(M) : M[e].index = i
        OBVIOUS
      <4>1. CASE i = 0
        BY <3>1, <3>2, <3>4, <4>1
      <4>2. CASE i \in 1..MaxNetworks
        <5>1. PICK e \in 1..Len(L) : L[e].index = i
          BY <1>4, <4>2
        <5> QED
          BY <3>2, <3>4, <5>1
      <4> QED
        BY <3>6, <4>1, <4>2
    <3> QED
      BY <3>8, <3>9, <3>10
  <2> QED
    BY <2>1, <2>2
<1> HIDE DEF M
<1>9. ASSUME NEW e \in 1..Len(M) PROVE M[e].index \in found
  <2>1. <<M[e]>> # <<>>
    OBVIOUS
  <2>2. M[e].index \in 0..MaxNetworks /\ Lookup(M[e].index, protocol) = <<M[e]>>
    BY <1>8
  <2>3. Lookup(M[e].index, protocol) # <<>>
    BY <2>1, <2>2
  <2> QED
    BY <2>2, <2>3
<1>10. Len(M) = Cardinality(found)
  <2> HIDE DEF found
  <2> QED
    BY <1>7, <1>8, <1>9, CountByIndex
<1>11. \A i \in found : \E e \in 1..Len(M) : Lookup(i, protocol) = <<M[e]>>
  BY <1>8
<1>12. DOMAIN M = 1..Len(M)
  BY <1>7
<1> QED
  BY <1>1, <1>10, <1>11, <1>12 DEF protocol

(* What GetNetworkList shows is what GetNetworkByIndex finds, record for   *)
(* record and each once, of that protocol only and the onetime network     *)
(* with them, unless a read of the flash file failed.                      *)
THEOREM NetworkListCorrect == Spec => []ListsWhatIsFound
<1>1. ViewStore => ListsWhatIsFound
  <2> SUFFICES ASSUME ViewStore, ~ListsWhatIsFound PROVE FALSE
    OBVIOUS
  <2>1. Never("read")
    BY DEF ListsWhatIsFound, Never
  <2> QED
    BY <2>1, ListMatches DEF ViewStore, KeptInv
<1> QED
  BY <1>1, ViewStoreInvariance, PTL

-----------------------------------------------------------------------------
(* Part 2: the wallets *)

AnyStep == [field : Fields \cup {"none", "all"}, fails : BOOLEAN, zero : BOOLEAN]

(* Step m of a program is the last one that sets the field f.              *)
Decides(steps, m, f) ==
    /\ m \in 1..Len(steps)
    /\ steps[m].field \in {f, "all"}
    /\ \A j \in (m + 1)..Len(steps) : steps[j].field \notin {f, "all"}

(* The programs of XTxInit: the fields that it has arguments for are set,  *)
(* and all others but the nonce are zero.                                  *)
Delivers(steps, promised) ==
    /\ steps \in Seq(AnyStep)
    /\ \A f \in Fields \ {"nonce"} :
         \E m \in 1..Len(steps) :
            Decides(steps, m, f) /\ (steps[m].zero <=> f \notin promised)

(* The programs of transfers and contract functions: data is always set or *)
(* cleared, and no field is set that the caller does not know of.          *)
Fulfils(steps, wished) ==
    /\ steps \in Seq(AnyStep)
    /\ \A f \in wished \cup {"data"} :
         \E m \in 1..Len(steps) :
            Decides(steps, m, f) /\ (steps[m].zero <=> f \notin wished)
    /\ \A j \in 1..Len(steps) : steps[j].field \in wished \cup {"data", "none"}

(* The steps of XTxSetNonce and the like: one field, and data that is set  *)
(* is the application's.                                                   *)
Setter(step) ==
    /\ step \in AnyStep /\ step.field \in Fields
    /\ step.field = "data" /\ ~step.zero => step = Given("data")

(* The fields hold what the application believes them to hold, and the     *)
(* data that it believes to be in the tx is in storage that it keeps.      *)
Believed ==
    /\ \A f \in Fields : want[f] # Unknown => tx[f] = want[f]
    /\ want["data"] # Unknown => want["data"] \in storage \cup {0}

(* A wallet has a block of its own, and parts that only http2 wallets have *)
(* to no other.                                                            *)
PartsHeld ==
    /\ wallet # NoWallet => "wallet" \in wallet.holds
    /\ wallet.protocol \in Web3Protocols => "network" \notin wallet.holds

(* The types of what the calls that allocate and free change.              *)
MemoryTyped ==
    /\ DOMAIN wallet = {"protocol", "id", "holds"}
    /\ wallet.id \in 0..calls /\ wallet.holds \subseteq Kinds
    /\ DOMAIN txs = Txs
    /\ \A t \in Txs : /\ DOMAIN txs[t] = DOMAIN NoTx
                      /\ txs[t].wallet \in 0..calls
                      /\ txs[t].strings \subseteq Strings \X (1..calls)
                      /\ txs[t].unset \subseteq Strings
    /\ heap \subseteq Block
    /\ orphans \subseteq 1..calls

(* Sending relies on Believed, and Believed on the types alone; the blocks *)
(* are a matter of their own, and rely on each file freeing what its       *)
(* wallets hold.                                                           *)
WalletInv ==
    WalletsTypeOK /\ HeapBalanced /\ PartsHeld /\ Believed /\ SentAsAsked

-----------------------------------------------------------------------------
(* Lemmas about programs *)

(* The steps, by their field and by what they leave in it.                 *)
LEMMA StepMade ==
    ASSUME NEW f
    PROVE  /\ Given(f).field = f /\ Given(f).zero = FALSE
           /\ Asked(f).field = f /\ Asked(f).zero = FALSE
           /\ Parsed(f).field = f /\ Parsed(f).zero = FALSE
           /\ Random(f).field = f /\ Random(f).zero = FALSE
           /\ Cleared(f).field = f /\ Cleared(f).zero = TRUE
           /\ Check.field = "none" /\ Check.zero = FALSE
           /\ Zero.field = "all" /\ Zero.zero = TRUE
  BY DEF Given, Asked, Parsed, Random, Cleared, Check, Zero, Step

(* The step that decides on a field gives it its value.                    *)
LEMMA AfterDecided ==
    \A steps \in Seq(AnyStep) : \A f \in Fields : \A m \in 1..Len(steps) :
        Decides(steps, m, f) =>
            \A fields : \A n \in Nat :
                /\ steps[m].zero => After(fields, steps, n)[f] = 0
                /\ ~steps[m].zero => After(fields, steps, n)[f] = n
<1> SUFFICES ASSUME NEW steps \in Seq(AnyStep), NEW f \in Fields,
                    NEW m \in 1..Len(steps), Decides(steps, m, f),
                    NEW fields, NEW n \in Nat
             PROVE  /\ steps[m].zero => After(fields, steps, n)[f] = 0
                    /\ ~steps[m].zero => After(fields, steps, n)[f] = n
  OBVIOUS
<1> DEFINE sets == {j \in DOMAIN steps : steps[j].field \in {f, "all"}}
<1>1. DOMAIN steps = 1..Len(steps) /\ Len(steps) \in Nat
  OBVIOUS
<1>2. m \in sets /\ \A j \in sets : m >= j
  BY <1>1 DEF Decides
<1>3. sets \subseteq Int
  BY <1>1
<1> HIDE DEF sets
<1>4. \A x \in sets : (\A y \in sets : x >= y) => x = m
  BY <1>2, <1>3
<1>5. Max(sets) = m
  BY <1>2, <1>4 DEF Max
<1>6. sets # {}
  BY <1>2
<1>7. After(fields, steps, n)[f] =
        IF sets = {} THEN fields[f] ELSE IF steps[Max(sets)].zero THEN 0 ELSE n
  BY DEF After, sets
<1> QED
  BY <1>5, <1>6, <1>7

(* A field that no step sets is as it was.                                 *)
LEMMA AfterUntouched ==
    \A steps \in Seq(AnyStep) : \A f \in Fields :
        (\A j \in 1..Len(steps) : steps[j].field \notin {f, "all"}) =>
            \A fields : \A n \in Nat : After(fields, steps, n)[f] = fields[f]
<1> SUFFICES ASSUME NEW steps \in Seq(AnyStep), NEW f \in Fields,
                    \A j \in 1..Len(steps) : steps[j].field \notin {f, "all"},
                    NEW fields, NEW n \in Nat
             PROVE  After(fields, steps, n)[f] = fields[f]
  OBVIOUS
<1> DEFINE sets == {j \in DOMAIN steps : steps[j].field \in {f, "all"}}
<1>1. DOMAIN steps = 1..Len(steps)
  OBVIOUS
<1>2. sets = {}
  BY <1>1
<1>3. After(fields, steps, n)[f] =
        IF sets = {} THEN fields[f] ELSE IF steps[Max(sets)].zero THEN 0 ELSE n
  BY DEF After
<1> QED
  BY <1>2, <1>3

(* The fields are numbers of calls, whatever the program does.             *)
LEMMA AfterTyped ==
    ASSUME NEW c \in Nat, NEW fields \in [Fields -> 0..c], NEW steps
    PROVE  After(fields, steps, c + 1) \in [Fields -> 0..(c + 1)]
<1> SUFFICES ASSUME NEW f \in Fields
             PROVE  LET sets == {j \in DOMAIN steps : steps[j].field \in {f, "all"}}
                    IN  (IF sets = {} THEN fields[f]
                         ELSE IF steps[Max(sets)].zero THEN 0 ELSE c + 1)
                            \in 0..(c + 1)
  BY DEF After
<1>1. fields[f] \in 0..(c + 1) /\ 0 \in 0..(c + 1) /\ c + 1 \in 0..(c + 1)
  OBVIOUS
<1> QED
  BY <1>1

(* A program that ends early has done the steps before the one that fails. *)
LEMMA BeginsWith ==
    ASSUME NEW steps \in Seq(AnyStep), NEW k \in Ends(steps)
    PROVE  /\ k \in 0..Len(steps)
           /\ SubSeq(steps, 1, k) \in Seq(AnyStep)
           /\ Len(SubSeq(steps, 1, k)) = k
           /\ \A j \in 1..k : SubSeq(steps, 1, k)[j] = steps[j]
           /\ k = Len(steps) => SubSeq(steps, 1, k) = steps
<1>1. Len(steps) \in Nat /\ DOMAIN steps = 1..Len(steps)
  OBVIOUS
<1>2. k \in 0..Len(steps)
  BY <1>1 DEF Ends
<1>3. SubSeq(steps, 1, k) \in Seq(AnyStep) /\ Len(SubSeq(steps, 1, k)) = k
  BY <1>1, <1>2
<1>4. \A j \in 1..k : SubSeq(steps, 1, k)[j] = steps[j]
  BY <1>1, <1>2
<1>5. ASSUME k = Len(steps) PROVE SubSeq(steps, 1, k) = steps
  BY <1>1, <1>3, <1>4, <1>5, SeqEqual
<1> QED
  BY <1>2, <1>3, <1>4, <1>5

-----------------------------------------------------------------------------
(* Lemmas about calls: what any of the ten wallets does *)

(* The calls are counted up to the bound.                                  *)
LEMMA CallCounted ==
    ASSUME WalletsTypeOK, Called
    PROVE  /\ calls \in Nat /\ calls' = calls + 1 /\ calls' \in 1..MaxCalls
           /\ calls' \in 0..MaxCalls /\ 0..calls \subseteq 0..calls'
           /\ 1..calls \subseteq 1..calls' /\ calls' \in 1..calls'
           /\ calls' \in 0..calls' /\ calls' # 0 /\ calls' # Unknown
           /\ calls' \notin 0..calls
  BY WalletAssumption DEF WalletsTypeOK, Called, Unknown

(* A string is not a part of a wallet.                                     *)
LEMMA KindNames ==
    /\ \A k \in Strings : k \notin Kinds
    /\ "wallet" \in Kinds /\ "rpc" \in Kinds
    /\ "wallet" \notin Strings /\ "rpc" \notin Strings
  BY DEF Kinds, Strings

(* The blocks of this call: no earlier one has its number.                 *)
LEMMA BlocksMade ==
    ASSUME WalletsTypeOK, Called, NEW kinds
    PROVE  /\ Blocks(kinds) = {<<k, calls'>> : k \in kinds}
           /\ kinds \subseteq Strings => Blocks(kinds) \subseteq Strings \X (1..calls')
           /\ kinds \subseteq Kinds \cup Strings => Blocks(kinds) \subseteq Block'
           /\ \A b \in Blocks(kinds) : b[1] \in kinds /\ b[2] = calls'
           /\ \A b \in Strings \X (1..calls) : b \notin Blocks(kinds)
           /\ \A b \in heap : b \notin Blocks(kinds)
<1>1. calls' = calls + 1 /\ calls' \in 1..calls' /\ calls' \notin 1..calls
  BY CallCounted DEF WalletsTypeOK
<1>2. Blocks(kinds) = {<<k, calls'>> : k \in kinds}
  BY <1>1 DEF Blocks
<1>3. Block' = (Kinds \cup Strings) \X (1..calls')
  BY DEF Block
<1>4. \A b \in heap : b[2] \in 1..calls
  BY DEF WalletsTypeOK, Block
<1> QED
  BY <1>1, <1>2, <1>3, <1>4

(* What is typed stays so.                                                 *)
LEMMA BlocksGrow ==
    ASSUME WalletsTypeOK, Called
    PROVE  /\ Block \subseteq Block' /\ heap \subseteq Block'
           /\ Strings \X (1..calls) \subseteq Strings \X (1..calls')
           /\ 0..calls \subseteq 0..calls' /\ 1..calls \subseteq 1..calls'
           /\ calls' \in 1..calls' /\ calls' \in 0..calls' /\ 0 \in 0..calls'
<1>1. 0..calls \subseteq 0..calls' /\ 1..calls \subseteq 1..calls'
      /\ calls' \in 1..calls' /\ calls' \in 0..calls' /\ 0 \in 0..calls'
  BY CallCounted
<1>2. Block' = (Kinds \cup Strings) \X (1..calls')
  BY DEF Block
<1>3. Block = (Kinds \cup Strings) \X (1..calls)
  BY DEF Block
<1> QED
  BY <1>1, <1>2, <1>3 DEF WalletsTypeOK

(* What a call that leaves the blocks alone has to keep.                   *)
LEMMA FieldsKeep ==
    ASSUME WalletInv, UNCHANGED memory, calls' \in Nat,
           calls' = calls \/ Called,
           tx' \in [Fields -> 0..calls'], sync' \in BOOLEAN,
           storage' \subseteq 1..calls',
           want' \in [Fields -> {Unknown} \cup 0..calls'], last' \in Results,
           Believed', SentAsAsked'
    PROVE  WalletInv'
<1>1. calls' \in 0..MaxCalls /\ 1..calls \subseteq 1..calls' /\ 0..calls \subseteq 0..calls'
  BY CallCounted DEF WalletInv, WalletsTypeOK
<1>2. wallet' = wallet /\ txs' = txs /\ heap' = heap /\ orphans' = orphans
  BY DEF memory
<1>3. MemoryTyped'
  BY <1>1, <1>2 DEF WalletInv, WalletsTypeOK, MemoryTyped, Block
<1>4. WalletsTypeOK'
  BY <1>1, <1>3 DEF WalletsTypeOK, MemoryTyped
<1>5. HeapBalanced' /\ PartsHeld'
  BY <1>2 DEF WalletInv, HeapBalanced, PartsHeld, InUse, Alive, PartsOf
<1> QED
  BY <1>4, <1>5 DEF WalletInv

(* What a call that leaves the fields alone has to keep.                   *)
LEMMA BlocksKeep ==
    ASSUME WalletInv, Called, UNCHANGED <<tx, sync, posted>>,
           \/ UNCHANGED <<storage, want>>
           \/ want' = Nothing /\ storage' \in {storage, {}},
           MemoryTyped', PartsHeld', last' \in Results, HeapBalanced'
    PROVE  WalletInv'
<1>1. Nothing \in [Fields -> {Unknown} \cup 0..calls'] /\ "data" \in Fields
  BY DEF Nothing, Fields
<1>2. WalletsTypeOK'
  <2>1. calls' \in 0..MaxCalls /\ 1..calls \subseteq 1..calls'
        /\ 0..calls \subseteq 0..calls'
    BY CallCounted DEF WalletInv
  <2>2. tx' \in [Fields -> 0..calls'] /\ sync' \in BOOLEAN /\ storage' \subseteq 1..calls'
    BY <2>1 DEF WalletInv, WalletsTypeOK
  <2>3. want' \in [Fields -> {Unknown} \cup 0..calls']
    BY <1>1, <2>1 DEF WalletInv, WalletsTypeOK
  <2> QED
    BY <2>1, <2>2, <2>3 DEF WalletsTypeOK, MemoryTyped
<1>3. Believed'
  BY <1>1 DEF WalletInv, Believed, Nothing
<1>4. SentAsAsked'
  BY DEF WalletInv, SentAsAsked
<1> QED
  BY <1>2, <1>3, <1>4 DEF WalletInv

(* Undefined behaviour ends the program and with it all that it holds.     *)
LEMMA DiesKeeps ==
    ASSUME WalletInv, Called, Dies PROVE WalletInv'
<1>1. /\ UNCHANGED <<orphans, tx, sync, posted>> /\ storage' = {} /\ want' = Nothing
      /\ txs' = [t \in Txs |-> NoTx] /\ heap' = {} /\ wallet' = NoWallet
      /\ last' = "none" /\ WalletsTypeOK
  BY DEF Dies, WalletInv
<1>2. orphans' \subseteq 1..calls' /\ calls' \in Nat
  BY <1>1, CallCounted DEF WalletsTypeOK
<1>3. /\ DOMAIN NoWallet = {"protocol", "id", "holds"} /\ NoWallet.id = 0
      /\ NoWallet.holds = {} /\ NoWallet' = NoWallet
      /\ NoTx.strings = {} /\ NoTx.wallet = 0 /\ NoTx.unset = Strings
  BY DEF NoWallet, NoTx
<1>4. DOMAIN txs' = Txs /\ (\A t \in Txs : txs'[t] = NoTx) /\ 0 \in 0..calls'
  BY <1>1, <1>2
<1>5. MemoryTyped'
  BY <1>1, <1>2, <1>3, <1>4 DEF MemoryTyped
<1>6. PartsHeld'
  BY <1>1, <1>3 DEF PartsHeld
<1>7. HeapBalanced'
  BY <1>1, <1>3, <1>4 DEF HeapBalanced, Alive
<1> QED
  BY <1>1, <1>5, <1>6, <1>7, BlocksKeep DEF Results

(* XWalletInit: what a failure leaves behind has the number of a call that *)
(* failed.                                                                 *)
LEMMA WalletInitKeeps ==
    ASSUME NEW protocol, NEW wallets, NEW gone, NEW leaves,
           \A kinds \in wallets \cup leaves : kinds \subseteq Kinds,
           \A kinds \in wallets : "wallet" \in kinds,
           \A kinds \in leaves : "rpc" \notin kinds,
           protocol \in Web3Protocols => \A kinds \in wallets : "network" \notin kinds,
           gone \subseteq {"rpc"},
           WalletInv, WalletInit(protocol, wallets, gone, leaves)
    PROVE  WalletInv'
<1>1. Called /\ wallet = NoWallet /\ NoWallet.id = 0 /\ NoWallet.holds = {}
      /\ WalletsTypeOK /\ HeapBalanced
  BY DEF WalletInit, WalletInv, NoWallet
<1>2. ~Alive
  BY <1>1 DEF Alive, WalletsTypeOK, Block
<1>3. CASE \E kinds \in wallets, freed \in SUBSET gone :
             /\ wallet' = [protocol |-> protocol, id |-> calls', holds |-> kinds]
             /\ heap' = heap \cup Blocks(kinds \ freed)
             /\ last' = "success"
             /\ UNCHANGED <<txs, orphans, tx, sync, storage, want, posted>>
  <2>1. PICK kinds \in wallets, freed \in SUBSET gone :
             /\ wallet' = [protocol |-> protocol, id |-> calls', holds |-> kinds]
             /\ heap' = heap \cup Blocks(kinds \ freed)
             /\ last' = "success"
             /\ UNCHANGED <<txs, orphans, tx, sync, storage, want, posted>>
    BY <1>3
  <2>2. /\ DOMAIN wallet' = {"protocol", "id", "holds"} /\ wallet'.id = calls'
        /\ wallet'.holds = kinds /\ wallet'.protocol = protocol
    BY <2>1
  <2>3. kinds \subseteq Kinds /\ "wallet" \in kinds \ freed /\ kinds \ {"rpc"} \subseteq kinds \ freed
    BY <2>1
  <2>4. Blocks(kinds) = {<<k, calls'>> : k \in kinds}
        /\ Blocks(kinds \ freed) = {<<k, calls'>> : k \in kinds \ freed}
        /\ Blocks(kinds \ freed) \subseteq Block'
    <3>1. kinds \ freed \subseteq Kinds \cup Strings
      BY <2>3
    <3> QED
      BY <1>1, <3>1, BlocksMade
  <2>5. Alive' /\ PartsOf(wallet.holds)' = Blocks(kinds)
        /\ PartsOf(wallet.holds \ {"rpc"})' \subseteq Blocks(kinds \ freed)
    <3>1. PartsOf(wallet.holds)' = {<<k, calls'>> : k \in kinds}
      BY <2>2 DEF PartsOf
    <3>2. PartsOf(wallet.holds \ {"rpc"})' = {<<k, calls'>> : k \in kinds \ {"rpc"}}
      BY <2>2 DEF PartsOf
    <3>3. <<"wallet", calls'>> \in heap'
      BY <2>1, <2>3, <2>4
    <3> QED
      BY <2>2, <2>3, <2>4, <3>1, <3>2, <3>3 DEF Alive
  <2>6. HeapBalanced'
    <3>1. heap' = heap \cup Blocks(kinds \ freed) /\ Blocks(kinds \ freed) \subseteq Blocks(kinds)
          /\ txs' = txs /\ orphans' = orphans
      BY <2>1, <2>4
    <3>2. InUse = UNION {txs[t].strings : t \in Txs}
          /\ InUse' = Blocks(kinds) \cup UNION {txs[t].strings : t \in Txs}
      BY <1>2, <2>5, <3>1 DEF InUse
    <3>3. \A b \in heap' \ InUse' : b \in heap \ InUse
      BY <3>1, <3>2
    <3>4. \A b \in heap' \ InUse' : b[2] \in orphans' /\ b[1] # "rpc"
      BY <1>1, <3>1, <3>3 DEF HeapBalanced
    <3>5. \A t \in Txs :
            /\ txs'[t].strings \subseteq heap'
            /\ \A u \in Txs \ {t} : txs'[t].strings \cap txs'[u].strings = {}
      BY <1>1, <3>1 DEF HeapBalanced
    <3>6. Alive' /\ PartsOf(wallet.holds \ {"rpc"})' \subseteq heap'
      BY <2>5, <3>1
    <3> QED
      BY <3>4, <3>5, <3>6 DEF HeapBalanced
  <2>7. MemoryTyped' /\ PartsHeld'
    <3>1. heap' \subseteq Block'
      BY <1>1, <2>1, <2>4, BlocksGrow
    <3>2. txs' = txs /\ orphans' = orphans
      BY <2>1
    <3> QED
      BY <1>1, <2>2, <2>3, <3>1, <3>2, BlocksGrow DEF MemoryTyped, PartsHeld, WalletsTypeOK
  <2> QED
    BY <1>1, <2>1, <2>6, <2>7, BlocksKeep DEF Results
<1>4. CASE \E kinds \in leaves :
             /\ heap' = heap \cup Blocks(kinds)
             /\ orphans' = orphans \cup {calls'}
             /\ last' = "error"
             /\ UNCHANGED <<wallet, txs, tx, sync, storage, want, posted>>
  <2>1. PICK kinds \in leaves :
             /\ heap' = heap \cup Blocks(kinds)
             /\ orphans' = orphans \cup {calls'}
             /\ last' = "error"
             /\ UNCHANGED <<wallet, txs, tx, sync, storage, want, posted>>
    BY <1>4
  <2>2. Blocks(kinds) \subseteq Block' /\ \A b \in Blocks(kinds) : b[1] # "rpc" /\ b[2] = calls'
    <3>1. kinds \subseteq Kinds \cup Strings /\ "rpc" \notin kinds
      BY <2>1
    <3> QED
      BY <1>1, <3>1, BlocksMade
  <2>3. MemoryTyped' /\ PartsHeld'
    <3>1. heap' \subseteq Block'
      BY <1>1, <2>1, <2>2, BlocksGrow
    <3>2. txs' = txs /\ orphans' = orphans \cup {calls'} /\ wallet' = wallet
      BY <2>1
    <3> QED
      BY <1>1, <3>1, <3>2, BlocksGrow DEF MemoryTyped, PartsHeld, WalletsTypeOK, WalletInv
  <2>4. ~Alive'
    BY <1>1, <2>1, <2>3 DEF Alive, MemoryTyped, Block
  <2>5. HeapBalanced'
    BY <1>1, <1>2, <2>1, <2>2, <2>4 DEF HeapBalanced, InUse
  <2> QED
    BY <1>1, <2>1, <2>3, <2>5, BlocksKeep DEF Results
<1>5. CASE Dies
  BY <1>1, <1>5, DiesKeeps
<1> QED
  BY <1>3, <1>4, <1>5 DEF WalletInit

(* What a release frees are all the parts of the wallet, and no strings.   *)
LEMMA PartsReleased ==
    ASSUME WalletsTypeOK, NEW frees, wallet.holds \subseteq frees
    PROVE  /\ PartsOf(wallet.holds \cap frees) = PartsOf(wallet.holds)
           /\ \A b \in PartsOf(wallet.holds) : b[1] \in Kinds
           /\ \A b \in Strings \X (1..calls) : b \notin PartsOf(wallet.holds)
           /\ "wallet" \in wallet.holds => <<"wallet", wallet.id>> \in PartsOf(wallet.holds)
<1>1. wallet.holds \cap frees = wallet.holds
  OBVIOUS
<1>2. \A b \in PartsOf(wallet.holds) : b[1] \in Kinds
  BY DEF PartsOf, WalletsTypeOK
<1>3. \A b \in Strings \X (1..calls) : b[1] \notin Kinds
  BY KindNames
<1>4. "wallet" \in wallet.holds => <<"wallet", wallet.id>> \in PartsOf(wallet.holds)
  BY DEF PartsOf
<1> QED
  BY <1>1, <1>2, <1>3, <1>4

(* XWalletDeInit frees what the wallet is made of, and no more.            *)
LEMMA WalletDeInitKeeps ==
    ASSUME NEW protocol, NEW frees, wallet.holds \subseteq frees,
           WalletInv, WalletDeInit(protocol, frees)
    PROVE  WalletInv'
<1>1. Called /\ WalletsTypeOK /\ HeapBalanced /\ PartsHeld
  BY DEF WalletDeInit, WalletInv
<1>2. CASE /\ heap' = heap \ PartsOf(wallet.holds \cap frees)
           /\ wallet' = NoWallet
           /\ want' = Nothing
           /\ last' = "none"
           /\ UNCHANGED <<txs, orphans, tx, sync, storage, posted>>
  <2>1. heap' = heap \ PartsOf(wallet.holds)
        /\ \A b \in Strings \X (1..calls) : b \notin PartsOf(wallet.holds)
    BY <1>1, <1>2, PartsReleased
  <2>2. /\ DOMAIN wallet' = {"protocol", "id", "holds"} /\ wallet'.id = 0
        /\ wallet'.holds = {} /\ wallet' = NoWallet /\ txs' = txs /\ orphans' = orphans
    BY <1>2 DEF NoWallet
  <2>3. MemoryTyped' /\ PartsHeld'
    <3>1. heap' \subseteq Block'
      BY <1>1, <2>1, BlocksGrow
    <3>2. NoWallet' = NoWallet
      BY DEF NoWallet
    <3> QED
      BY <1>1, <2>2, <3>1, <3>2, BlocksGrow DEF MemoryTyped, PartsHeld, WalletsTypeOK
  <2>4. ~Alive'
    BY <2>2, <2>3 DEF Alive, MemoryTyped, Block
  <2>5. HeapBalanced'
    <3>1. ASSUME NEW b \in heap' \ InUse' PROVE b[2] \in orphans /\ b[1] # "rpc"
      <4>1. b \in heap \ InUse
        BY <2>1, <2>2, <2>4, <3>1 DEF InUse
      <4> QED
        BY <1>1, <4>1 DEF HeapBalanced
    <3>2. \A t \in Txs : txs[t].strings \subseteq heap'
      BY <1>1, <2>1 DEF HeapBalanced, WalletsTypeOK
    <3> QED
      BY <1>1, <2>2, <2>4, <3>1, <3>2 DEF HeapBalanced
  <2> QED
    BY <1>1, <1>2, <2>3, <2>5, BlocksKeep DEF Results
<1>3. CASE Dies
  BY <1>1, <1>3, DiesKeeps
<1> QED
  BY <1>2, <1>3 DEF WalletDeInit

(* XTxInit of Fabric and HW-BCS: what the tx held and does not keep is     *)
(* lost, and has the number of the call that copied it.                    *)
LEMMA CopyStringsKeeps ==
    ASSUME NEW protocol, NEW given, \A names \in given : names \subseteq Strings,
           NEW kept, WalletInv, CopyStrings(protocol, given, kept)
    PROVE  WalletInv'
<1>1. Called /\ WalletsTypeOK /\ HeapBalanced /\ PartsHeld
  BY DEF CopyStrings, WalletInv
<1>2. CASE Dies
  BY <1>1, <1>2, DiesKeeps
<1>3. ASSUME NEW t \in Txs, NEW names \in given,
             /\ txs' = [txs EXCEPT ![t] =
                         [protocol |-> protocol,
                          wallet |-> wallet.id,
                          strings |-> Blocks(names) \cup
                                {b \in @.strings : b[1] \in kept \ names},
                          unset |-> (@.unset \cap kept) \ names]],
             heap' = heap \cup Blocks(names),
             orphans' = orphans \cup
                    {b[2] : b \in {c \in txs[t].strings : c[1] \notin kept \ names}},
             last' = "success",
             UNCHANGED <<wallet, tx, sync, storage, want, posted>>
      PROVE  WalletInv'
  <2> DEFINE keeps == {b \in txs[t].strings : b[1] \in kept \ names}
             loses == {c \in txs[t].strings : c[1] \notin kept \ names}
  <2>1. /\ DOMAIN txs' = Txs /\ \A u \in Txs \ {t} : txs'[u] = txs[u]
        /\ txs'[t].strings = Blocks(names) \cup keeps
        /\ txs'[t].wallet = wallet.id /\ DOMAIN txs'[t] = DOMAIN NoTx
        /\ txs'[t].unset = (txs[t].unset \cap kept) \ names
    <3>1. txs' = [txs EXCEPT ![t] =
                    [protocol |-> protocol, wallet |-> wallet.id,
                     strings |-> Blocks(names) \cup keeps,
                     unset |-> (txs[t].unset \cap kept) \ names]]
      BY <1>3
    <3>2. DOMAIN txs = Txs
      BY <1>1 DEF WalletsTypeOK
    <3>3. DOMAIN NoTx = {"protocol", "wallet", "strings", "unset"}
      BY DEF NoTx
    <3> HIDE DEF keeps
    <3> QED
      BY <3>1, <3>2, <3>3
  <2>2. /\ Blocks(names) \subseteq Strings \X (1..calls')
        /\ Blocks(names) \subseteq Block'
        /\ \A b \in Strings \X (1..calls) : b \notin Blocks(names)
        /\ <<"wallet", wallet.id>> \notin Blocks(names)
    <3>1. names \subseteq Strings /\ names \subseteq Kinds \cup Strings
      BY <1>3
    <3> QED
      BY <1>1, <3>1, BlocksMade, KindNames
  <2>3. /\ txs[t].strings \subseteq Strings \X (1..calls)
        /\ keeps \subseteq txs[t].strings /\ loses \subseteq txs[t].strings
        /\ txs[t].strings = keeps \cup loses
        /\ \A b \in loses : b[2] \in orphans' /\ b[2] \in 1..calls /\ b[1] # "rpc"
        /\ orphans \subseteq orphans'
    <3>1. txs[t].strings \subseteq Strings \X (1..calls)
      BY <1>1 DEF WalletsTypeOK
    <3>2. orphans' = orphans \cup {b[2] : b \in loses}
      BY <1>3
    <3>3. \A b \in Strings \X (1..calls) : b[2] \in 1..calls /\ b[1] # "rpc"
      BY KindNames
    <3> QED
      BY <3>1, <3>2, <3>3
  <2>4. orphans' \subseteq 1..calls
    <3>1. orphans' = orphans \cup {b[2] : b \in loses} /\ orphans \subseteq 1..calls
      BY <1>1, <1>3 DEF WalletsTypeOK
    <3> HIDE DEF loses
    <3> QED
      BY <2>3, <3>1
  <2>5. wallet' = wallet /\ heap' = heap \cup Blocks(names)
    BY <1>3
  <2> HIDE DEF keeps, loses
  <2>6. MemoryTyped' /\ PartsHeld'
    <3>1. heap' \subseteq Block'
      BY <1>1, <2>2, <2>5, BlocksGrow
    <3>2. txs'[t].strings \subseteq Strings \X (1..calls')
      BY <1>1, <2>1, <2>2, <2>3, BlocksGrow
    <3>3. wallet.id \in 0..calls' /\ orphans' \subseteq 1..calls'
          /\ txs'[t].unset \subseteq Strings
      BY <1>1, <2>1, <2>4, BlocksGrow DEF WalletsTypeOK
    <3>4. \A u \in Txs \ {t} : /\ DOMAIN txs'[u] = DOMAIN NoTx
                               /\ txs'[u].wallet \in 0..calls'
                               /\ txs'[u].strings \subseteq Strings \X (1..calls')
                               /\ txs'[u].unset \subseteq Strings
      BY <1>1, <2>1, BlocksGrow DEF WalletsTypeOK
    <3> QED
      BY <1>1, <2>1, <2>5, <3>1, <3>2, <3>3, <3>4
         DEF MemoryTyped, PartsHeld, WalletsTypeOK
  <2>7. (Alive' <=> Alive) /\ PartsOf(wallet.holds)' = PartsOf(wallet.holds)
        /\ PartsOf(wallet.holds \ {"rpc"})' = PartsOf(wallet.holds \ {"rpc"})
    BY <2>2, <2>5 DEF Alive, PartsOf
  <2>8. ASSUME NEW b \in heap' \ InUse' PROVE b[2] \in orphans' /\ b[1] # "rpc"
    <3>1. b \in heap /\ b \notin keeps
          /\ \A u \in Txs \ {t} : b \notin txs[u].strings
      BY <2>1, <2>5, <2>8 DEF InUse
    <3>2. Alive => b \notin PartsOf(wallet.holds)
      BY <2>7, <2>8 DEF InUse
    <3>3. CASE b \in loses
      BY <2>3, <3>3
    <3>4. CASE b \notin loses
      <4>1. b \notin InUse
        BY <2>3, <3>1, <3>2, <3>4 DEF InUse
      <4> QED
        BY <1>1, <2>3, <3>1, <4>1 DEF HeapBalanced
    <3> QED
      BY <3>3, <3>4
  <2>9. ASSUME NEW u \in Txs
        PROVE  /\ txs'[u].strings \subseteq heap'
               /\ \A v \in Txs \ {u} : txs'[u].strings \cap txs'[v].strings = {}
    <3>1. \A v \in Txs : /\ txs[v].strings \subseteq heap
                         /\ txs[v].strings \cap Blocks(names) = {}
                         /\ \A w \in Txs \ {v} : txs[v].strings \cap txs[w].strings = {}
      BY <1>1, <2>2 DEF HeapBalanced, WalletsTypeOK
    <3>2. txs'[u].strings \subseteq heap'
      BY <2>1, <2>3, <2>5, <3>1
    <3>3. ASSUME NEW v \in Txs \ {u} PROVE txs'[u].strings \cap txs'[v].strings = {}
      <4>1. CASE u = t
        BY <2>1, <2>3, <3>1, <4>1
      <4>2. CASE v = t
        BY <2>1, <2>3, <3>1, <4>2
      <4>3. CASE u # t /\ v # t
        BY <2>1, <3>1, <4>3
      <4> QED
        BY <4>1, <4>2, <4>3
    <3> QED
      BY <3>2, <3>3
  <2>10. wallet # NoWallet /\ ~Alive => \E u \in Txs : txs'[u].wallet = wallet.id
    BY <1>1, <2>1 DEF HeapBalanced
  <2>11. HeapBalanced'
    BY <1>1, <2>5, <2>7, <2>8, <2>9, <2>10 DEF HeapBalanced, NoWallet
  <2> QED
    BY <1>1, <1>3, <2>6, <2>11, BlocksKeep DEF Results
<1> QED
  BY <1>2, <1>3 DEF CopyStrings

(* XTxDeInit of Fabric and HW-BCS frees the strings and the wallet.        *)
LEMMA FreeStringsKeeps ==
    ASSUME NEW protocol, NEW texts, Strings \subseteq texts,
           NEW frees, wallet.holds \subseteq frees,
           WalletInv, FreeStrings(protocol, texts, frees)
    PROVE  WalletInv'
<1>1. Called /\ WalletsTypeOK /\ HeapBalanced /\ PartsHeld
  BY DEF FreeStrings, WalletInv
<1>2. CASE Dies
  BY <1>1, <1>2, DiesKeeps
<1>3. ASSUME NEW t \in Txs,
             Releasable(txs[t].wallet, frees),
             heap' = (heap \ {b \in txs[t].strings : b[1] \in texts})
                            \ PartsOf(wallet.holds \cap frees),
             txs' = [txs EXCEPT ![t].strings = {}, ![t].unset = {}],
             wallet' \in {wallet, NoWallet},
             want' = Nothing,
             last' = "none",
             UNCHANGED <<orphans, tx, sync, storage, posted>>
      PROVE  WalletInv'
  <2>1. /\ DOMAIN txs' = Txs /\ \A u \in Txs \ {t} : txs'[u] = txs[u]
        /\ txs'[t].strings = {} /\ txs'[t].unset = {}
        /\ txs'[t].wallet = txs[t].wallet /\ DOMAIN txs'[t] = DOMAIN NoTx
    <3>1. DOMAIN txs = Txs /\ DOMAIN txs[t] = DOMAIN NoTx
      BY <1>1 DEF WalletsTypeOK
    <3>2. DOMAIN NoTx = {"protocol", "wallet", "strings", "unset"}
      BY DEF NoTx
    <3> QED
      BY <1>3, <3>1, <3>2
  <2>2. /\ txs[t].strings \subseteq Strings \X (1..calls)
        /\ heap' = (heap \ txs[t].strings) \ PartsOf(wallet.holds)
        /\ \A b \in Strings \X (1..calls) : b \notin PartsOf(wallet.holds)
        /\ "wallet" \in wallet.holds => <<"wallet", wallet.id>> \in PartsOf(wallet.holds)
    <3>1. txs[t].strings \subseteq Strings \X (1..calls)
      BY <1>1 DEF WalletsTypeOK
    <3>2. {b \in txs[t].strings : b[1] \in texts} = txs[t].strings
      BY <3>1
    <3> QED
      BY <1>1, <1>3, <3>1, <3>2, PartsReleased
  <2>3. wallet.id = txs[t].wallet
    BY <1>3 DEF Releasable
  <2>4. /\ DOMAIN wallet' = {"protocol", "id", "holds"} /\ wallet'.id \in 0..calls'
        /\ wallet'.holds \subseteq Kinds
    <3>1. /\ DOMAIN NoWallet = {"protocol", "id", "holds"} /\ NoWallet.id = 0
          /\ NoWallet.holds = {}
      BY DEF NoWallet
    <3>2. /\ DOMAIN wallet = {"protocol", "id", "holds"} /\ wallet.id \in 0..calls'
          /\ wallet.holds \subseteq Kinds /\ 0 \in 0..calls'
      BY <1>1, BlocksGrow DEF WalletsTypeOK
    <3> QED
      BY <1>3, <3>1, <3>2
  <2>5. MemoryTyped'
    <3>1. heap' \subseteq Block' /\ orphans' \subseteq 1..calls'
      BY <1>1, <1>3, <2>2, BlocksGrow DEF WalletsTypeOK
    <3>2. \A u \in Txs \ {t} : /\ DOMAIN txs'[u] = DOMAIN NoTx
                               /\ txs'[u].wallet \in 0..calls'
                               /\ txs'[u].strings \subseteq Strings \X (1..calls')
                               /\ txs'[u].unset \subseteq Strings
      BY <1>1, <2>1, BlocksGrow DEF WalletsTypeOK
    <3>3. txs'[t].wallet \in 0..calls'
      BY <1>1, <2>1, BlocksGrow DEF WalletsTypeOK
    <3> QED
      BY <2>1, <2>4, <3>1, <3>2, <3>3 DEF MemoryTyped
  <2>6. PartsHeld'
    <3>1. NoWallet.holds = {} /\ NoWallet' = NoWallet
      BY DEF NoWallet
    <3> QED
      BY <1>1, <1>3, <3>1 DEF PartsHeld
  <2>7. ~Alive'
    <3>1. CASE wallet' = NoWallet
      BY <2>5, <3>1 DEF Alive, MemoryTyped, Block, NoWallet
    <3>2. CASE wallet' = wallet /\ wallet # NoWallet
      BY <1>1, <2>2, <3>2 DEF Alive, PartsHeld
    <3> QED
      BY <1>3, <3>1, <3>2
  <2>8. ASSUME NEW b \in heap' \ InUse' PROVE b[2] \in orphans /\ b[1] # "rpc"
    <3>1. b \in heap /\ b \notin txs[t].strings /\ b \notin PartsOf(wallet.holds)
          /\ \A u \in Txs \ {t} : b \notin txs[u].strings
      BY <2>1, <2>2, <2>8 DEF InUse
    <3>2. b \notin InUse
      BY <3>1 DEF InUse
    <3> QED
      BY <1>1, <3>1, <3>2 DEF HeapBalanced
  <2>9. ASSUME NEW u \in Txs
        PROVE  /\ txs'[u].strings \subseteq heap'
               /\ \A v \in Txs \ {u} : txs'[u].strings \cap txs'[v].strings = {}
    <3>1. \A v \in Txs : /\ txs[v].strings \subseteq heap
                         /\ txs[v].strings \cap PartsOf(wallet.holds) = {}
                         /\ \A w \in Txs \ {v} : txs[v].strings \cap txs[w].strings = {}
      BY <1>1, <2>2 DEF HeapBalanced, WalletsTypeOK
    <3> QED
      BY <2>1, <2>2, <3>1
  <2>10. wallet' # NoWallet => \E u \in Txs : txs'[u].wallet = wallet'.id
    BY <1>3, <2>1, <2>3
  <2>11. HeapBalanced'
    <3>1. NoWallet' = NoWallet /\ orphans' = orphans
      BY <1>3 DEF NoWallet
    <3> QED
      BY <2>7, <2>8, <2>9, <2>10, <3>1 DEF HeapBalanced
  <2> QED
    BY <1>1, <1>3, <2>5, <2>6, <2>11, BlocksKeep DEF Results
<1> QED
  BY <1>2, <1>3 DEF FreeStrings

(* Requests change nothing but what was returned last.                     *)
LEMMA AskKeeps ==
    ASSUME NEW protocol, WalletInv, Ask(protocol)
    PROVE  WalletInv'
<1>1. /\ UNCHANGED memory /\ last' \in {"success", "error"} /\ tx' = tx
      /\ sync' = sync /\ storage' = storage /\ want' = want /\ posted' = posted
      /\ calls' = calls
  BY DEF Ask
<1>2. /\ calls' \in Nat /\ tx' \in [Fields -> 0..calls'] /\ sync' \in BOOLEAN
      /\ storage' \subseteq 1..calls' /\ last' \in Results
      /\ want' \in [Fields -> {Unknown} \cup 0..calls']
  BY <1>1 DEF WalletInv, WalletsTypeOK, Results
<1>3. Believed' /\ SentAsAsked'
  BY <1>1 DEF WalletInv, Believed, SentAsAsked
<1> QED
  BY <1>1, <1>2, <1>3, FieldsKeep

(* XTxInit: whatever was in the fields before, and wherever the call ends. *)
LEMMA TxInitKeeps ==
    ASSUME NEW protocol, NEW promised \in SUBSET (Fields \ {"nonce", "data"}),
           NEW programs, \A steps \in programs : Delivers(steps, promised),
           WalletInv, TxInit(protocol, promised, programs)
    PROVE  WalletInv'
<1>1. Called /\ UNCHANGED memory /\ storage' = storage /\ posted' = posted
      /\ WalletsTypeOK
  BY DEF TxInit, WalletInv
<1>2. PICK steps \in programs : \E k \in Ends(steps) :
        /\ tx' = After(tx, SubSeq(steps, 1, k), calls')
        /\ sync' \in IF k = 0 THEN {sync} ELSE BOOLEAN
        /\ IF k = Len(steps)
           THEN /\ want' = [f \in Fields |->
                                IF f \in promised THEN calls'
                                ELSE IF f = "nonce" THEN Unknown ELSE 0]
                /\ last' = "success"
           ELSE want' = Nothing /\ last' = "error"
  BY DEF TxInit
<1>2a. PICK k \in Ends(steps) :
        /\ tx' = After(tx, SubSeq(steps, 1, k), calls')
        /\ sync' \in IF k = 0 THEN {sync} ELSE BOOLEAN
        /\ IF k = Len(steps)
           THEN /\ want' = [f \in Fields |->
                                IF f \in promised THEN calls'
                                ELSE IF f = "nonce" THEN Unknown ELSE 0]
                /\ last' = "success"
           ELSE want' = Nothing /\ last' = "error"
  BY <1>2
<1>3. calls \in Nat /\ calls' = calls + 1 /\ calls' \in Nat /\ calls' \in 0..calls'
      /\ 0 \in 0..calls' /\ 1..calls \subseteq 1..calls'
  BY <1>1, CallCounted
<1>4. tx' \in [Fields -> 0..calls']
  BY <1>1, <1>2a, <1>3, AfterTyped DEF WalletsTypeOK
<1>5. sync' \in BOOLEAN /\ storage' \subseteq 1..calls' /\ last' \in Results
  BY <1>1, <1>2a, <1>3 DEF WalletsTypeOK, Results
<1>6. SentAsAsked'
  BY <1>1 DEF WalletInv, SentAsAsked
<1>7. want' \in [Fields -> {Unknown} \cup 0..calls'] /\ Believed'
  <2>1. CASE k = Len(steps)
    <3>1. steps \in Seq(AnyStep) /\ SubSeq(steps, 1, k) = steps
      BY <1>2a, <2>1, BeginsWith DEF Delivers
    <3>2. tx' = After(tx, steps, calls')
      BY <1>2a, <3>1
    <3>3. want' = [f \in Fields |-> IF f \in promised THEN calls'
                                    ELSE IF f = "nonce" THEN Unknown ELSE 0]
      BY <1>2a, <2>1
    <3>4. ASSUME NEW f \in Fields, want'[f] # Unknown PROVE tx'[f] = want'[f]
      <4>1. f # "nonce" /\ want'[f] = IF f \in promised THEN calls' ELSE 0
        BY <3>3, <3>4
      <4>2. PICK m \in 1..Len(steps) :
                Decides(steps, m, f) /\ (steps[m].zero <=> f \notin promised)
        BY <4>1 DEF Delivers
      <4>3. tx'[f] = IF steps[m].zero THEN 0 ELSE calls'
        <5>1. \A fields : \A n \in Nat :
                /\ steps[m].zero => After(fields, steps, n)[f] = 0
                /\ ~steps[m].zero => After(fields, steps, n)[f] = n
          BY <3>1, <4>2, AfterDecided
        <5> QED
          BY <1>3, <3>2, <5>1
      <4> QED
        BY <4>1, <4>2, <4>3
    <3>5. "data" \in Fields \ promised /\ "data" # "nonce"
      BY DEF Fields
    <3>6. want'["data"] = 0
      BY <3>3, <3>5
    <3> QED
      BY <1>3, <3>3, <3>4, <3>6 DEF Believed
  <2>2. CASE k # Len(steps)
    <3>1. want' = Nothing /\ "data" \in Fields
      BY <1>2a, <2>2 DEF Fields
    <3> QED
      BY <3>1 DEF Believed, Nothing
  <2> QED
    BY <2>1, <2>2
<1> QED
  BY <1>1, <1>3, <1>4, <1>5, <1>6, <1>7, FieldsKeep

(* XTxSetNonce and the like: the other fields stay, and the storage of the *)
(* data is kept from the call on.                                          *)
LEMMA SetKeeps ==
    ASSUME NEW protocol, NEW steps, \A step \in steps : Setter(step),
           WalletInv, Set(protocol, steps)
    PROVE  WalletInv'
<1>1. Called /\ UNCHANGED memory /\ sync' = sync /\ posted' = posted /\ WalletsTypeOK
  BY DEF Set, WalletInv
<1>2. PICK step \in steps :
        \/ /\ tx' = After(tx, <<step>>, calls')
           /\ want' = [want EXCEPT ![step.field] = IF step.zero THEN 0 ELSE calls']
           /\ storage' = IF step = Given("data") THEN storage \cup {calls'}
                         ELSE storage
           /\ last' = "success"
        \/ /\ step.fails
           /\ want' = Forget({step.field})
           /\ last' = "error"
           /\ UNCHANGED <<tx, storage>>
  BY DEF Set
<1>3. calls \in Nat /\ calls' = calls + 1 /\ calls' \in Nat /\ calls' \in 0..calls'
      /\ 0 \in 0..calls' /\ 1..calls \subseteq 1..calls' /\ calls' \in 1..calls'
      /\ 0..calls \subseteq 0..calls'
  BY <1>1, CallCounted
<1>4. want \in [Fields -> {Unknown} \cup 0..calls] /\ "data" \in Fields
      /\ "all" \notin Fields /\ tx \in [Fields -> 0..calls]
      /\ storage \subseteq 1..calls
  BY <1>1 DEF WalletsTypeOK, Fields
<1>5. sync' \in BOOLEAN /\ last' \in Results
  BY <1>1, <1>2 DEF WalletsTypeOK, Results
<1>6. SentAsAsked'
  BY <1>1 DEF WalletInv, SentAsAsked
<1>7. step \in AnyStep /\ step.field \in Fields /\ step.zero \in BOOLEAN
      /\ (step.field = "data" /\ ~step.zero => step = Given("data"))
  BY DEF Setter, AnyStep
<1>8. CASE /\ tx' = After(tx, <<step>>, calls')
           /\ want' = [want EXCEPT ![step.field] = IF step.zero THEN 0 ELSE calls']
           /\ storage' = IF step = Given("data") THEN storage \cup {calls'}
                         ELSE storage
           /\ last' = "success"
  <2>1. tx' \in [Fields -> 0..calls']
    BY <1>3, <1>4, <1>8, AfterTyped
  <2>2. storage' \subseteq 1..calls' /\ storage \subseteq storage'
    BY <1>3, <1>4, <1>8
  <2>3. want' \in [Fields -> {Unknown} \cup 0..calls']
    BY <1>3, <1>4, <1>7, <1>8
  <2>4. want'[step.field] = IF step.zero THEN 0 ELSE calls'
    BY <1>4, <1>7, <1>8
  <2>5. \A f \in Fields \ {step.field} : want'[f] = want[f]
    BY <1>4, <1>8
  <2>6. <<step>> \in Seq(AnyStep) /\ Len(<<step>>) = 1 /\ <<step>>[1] = step
    BY <1>7
  <2>7. tx'[step.field] = IF step.zero THEN 0 ELSE calls'
    <3>1. Decides(<<step>>, 1, step.field) /\ 1 \in 1..Len(<<step>>)
      BY <2>6 DEF Decides
    <3>2. \A fields : \A n \in Nat :
            /\ <<step>>[1].zero => After(fields, <<step>>, n)[step.field] = 0
            /\ ~<<step>>[1].zero => After(fields, <<step>>, n)[step.field] = n
      BY <1>7, <2>6, <3>1, AfterDecided
    <3>3. tx' = After(tx, <<step>>, calls')
      BY <1>8
    <3> QED
      BY <1>3, <2>6, <3>2, <3>3
  <2>8. ASSUME NEW f \in Fields \ {step.field} PROVE tx'[f] = tx[f]
    <3>1. \A j \in 1..Len(<<step>>) : <<step>>[j].field \notin {f, "all"}
      BY <1>4, <1>7, <2>6
    <3>2. \A fields : \A n \in Nat : After(fields, <<step>>, n)[f] = fields[f]
      BY <2>6, <3>1, AfterUntouched
    <3>3. tx' = After(tx, <<step>>, calls')
      BY <1>8
    <3> QED
      BY <1>3, <3>2, <3>3
  <2>9. want'["data"] # Unknown => want'["data"] \in storage' \cup {0}
    <3>1. CASE step.field # "data"
      BY <1>4, <2>2, <2>5, <3>1 DEF WalletInv, Believed
    <3>2. CASE step.field = "data" /\ step.zero
      BY <2>4, <3>2
    <3>3. CASE step.field = "data" /\ ~step.zero
      BY <1>7, <1>8, <2>4, <3>3
    <3> QED
      BY <1>7, <3>1, <3>2, <3>3
  <2>10. Believed'
    BY <2>4, <2>5, <2>7, <2>8, <2>9 DEF WalletInv, Believed
  <2> QED
    BY <1>1, <1>3, <1>5, <1>6, <2>1, <2>2, <2>3, <2>10, FieldsKeep
<1>9. CASE want' = Forget({step.field}) /\ tx' = tx /\ storage' = storage
  <2>1. \A f \in Fields : want'[f] \in {Unknown, want[f]}
    BY <1>9 DEF Forget
  <2>2. want' \in [Fields -> {Unknown} \cup 0..calls']
    <3>1. \A f \in Fields : want[f] \in {Unknown} \cup 0..calls'
      BY <1>3, <1>4
    <3> QED
      BY <1>9, <3>1 DEF Forget
  <2>3. Believed'
    BY <1>4, <1>9, <2>1 DEF WalletInv, Believed
  <2>4. tx' \in [Fields -> 0..calls'] /\ storage' \subseteq 1..calls'
    BY <1>3, <1>4, <1>9
  <2> QED
    BY <1>1, <1>3, <1>5, <1>6, <2>2, <2>3, <2>4, FieldsKeep
<1> QED
  BY <1>2, <1>8, <1>9

(* The application frees data that it will not send.                       *)
LEMMA FreeDataKeeps ==
    ASSUME WalletInv, FreeData PROVE WalletInv'
<1>1. /\ UNCHANGED memory /\ tx' = tx /\ sync' = sync /\ posted' = posted
      /\ last' = last /\ calls' = calls /\ WalletsTypeOK
  BY DEF FreeData, WalletInv
<1>2. PICK n \in storage :
        /\ storage' = storage \ {n}
        /\ want' = IF want["data"] = n THEN Forget({"data"}) ELSE want
  BY DEF FreeData
<1>3. calls' \in Nat /\ sync' \in BOOLEAN /\ last' \in Results
      /\ tx' \in [Fields -> 0..calls'] /\ storage' \subseteq 1..calls'
      /\ want \in [Fields -> {Unknown} \cup 0..calls'] /\ "data" \in Fields
  BY <1>1, <1>2 DEF WalletsTypeOK, Fields
<1>4. want' \in [Fields -> {Unknown} \cup 0..calls']
  BY <1>2, <1>3 DEF Forget
<1>5. Believed'
  <2>1. CASE want["data"] = n
    BY <1>1, <1>2, <1>3, <2>1 DEF WalletInv, Believed, Forget
  <2>2. CASE want["data"] # n
    BY <1>1, <1>2, <1>3, <2>2 DEF WalletInv, Believed
  <2> QED
    BY <2>1, <2>2
<1>6. SentAsAsked'
  BY <1>1 DEF WalletInv, SentAsAsked
<1> QED
  BY <1>1, <1>3, <1>4, <1>5, <1>6, FieldsKeep

(* The outcome of a wait is a result.                                      *)
LEMMA ReceivedIsResult == Received \subseteq Results
  BY DEF Received, Receipt, Results

(* What is sent is what was asked for, when the fields to be sent are.     *)
LEMMA SentMatches ==
    ASSUME WalletInv, NEW received \in SUBSET Results,
           NEW fields, NEW wish, NEW stored,
           fields["data"] \in stored \cup {0},
           \A f \in Fields : fields[f] = wish[f],
           \/ last' = "error" /\ UNCHANGED posted
           \/ /\ posted' = [sent |-> fields, want |-> wish,
                            stored |-> fields["data"] \in stored \cup {0}]
              /\ \/ last' = "error"
                 \/ ~sync /\ last' = "success"
                 \/ sync /\ last' \in received
    PROVE  last' \in Results /\ SentAsAsked'
<1>1. last' \in Results
  BY DEF Results
<1>2. CASE UNCHANGED posted
  BY <1>1, <1>2 DEF WalletInv, SentAsAsked
<1>3. CASE posted' = [sent |-> fields, want |-> wish,
                      stored |-> fields["data"] \in stored \cup {0}]
  <2>1. posted'.stored = (fields["data"] \in stored \cup {0})
    BY <1>3
  <2>2. posted'.sent = fields /\ posted'.want = wish
    BY <1>3
  <2> QED
    BY <1>1, <2>1, <2>2 DEF SentAsAsked
<1> QED
  BY <1>2, <1>3

(* XTxSend: every field is believed to be known.                           *)
LEMMA SendKeeps ==
    ASSUME NEW protocol, NEW received \in SUBSET Results,
           WalletInv, Send(protocol, received)
    PROVE  WalletInv'
<1>1. Called /\ UNCHANGED memory /\ tx' = tx /\ sync' = sync /\ storage' = storage
      /\ WalletsTypeOK /\ (\A f \in Fields : want[f] # Unknown)
  BY DEF Send, WalletInv
<1>2. calls \in Nat /\ calls' \in Nat /\ 0..calls \subseteq 0..calls'
      /\ 1..calls \subseteq 1..calls'
  BY <1>1, CallCounted
<1>3. "data" \in Fields
  BY DEF Fields
<1>4. \A f \in Fields : tx[f] = want[f]
  BY <1>1 DEF WalletInv, Believed
<1>5. tx["data"] \in storage \cup {0}
  BY <1>1, <1>3, <1>4 DEF WalletInv, Believed
<1>6. last' \in Results /\ SentAsAsked'
  BY <1>4, <1>5, SentMatches DEF Send, Sent
<1>7. want' = [f \in Fields |-> IF \/ last' = "error" /\ f \in {"nonce"}
                                   \/ last' = "success" /\ f = "nonce"
                                THEN Unknown ELSE want[f]]
  BY DEF Send, Learn
<1>8. \A f \in Fields : want'[f] = Unknown \/ want'[f] = want[f]
  BY <1>7
<1>9. want' \in [Fields -> {Unknown} \cup 0..calls']
  <2>1. \A f \in Fields : want[f] \in {Unknown} \cup 0..calls'
    BY <1>1, <1>2 DEF WalletsTypeOK
  <2> QED
    BY <1>7, <2>1
<1>10. Believed'
  BY <1>1, <1>3, <1>8 DEF WalletInv, Believed
<1>11. tx' \in [Fields -> 0..calls'] /\ sync' \in BOOLEAN /\ storage' \subseteq 1..calls'
  BY <1>1, <1>2 DEF WalletsTypeOK
<1> QED
  BY <1>1, <1>2, <1>6, <1>9, <1>10, <1>11, FieldsKeep

(* Transfers and contract functions: after an error the fields that the    *)
(* program sets are unknown, and data in the frame of the call is.         *)
LEMMA SetAndSendKeeps ==
    ASSUME NEW protocol, NEW steps, NEW wished \in SUBSET Fields,
           NEW received \in SUBSET Results, Fulfils(steps, wished),
           WalletInv, SetAndSend(protocol, steps, wished, received)
    PROVE  WalletInv'
<1> DEFINE wish == [f \in Fields |-> IF f \in wished THEN calls'
                                     ELSE IF f = "data" THEN 0 ELSE want[f]]
           known == [wish EXCEPT !["data"] = IF @ = calls' THEN Unknown ELSE @]
           unsure == wished \cup {"data"}
<1>1. Called /\ UNCHANGED memory /\ sync' = sync /\ storage' = storage
      /\ WalletsTypeOK /\ (\A f \in Fields \ unsure : want[f] # Unknown)
  BY DEF SetAndSend, WalletInv
<1>2. PICK k \in Ends(steps) :
        /\ tx' = After(tx, SubSeq(steps, 1, k), calls')
        /\ IF k = Len(steps)
           THEN Sent(tx', wish, storage \cup {calls'}, received)
           ELSE last' = "error" /\ UNCHANGED posted
        /\ Learn(known, unsure)
  BY DEF SetAndSend
<1>3. calls \in Nat /\ calls' = calls + 1 /\ calls' \in Nat /\ calls' \in 0..calls'
      /\ 0 \in 0..calls' /\ 0..calls \subseteq 0..calls'
      /\ 1..calls \subseteq 1..calls' /\ calls' # Unknown
  BY <1>1, CallCounted
<1>4. "data" \in Fields /\ "all" \notin Fields /\ "none" \notin Fields
      /\ want \in [Fields -> {Unknown} \cup 0..calls] /\ tx \in [Fields -> 0..calls]
  BY <1>1 DEF WalletsTypeOK, Fields
<1>5. steps \in Seq(AnyStep)
  BY DEF Fulfils
<1>6. /\ k \in 0..Len(steps) /\ Len(steps) \in Nat
      /\ SubSeq(steps, 1, k) \in Seq(AnyStep)
      /\ Len(SubSeq(steps, 1, k)) = k
      /\ \A j \in 1..k : SubSeq(steps, 1, k)[j] = steps[j]
      /\ k = Len(steps) => SubSeq(steps, 1, k) = steps
  BY <1>5, BeginsWith
<1>7. tx' \in [Fields -> 0..calls']
  BY <1>2, <1>3, <1>4, AfterTyped
<1>8. ASSUME NEW f \in Fields \ unsure PROVE tx'[f] = tx[f]
  <2>1. \A j \in 1..k : steps[j].field \in unsure \cup {"none"}
    BY <1>6 DEF Fulfils
  <2>2. \A j \in 1..Len(SubSeq(steps, 1, k)) :
            SubSeq(steps, 1, k)[j].field \notin {f, "all"}
    BY <1>4, <1>6, <2>1
  <2>3. \A fields : \A n \in Nat : After(fields, SubSeq(steps, 1, k), n)[f] = fields[f]
    BY <1>6, <2>2, AfterUntouched
  <2> QED
    BY <1>2, <1>3, <2>3
<1>9. \A f \in Fields : wish[f] = IF f \in wished THEN calls'
                                  ELSE IF f = "data" THEN 0 ELSE want[f]
  OBVIOUS
<1>10. wish \in [Fields -> {Unknown} \cup 0..calls']
  BY <1>3, <1>4
<1>11. known \in [Fields -> {Unknown} \cup 0..calls']
       /\ (\A f \in Fields \ {"data"} : known[f] = wish[f])
       /\ known["data"] = IF wish["data"] = calls' THEN Unknown ELSE wish["data"]
  BY <1>4, <1>10
<1>12. wish["data"] \in {0, calls'}
  BY <1>4, <1>9
<1>13. ASSUME k = Len(steps), NEW f \in Fields PROVE tx'[f] = wish[f]
  <2>1. tx' = After(tx, steps, calls')
    BY <1>2, <1>6, <1>13
  <2>2. CASE f \in unsure
    <3>1. PICK m \in 1..Len(steps) :
              Decides(steps, m, f) /\ (steps[m].zero <=> f \notin wished)
      BY <2>2 DEF Fulfils
    <3>2. \A fields : \A n \in Nat :
            /\ steps[m].zero => After(fields, steps, n)[f] = 0
            /\ ~steps[m].zero => After(fields, steps, n)[f] = n
      BY <1>5, <3>1, AfterDecided
    <3> QED
      BY <1>3, <1>9, <2>1, <2>2, <3>1, <3>2
  <2>3. CASE f \notin unsure
    <3>1. tx'[f] = tx[f]
      BY <1>8, <2>3
    <3>2. tx[f] = want[f]
      BY <1>1, <2>3 DEF WalletInv, Believed
    <3> QED
      BY <1>9, <2>3, <3>1, <3>2
  <2> QED
    BY <2>2, <2>3
<1> HIDE DEF wish, known
<1>14. want' = [f \in Fields |-> IF \/ last' = "error" /\ f \in unsure
                                    \/ last' = "success" /\ f = "nonce"
                                 THEN Unknown ELSE known[f]]
  BY <1>2 DEF Learn
<1>15. want' \in [Fields -> {Unknown} \cup 0..calls']
  BY <1>11, <1>14
<1>16. last' \in Results /\ SentAsAsked'
  <2>1. CASE k = Len(steps)
    <3>1. \A f \in Fields : tx'[f] = wish[f]
      BY <1>13, <2>1
    <3>2. tx'["data"] \in (storage \cup {calls'}) \cup {0}
      BY <1>4, <1>12, <3>1
    <3>3. Sent(tx', wish, storage \cup {calls'}, received)
      BY <1>2, <2>1
    <3> QED
      BY <3>1, <3>2, <3>3, SentMatches DEF Sent
  <2>2. CASE k # Len(steps)
    <3>1. last' = "error" /\ UNCHANGED posted
      BY <1>2, <2>2
    <3> QED
      BY <3>1 DEF WalletInv, SentAsAsked, Results
  <2> QED
    BY <2>1, <2>2
<1>17. ASSUME NEW f \in Fields, want'[f] # Unknown PROVE tx'[f] = want'[f]
  <2>1. want'[f] = known[f] /\ ~(last' = "error" /\ f \in unsure)
    BY <1>14, <1>17
  <2>2. known[f] = wish[f]
    BY <1>11, <1>17, <2>1
  <2>3. CASE k = Len(steps)
    BY <1>13, <2>1, <2>2, <2>3
  <2>4. CASE k # Len(steps)
    <3>1. f \notin unsure
      BY <1>2, <2>1, <2>4
    <3>2. tx'[f] = tx[f] /\ tx[f] = want[f]
      BY <1>1, <1>8, <3>1 DEF WalletInv, Believed
    <3>3. wish[f] = want[f]
      BY <1>9, <3>1
    <3> QED
      BY <2>1, <2>2, <3>2, <3>3
  <2> QED
    BY <2>3, <2>4
<1>18. want'["data"] # Unknown => want'["data"] \in storage' \cup {0}
  BY <1>4, <1>11, <1>12, <1>14
<1>19. Believed'
  BY <1>17, <1>18 DEF Believed
<1>20. sync' \in BOOLEAN /\ storage' \subseteq 1..calls'
  BY <1>1, <1>3 DEF WalletsTypeOK
<1> QED
  BY <1>1, <1>3, <1>7, <1>15, <1>16, <1>19, <1>20, FieldsKeep

-----------------------------------------------------------------------------
(* The programs of the protocols *)

(* The steps and the fields are what they are said to be.                  *)
LEMMA StepTyped ==
    /\ Check \in AnyStep /\ Zero \in AnyStep
    /\ \A f \in Fields : /\ Given(f) \in AnyStep /\ Asked(f) \in AnyStep
                         /\ Parsed(f) \in AnyStep /\ Random(f) \in AnyStep
                         /\ Cleared(f) \in AnyStep
  BY DEF Given, Asked, Parsed, Random, Cleared, Check, Zero, Step, AnyStep

(* The names of the fields, and two that are none.                         *)
LEMMA FieldNames ==
    /\ "nonce" \in Fields /\ "price" \in Fields /\ "limit" \in Fields
    /\ "recipient" \in Fields /\ "value" \in Fields /\ "data" \in Fields
    /\ "type" \in Fields /\ "chain" \in Fields /\ "group" \in Fields
    /\ "block" \in Fields /\ "none" \notin Fields /\ "all" \notin Fields
  BY DEF Fields

(* The second step of a program is the memset, and each of those after it  *)
(* sets another field or none.                                             *)
Tidy(steps, promised) ==
    /\ Len(steps) >= 2
    /\ steps[2].field = "all" /\ steps[2].zero
    /\ \A j \in 3..Len(steps) : steps[j].field # "all"
    /\ \A i, j \in 3..Len(steps) :
            steps[i].field = steps[j].field => i = j \/ steps[i].field = "none"
    /\ \A j \in 3..Len(steps) : steps[j].field # "none" =>
            (steps[j].zero <=> steps[j].field \notin promised)
    /\ \A f \in promised : \E j \in 3..Len(steps) : steps[j].field = f

(* A tidy program delivers what it promises.                               *)
LEMMA TidyDelivers ==
    \A steps \in Seq(AnyStep), promised \in SUBSET Fields :
        Tidy(steps, promised) => Delivers(steps, promised)
<1> SUFFICES ASSUME NEW steps \in Seq(AnyStep), NEW promised \in SUBSET Fields,
                    Tidy(steps, promised)
             PROVE  Delivers(steps, promised)
  OBVIOUS
<1> SUFFICES ASSUME NEW f \in Fields
             PROVE  \E m \in 1..Len(steps) :
                        Decides(steps, m, f) /\ (steps[m].zero <=> f \notin promised)
  BY DEF Delivers
<1>1. f # "none" /\ f # "all"
  BY FieldNames
<1>2. CASE \E j \in 3..Len(steps) : steps[j].field = f
  <2>1. PICK j \in 3..Len(steps) : steps[j].field = f
    BY <1>2
  <2>2. /\ j \in 1..Len(steps)
        /\ \A i \in (j + 1)..Len(steps) : i \in 3..Len(steps) /\ i # j
    OBVIOUS
  <2>3. Decides(steps, j, f)
    BY <1>1, <2>1, <2>2 DEF Decides, Tidy
  <2> QED
    BY <1>1, <2>1, <2>2, <2>3 DEF Tidy
<1>3. CASE ~ \E j \in 3..Len(steps) : steps[j].field = f
  <2>1. f \notin promised
    BY <1>3 DEF Tidy
  <2>2. Decides(steps, 2, f)
    BY <1>3 DEF Decides, Tidy
  <2> QED
    BY <2>1, <2>2 DEF Tidy
<1> QED
  BY <1>2, <1>3

(* api_ethereum.c: XTxInit.                                                *)
LEMMA EthereumDelivers ==
    \A steps \in EthereumPrograms :
        Delivers(steps, {"price", "limit", "recipient"})
<1> DEFINE promised == {"price", "limit", "recipient"}
<1> SUFFICES ASSUME NEW steps \in EthereumPrograms PROVE Delivers(steps, promised)
  OBVIOUS
<1>1. PICK price \in EthereumPrice :
        steps = <<Check, Zero, price, Given("limit"), Parsed("recipient"),
                  Cleared("value")>>
  BY DEF EthereumPrograms
<1>2. price.field = "price" /\ ~price.zero /\ price \in AnyStep
  <2>1. price = Given("price") \/ price = Asked("price")
    BY DEF EthereumPrice
  <2> QED
    BY <2>1, StepMade, StepTyped, FieldNames
<1>3. steps \in Seq(AnyStep) /\ Len(steps) = 6
  <2>1. /\ Check \in AnyStep
        /\ Zero \in AnyStep
        /\ Given("limit") \in AnyStep
        /\ Parsed("recipient") \in AnyStep
        /\ Cleared("value") \in AnyStep
    BY StepTyped, FieldNames
  <2> QED
    BY <1>1, <1>2, <2>1
<1>4. /\ steps[1].field = "none" /\ ~steps[1].zero
      /\ steps[2].field = "all" /\ steps[2].zero
      /\ steps[3].field = "price" /\ ~steps[3].zero
      /\ steps[4].field = "limit" /\ ~steps[4].zero
      /\ steps[5].field = "recipient" /\ ~steps[5].zero
      /\ steps[6].field = "value" /\ steps[6].zero
  BY <1>1, <1>2, StepMade
<1>5. \A j \in 3..6 : j = 3 \/ j = 4 \/ j = 5 \/ j = 6
  OBVIOUS
<1>6. /\ \A j \in 3..6 : steps[j].field # "all"
      /\ \A j \in 3..6 : steps[j].field # "none" =>
            (steps[j].zero <=> steps[j].field \notin promised)
  BY <1>4, <1>5
<1>7. \A i, j \in 3..6 :
        steps[i].field = steps[j].field => i = j \/ steps[i].field = "none"
  BY <1>4, <1>5
<1>8. \A f \in promised : \E j \in 3..6 : steps[j].field = f
  BY <1>4
<1>9. promised \in SUBSET Fields
  BY FieldNames
<1> HIDE DEF promised
<1>10. Tidy(steps, promised)
  BY <1>3, <1>4, <1>6, <1>7, <1>8 DEF Tidy
<1> QED
  BY <1>3, <1>9, <1>10, TidyDelivers

(* api_platon.c: XTxInit.                                                  *)
LEMMA PlatonDelivers ==
    \A steps \in PlatonPrograms :
        Delivers(steps, {"price", "limit", "recipient"})
<1> DEFINE promised == {"price", "limit", "recipient"}
<1> SUFFICES ASSUME NEW steps \in PlatonPrograms PROVE Delivers(steps, promised)
  OBVIOUS
<1>1. PICK price \in PlatonPrice :
        steps = <<Check, Zero, Check, price, Given("limit"),
                  Parsed("recipient"), Cleared("value")>>
  BY DEF PlatonPrograms
<1>2. price.field = "price" /\ ~price.zero /\ price \in AnyStep
  <2>1. price = Given("price") \/ price = Asked("price")
    BY DEF PlatonPrice
  <2> QED
    BY <2>1, StepMade, StepTyped, FieldNames
<1>3. steps \in Seq(AnyStep) /\ Len(steps) = 7
  <2>1. /\ Check \in AnyStep
        /\ Zero \in AnyStep
        /\ Given("limit") \in AnyStep
        /\ Parsed("recipient") \in AnyStep
        /\ Cleared("value") \in AnyStep
    BY StepTyped, FieldNames
  <2> QED
    BY <1>1, <1>2, <2>1
<1>4. /\ steps[1].field = "none" /\ ~steps[1].zero
      /\ steps[2].field = "all" /\ steps[2].zero
      /\ steps[3].field = "none" /\ ~steps[3].zero
      /\ steps[4].field = "price" /\ ~steps[4].zero
      /\ steps[5].field = "limit" /\ ~steps[5].zero
      /\ steps[6].field = "recipient" /\ ~steps[6].zero
      /\ steps[7].field = "value" /\ steps[7].zero
  BY <1>1, <1>2, StepMade
<1>5. \A j \in 3..7 : j = 3 \/ j = 4 \/ j = 5 \/ j = 6 \/ j = 7
  OBVIOUS
<1>6. /\ \A j \in 3..7 : steps[j].field # "all"
      /\ \A j \in 3..7 : steps[j].field # "none" =>
            (steps[j].zero <=> steps[j].field \notin promised)
  BY <1>4, <1>5
<1>7. \A i, j \in 3..7 :
        steps[i].field = steps[j].field => i = j \/ steps[i].field = "none"
  BY <1>4, <1>5
<1>8. \A f \in promised : \E j \in 3..7 : steps[j].field = f
  BY <1>4
<1>9. promised \in SUBSET Fields
  BY FieldNames
<1> HIDE DEF promised
<1>10. Tidy(steps, promised)
  BY <1>3, <1>4, <1>6, <1>7, <1>8 DEF Tidy
<1> QED
  BY <1>3, <1>9, <1>10, TidyDelivers

(* api_platone.c: XTxInit.                                                 *)
LEMMA PlatoneDelivers ==
    \A steps \in PlatonePrograms :
        Delivers(steps, {"price", "limit", "recipient", "type"})
<1> DEFINE promised == {"price", "limit", "recipient", "type"}
<1> SUFFICES ASSUME NEW steps \in PlatonePrograms PROVE Delivers(steps, promised)
  OBVIOUS
<1>1. PICK price \in PlatonePrice :
        steps = <<Check, Zero, price, Given("limit"), Parsed("recipient"),
                  Cleared("value"), Given("type")>>
  BY DEF PlatonePrograms
<1>2. price.field = "price" /\ ~price.zero /\ price \in AnyStep
  <2>1. price = Given("price") \/ price = Asked("price")
    BY DEF PlatonePrice
  <2> QED
    BY <2>1, StepMade, StepTyped, FieldNames
<1>3. steps \in Seq(AnyStep) /\ Len(steps) = 7
  <2>1. /\ Check \in AnyStep
        /\ Zero \in AnyStep
        /\ Given("limit") \in AnyStep
        /\ Parsed("recipient") \in AnyStep
        /\ Cleared("value") \in AnyStep
        /\ Given("type") \in AnyStep
    BY StepTyped, FieldNames
  <2> QED
    BY <1>1, <1>2, <2>1
<1>4. /\ steps[1].field = "none" /\ ~steps[1].zero
      /\ steps[2].field = "all" /\ steps[2].zero
      /\ steps[3].field = "price" /\ ~steps[3].zero
      /\ steps[4].field = "limit" /\ ~steps[4].zero
      /\ steps[5].field = "recipient" /\ ~steps[5].zero
      /\ steps[6].field = "value" /\ steps[6].zero
      /\ steps[7].field = "type" /\ ~steps[7].zero
  BY <1>1, <1>2, StepMade
<1>5. \A j \in 3..7 : j = 3 \/ j = 4 \/ j = 5 \/ j = 6 \/ j = 7
  OBVIOUS
<1>6. /\ \A j \in 3..7 : steps[j].field # "all"
      /\ \A j \in 3..7 : steps[j].field # "none" =>
            (steps[j].zero <=> steps[j].field \notin promised)
  BY <1>4, <1>5
<1>7. \A i, j \in 3..7 :
        steps[i].field = steps[j].field => i = j \/ steps[i].field = "none"
  BY <1>4, <1>5
<1>8. \A f \in promised : \E j \in 3..7 : steps[j].field = f
  BY <1>4
<1>9. promised \in SUBSET Fields
  BY FieldNames
<1> HIDE DEF promised
<1>10. Tidy(steps, promised)
  BY <1>3, <1>4, <1>6, <1>7, <1>8 DEF Tidy
<1> QED
  BY <1>3, <1>9, <1>10, TidyDelivers

(* api_quorum.c: XTxInit.                                                  *)
LEMMA QuorumDelivers ==
    \A steps \in QuorumPrograms :
        Delivers(steps, {"limit", "recipient"})
<1> DEFINE promised == {"limit", "recipient"}
<1> SUFFICES ASSUME NEW steps \in QuorumPrograms PROVE Delivers(steps, promised)
  OBVIOUS
<1>1. steps = <<Check, Zero, Given("limit"), Parsed("recipient"),
                Cleared("value")>>
  BY DEF QuorumPrograms
<1>3. steps \in Seq(AnyStep) /\ Len(steps) = 5
  <2>1. /\ Check \in AnyStep
        /\ Zero \in AnyStep
        /\ Given("limit") \in AnyStep
        /\ Parsed("recipient") \in AnyStep
        /\ Cleared("value") \in AnyStep
    BY StepTyped, FieldNames
  <2> QED
    BY <1>1, <2>1
<1>4. /\ steps[1].field = "none" /\ ~steps[1].zero
      /\ steps[2].field = "all" /\ steps[2].zero
      /\ steps[3].field = "limit" /\ ~steps[3].zero
      /\ steps[4].field = "recipient" /\ ~steps[4].zero
      /\ steps[5].field = "value" /\ steps[5].zero
  BY <1>1, StepMade
<1>5. \A j \in 3..5 : j = 3 \/ j = 4 \/ j = 5
  OBVIOUS
<1>6. /\ \A j \in 3..5 : steps[j].field # "all"
      /\ \A j \in 3..5 : steps[j].field # "none" =>
            (steps[j].zero <=> steps[j].field \notin promised)
  BY <1>4, <1>5
<1>7. \A i, j \in 3..5 :
        steps[i].field = steps[j].field => i = j \/ steps[i].field = "none"
  BY <1>4, <1>5
<1>8. \A f \in promised : \E j \in 3..5 : steps[j].field = f
  BY <1>4
<1>9. promised \in SUBSET Fields
  BY FieldNames
<1> HIDE DEF promised
<1>10. Tidy(steps, promised)
  BY <1>3, <1>4, <1>6, <1>7, <1>8 DEF Tidy
<1> QED
  BY <1>3, <1>9, <1>10, TidyDelivers

(* api_venachain.c: XTxInit.                                               *)
LEMMA VenachainDelivers ==
    \A steps \in VenachainPrograms :
        Delivers(steps, {"price", "limit", "recipient"})
<1> DEFINE promised == {"price", "limit", "recipient"}
<1> SUFFICES ASSUME NEW steps \in VenachainPrograms PROVE Delivers(steps, promised)
  OBVIOUS
<1>1. PICK price \in VenachainPrice :
        steps = <<Check, Zero, price, Given("limit"), Parsed("recipient"),
                  Cleared("value")>>
  BY DEF VenachainPrograms
<1>2. price.field = "price" /\ ~price.zero /\ price \in AnyStep
  <2>1. price = Given("price") \/ price = Asked("price")
    BY DEF VenachainPrice
  <2> QED
    BY <2>1, StepMade, StepTyped, FieldNames
<1>3. steps \in Seq(AnyStep) /\ Len(steps) = 6
  <2>1. /\ Check \in AnyStep
        /\ Zero \in AnyStep
        /\ Given("limit") \in AnyStep
        /\ Parsed("recipient") \in AnyStep
        /\ Cleared("value") \in AnyStep
    BY StepTyped, FieldNames
  <2> QED
    BY <1>1, <1>2, <2>1
<1>4. /\ steps[1].field = "none" /\ ~steps[1].zero
      /\ steps[2].field = "all" /\ steps[2].zero
      /\ steps[3].field = "price" /\ ~steps[3].zero
      /\ steps[4].field = "limit" /\ ~steps[4].zero
      /\ steps[5].field = "recipient" /\ ~steps[5].zero
      /\ steps[6].field = "value" /\ steps[6].zero
  BY <1>1, <1>2, StepMade
<1>5. \A j \in 3..6 : j = 3 \/ j = 4 \/ j = 5 \/ j = 6
  OBVIOUS
<1>6. /\ \A j \in 3..6 : steps[j].field # "all"
      /\ \A j \in 3..6 : steps[j].field # "none" =>
            (steps[j].zero <=> steps[j].field \notin promised)
  BY <1>4, <1>5
<1>7. \A i, j \in 3..6 :
        steps[i].field = steps[j].field => i = j \/ steps[i].field = "none"
  BY <1>4, <1>5
<1>8. \A f \in promised : \E j \in 3..6 : steps[j].field = f
  BY <1>4
<1>9. promised \in SUBSET Fields
  BY FieldNames
<1> HIDE DEF promised
<1>10. Tidy(steps, promised)
  BY <1>3, <1>4, <1>6, <1>7, <1>8 DEF Tidy
<1> QED
  BY <1>3, <1>9, <1>10, TidyDelivers

(* api_fiscobcos.c: XTxInit.                                               *)
LEMMA FiscobcosDelivers ==
    \A steps \in FiscobcosPrograms :
        Delivers(steps, {"price", "limit", "recipient", "chain", "group", "block"})
<1> DEFINE promised == {"price", "limit", "recipient", "chain", "group", "block"}
<1> SUFFICES ASSUME NEW steps \in FiscobcosPrograms PROVE Delivers(steps, promised)
  OBVIOUS
<1>1. steps = <<Check, Zero, Given("price"), Given("limit"),
                Parsed("recipient"), Parsed("chain"), Parsed("group"),
                Asked("block"), Cleared("value")>>
  BY DEF FiscobcosPrograms, FiscobcosGetBlockNumber
<1>3. steps \in Seq(AnyStep) /\ Len(steps) = 9
  <2>1. /\ Check \in AnyStep
        /\ Zero \in AnyStep
        /\ Given("price") \in AnyStep
        /\ Given("limit") \in AnyStep
        /\ Parsed("recipient") \in AnyStep
        /\ Parsed("chain") \in AnyStep
        /\ Parsed("group") \in AnyStep
        /\ Asked("block") \in AnyStep
        /\ Cleared("value") \in AnyStep
    BY StepTyped, FieldNames
  <2> QED
    BY <1>1, <2>1
<1>4. /\ steps[1].field = "none" /\ ~steps[1].zero
      /\ steps[2].field = "all" /\ steps[2].zero
      /\ steps[3].field = "price" /\ ~steps[3].zero
      /\ steps[4].field = "limit" /\ ~steps[4].zero
      /\ steps[5].field = "recipient" /\ ~steps[5].zero
      /\ steps[6].field = "chain" /\ ~steps[6].zero
      /\ steps[7].field = "group" /\ ~steps[7].zero
      /\ steps[8].field = "block" /\ ~steps[8].zero
      /\ steps[9].field = "value" /\ steps[9].zero
  BY <1>1, StepMade
<1>5. \A j \in 3..9 : j = 3 \/ j = 4 \/ j = 5 \/ j = 6 \/ j = 7 \/ j = 8 \/ j = 9
  OBVIOUS
<1>6. /\ \A j \in 3..9 : steps[j].field # "all"
      /\ \A j \in 3..9 : steps[j].field # "none" =>
            (steps[j].zero <=> steps[j].field \notin promised)
  BY <1>4, <1>5
<1>7. \A i, j \in 3..9 :
        steps[i].field = steps[j].field => i = j \/ steps[i].field = "none"
  BY <1>4, <1>5
<1>8. \A f \in promised : \E j \in 3..9 : steps[j].field = f
  BY <1>4
<1>9. promised \in SUBSET Fields
  BY FieldNames
<1> HIDE DEF promised
<1>10. Tidy(steps, promised)
  BY <1>3, <1>4, <1>6, <1>7, <1>8 DEF Tidy
<1> QED
  BY <1>3, <1>9, <1>10, TidyDelivers

(* api_cita.c: XTxInit.                                                    *)
LEMMA CitaDelivers ==
    \A steps \in CitaPrograms :
        Delivers(steps, {"recipient", "limit", "block"})
<1> DEFINE promised == {"recipient", "limit", "block"}
<1> SUFFICES ASSUME NEW steps \in CitaPrograms PROVE Delivers(steps, promised)
  OBVIOUS
<1>1. steps = <<Check, Zero, Check, Parsed("recipient"), Given("limit"),
                Asked("block"), Cleared("value")>>
  BY DEF CitaPrograms, CitaGetBlockNumber
<1>3. steps \in Seq(AnyStep) /\ Len(steps) = 7
  <2>1. /\ Check \in AnyStep
        /\ Zero \in AnyStep
        /\ Parsed("recipient") \in AnyStep
        /\ Given("limit") \in AnyStep
        /\ Asked("block") \in AnyStep
        /\ Cleared("value") \in AnyStep
    BY StepTyped, FieldNames
  <2> QED
    BY <1>1, <2>1
<1>4. /\ steps[1].field = "none" /\ ~steps[1].zero
      /\ steps[2].field = "all" /\ steps[2].zero
      /\ steps[3].field = "none" /\ ~steps[3].zero
      /\ steps[4].field = "recipient" /\ ~steps[4].zero
      /\ steps[5].field = "limit" /\ ~steps[5].zero
      /\ steps[6].field = "block" /\ ~steps[6].zero
      /\ steps[7].field = "value" /\ steps[7].zero
  BY <1>1, StepMade
<1>5. \A j \in 3..7 : j = 3 \/ j = 4 \/ j = 5 \/ j = 6 \/ j = 7
  OBVIOUS
<1>6. /\ \A j \in 3..7 : steps[j].field # "all"
      /\ \A j \in 3..7 : steps[j].field # "none" =>
            (steps[j].zero <=> steps[j].field \notin promised)
  BY <1>4, <1>5
<1>7. \A i, j \in 3..7 :
        steps[i].field = steps[j].field => i = j \/ steps[i].field = "none"
  BY <1>4, <1>5
<1>8. \A f \in promised : \E j \in 3..7 : steps[j].field = f
  BY <1>4
<1>9. promised \in SUBSET Fields
  BY FieldNames
<1> HIDE DEF promised
<1>10. Tidy(steps, promised)
  BY <1>3, <1>4, <1>6, <1>7, <1>8 DEF Tidy
<1> QED
  BY <1>3, <1>9, <1>10, TidyDelivers

-----------------------------------------------------------------------------
(* The setters, transfers and contract functions of the protocols *)

(* Setting or clearing a field, or asking for one that is not data.        *)
LEMMA SetterMade ==
    \A f \in Fields :
        /\ Setter(Given(f)) /\ Setter(Cleared(f))
        /\ f # "data" => Setter(Asked(f)) /\ Setter(Random(f))
<1> SUFFICES ASSUME NEW f \in Fields
             PROVE  /\ Setter(Given(f)) /\ Setter(Cleared(f))
                    /\ f # "data" => Setter(Asked(f)) /\ Setter(Random(f))
  OBVIOUS
<1>1. Given(f) \in AnyStep /\ Cleared(f) \in AnyStep /\ Asked(f) \in AnyStep
      /\ Random(f) \in AnyStep
  BY StepTyped
<1>2. Given(f).field = f /\ Cleared(f).field = f /\ Cleared(f).zero = TRUE
      /\ Asked(f).field = f /\ Random(f).field = f
  BY StepMade
<1>3. Setter(Given(f))
  <2>1. CASE f = "data"
    BY <1>1, <1>2, <2>1 DEF Setter
  <2>2. CASE f # "data"
    BY <1>1, <1>2, <2>2 DEF Setter
  <2> QED
    BY <2>1, <2>2
<1>4. Setter(Cleared(f))
  BY <1>1, <1>2 DEF Setter
<1>5. f # "data" => Setter(Asked(f)) /\ Setter(Random(f))
  BY <1>1, <1>2 DEF Setter
<1> QED
  BY <1>3, <1>4, <1>5

(* A program sets or clears the data and the fields it is to set, each in  *)
(* one of its steps.                                                       *)
Once(steps, wished) ==
    /\ \A j \in 1..Len(steps) : steps[j].field \in wished \cup {"data", "none"}
    /\ \A i, j \in 1..Len(steps) :
            steps[i].field = steps[j].field => i = j \/ steps[i].field = "none"
    /\ \A j \in 1..Len(steps) : steps[j].field # "none" =>
            (steps[j].zero <=> steps[j].field \notin wished)
    /\ \A f \in wished \cup {"data"} : \E j \in 1..Len(steps) : steps[j].field = f

(* Such a program fulfils the wish.                                        *)
LEMMA OnceFulfils ==
    \A steps \in Seq(AnyStep), wished \in SUBSET Fields :
        Once(steps, wished) => Fulfils(steps, wished)
<1> SUFFICES ASSUME NEW steps \in Seq(AnyStep), NEW wished \in SUBSET Fields,
                    Once(steps, wished), NEW f \in wished \cup {"data"}
             PROVE  \E m \in 1..Len(steps) :
                        Decides(steps, m, f) /\ (steps[m].zero <=> f \notin wished)
  BY DEF Fulfils, Once
<1>1. f # "none" /\ f # "all" /\ "all" \notin wished \cup {"data", "none"}
  BY FieldNames
<1>2. PICK j \in 1..Len(steps) : steps[j].field = f
  BY DEF Once
<1>3. \A i \in (j + 1)..Len(steps) : i \in 1..Len(steps) /\ i # j
  OBVIOUS
<1>4. Decides(steps, j, f)
  BY <1>1, <1>2, <1>3 DEF Decides, Once
<1> QED
  BY <1>1, <1>2, <1>4 DEF Once

(* A value, and no data of an earlier call.                                *)
LEMMA TransferFulfils == Fulfils(TransferSteps, {"nonce", "value"})
<1>1. TransferSteps \in Seq(AnyStep) /\ Len(TransferSteps) = 3
  <2>1. Asked("nonce") \in AnyStep /\ Given("value") \in AnyStep
        /\ Cleared("data") \in AnyStep
    BY StepTyped, FieldNames
  <2> QED
    BY <2>1 DEF TransferSteps
<1>2. /\ TransferSteps[1].field = "nonce" /\ ~TransferSteps[1].zero
      /\ TransferSteps[2].field = "value" /\ ~TransferSteps[2].zero
      /\ TransferSteps[3].field = "data" /\ TransferSteps[3].zero
  BY StepMade DEF TransferSteps
<1>3. \A j \in 1..3 : j = 1 \/ j = 2 \/ j = 3
  OBVIOUS
<1>4. Once(TransferSteps, {"nonce", "value"})
  BY <1>1, <1>2, <1>3 DEF Once
<1> QED
  BY <1>1, <1>4, FieldNames, OnceFulfils

(* A value and, as data, the type in the frame of the call.                *)
LEMMA PlatoneTransferFulfils ==
    Fulfils(<<Asked("nonce"), Given("value"), Given("data")>>,
            {"nonce", "value", "data"})
<1> DEFINE steps == <<Asked("nonce"), Given("value"), Given("data")>>
<1>1. steps \in Seq(AnyStep) /\ Len(steps) = 3
  <2>1. Asked("nonce") \in AnyStep /\ Given("value") \in AnyStep
        /\ Given("data") \in AnyStep
    BY StepTyped, FieldNames
  <2> QED
    BY <2>1
<1>2. /\ steps[1].field = "nonce" /\ ~steps[1].zero
      /\ steps[2].field = "value" /\ ~steps[2].zero
      /\ steps[3].field = "data" /\ ~steps[3].zero
  BY StepMade
<1> HIDE DEF steps
<1>3. \A j \in 1..3 : j = 1 \/ j = 2 \/ j = 3
  OBVIOUS
<1>4. Once(steps, {"nonce", "value", "data"})
  BY <1>1, <1>2, <1>3 DEF Once
<1>5. Fulfils(steps, {"nonce", "value", "data"})
  BY <1>1, <1>4, FieldNames, OnceFulfils
<1> QED
  BY <1>5 DEF steps

(* A nonce that is asked for or random, and the data.                      *)
LEMMA ContractFulfils ==
    \A nonce \in {Asked("nonce"), Random("nonce")} :
        Fulfils(<<nonce, Check, Given("data")>>, {"nonce", "data"})
<1> SUFFICES ASSUME NEW nonce \in {Asked("nonce"), Random("nonce")}
             PROVE  Fulfils(<<nonce, Check, Given("data")>>, {"nonce", "data"})
  OBVIOUS
<1> DEFINE steps == <<nonce, Check, Given("data")>>
<1>1. steps \in Seq(AnyStep) /\ Len(steps) = 3
  <2>1. nonce \in AnyStep /\ Check \in AnyStep /\ Given("data") \in AnyStep
    BY StepTyped, FieldNames
  <2> QED
    BY <2>1
<1>2. /\ steps[1].field = "nonce" /\ ~steps[1].zero
      /\ steps[2].field = "none" /\ ~steps[2].zero
      /\ steps[3].field = "data" /\ ~steps[3].zero
  <2>1. nonce.field = "nonce" /\ nonce.zero = FALSE
    <3>1. nonce = Asked("nonce") \/ nonce = Random("nonce")
      OBVIOUS
    <3>2. /\ Asked("nonce").field = "nonce" /\ Asked("nonce").zero = FALSE
          /\ Random("nonce").field = "nonce" /\ Random("nonce").zero = FALSE
      BY StepMade
    <3> QED
      BY <3>1, <3>2
  <2> QED
    BY <2>1, StepMade
<1> HIDE DEF steps
<1>3. \A j \in 1..3 : j = 1 \/ j = 2 \/ j = 3
  OBVIOUS
<1>4. Once(steps, {"nonce", "data"})
  BY <1>1, <1>2, <1>3 DEF Once
<1>5. Fulfils(steps, {"nonce", "data"})
  BY <1>1, <1>4, FieldNames, OnceFulfils
<1> QED
  BY <1>5 DEF steps

-----------------------------------------------------------------------------
(* The ten wallets *)

(* What the wallets of the seven protocols over web3intf.c are made of.    *)
LEMMA Web3Parts ==
    /\ \A kinds \in Web3Wallets \cup Web3Leaves : kinds \subseteq Kinds
    /\ \A kinds \in Web3Wallets : "wallet" \in kinds /\ "network" \notin kinds
    /\ \A kinds \in Web3Leaves : "rpc" \notin kinds
    /\ {} \subseteq {"rpc"}
  BY DEF Kinds, Web3Wallets, Web3Leaves

(* And those of the three over http2intf.c.                                *)
LEMMA Http2Parts ==
    /\ \A kinds \in Http2Wallets \cup Unnoticed : kinds \subseteq Kinds /\ "wallet" \in kinds
    /\ \A kinds \in Http2Leaves : kinds \subseteq Kinds /\ "rpc" \notin kinds
    /\ CHAINMAKER \notin Web3Protocols
    /\ HLFABRIC \notin Web3Protocols
    /\ HWBCS \notin Web3Protocols
  BY ProtocolsAssumption DEF Kinds, Http2Wallets, Unnoticed, Http2Leaves, Http2Protocols

(* A file frees all that its wallets hold.                                 *)
LEMMA HeldFreed ==
    ASSUME WalletInv
    PROVE  /\ wallet.holds \subseteq {"wallet", "name", "network", "rpc"}
           /\ wallet.protocol \in Web3Protocols =>
                wallet.holds \subseteq {"wallet", "name", "rpc"}
<1>1. wallet.holds \subseteq {"wallet", "name", "network", "rpc"}
  BY DEF WalletInv, WalletsTypeOK, Kinds
<1> QED
  BY <1>1 DEF WalletInv, PartsHeld

(* api_ethereum.c, call by call.                                           *)
LEMMA EthereumKeeps ==
    ASSUME WalletInv, EthereumWalletNext PROVE WalletInv'
<1>1. CASE EthereumWalletInit
  BY <1>1, Web3Parts, WalletInitKeeps DEF EthereumWalletInit
<1>2. CASE EthereumWalletDeInit
  <2>1. wallet.holds \subseteq EthereumFrees
    BY <1>2, HeldFreed DEF EthereumWalletDeInit, WalletDeInit, EthereumFrees, Web3Protocols
  <2> QED
    BY <1>2, <2>1, WalletDeInitKeeps DEF EthereumWalletDeInit
<1>3. CASE EthereumGetBalance
  BY <1>3, AskKeeps DEF EthereumGetBalance
<1>4. CASE EthereumChangeNodeUrl
  BY <1>4, AskKeeps DEF EthereumChangeNodeUrl
<1>5. CASE EthereumChangeChainID
  BY <1>5, AskKeeps DEF EthereumChangeChainID
<1>6. CASE EthereumChangeEIP155Comp
  BY <1>6, AskKeeps DEF EthereumChangeEIP155Comp
<1>7. CASE EthereumTxInit
  <2> DEFINE promised == {"price", "limit", "recipient"}
  <2>1. promised \in SUBSET (Fields \ {"nonce", "data"})
    BY FieldNames
  <2>2. \A steps \in EthereumPrograms : Delivers(steps, promised)
    BY EthereumDelivers
  <2>3. TxInit(ETHEREUM, promised, EthereumPrograms)
    BY <1>7 DEF EthereumTxInit
  <2> HIDE DEF promised
  <2> QED
    BY <2>1, <2>2, <2>3, TxInitKeeps
<1>8. CASE EthereumTxSend
  BY <1>8, SendKeeps, ReceivedIsResult DEF EthereumTxSend, EthereumReceipt
<1>9. CASE EthereumCallContractFunc
  BY <1>9, AskKeeps DEF EthereumCallContractFunc
<1>10. CASE EthereumTransfer
  <2> DEFINE steps == TransferSteps
             wished == {"nonce", "value"}
  <2>1. Fulfils(steps, wished) /\ wished \in SUBSET Fields
    BY TransferFulfils, FieldNames
  <2>2. SetAndSend(ETHEREUM, steps, wished, Received)
    BY <1>10 DEF EthereumTransfer, Transfer, EthereumReceipt
  <2> HIDE DEF steps, wished
  <2> QED
    BY <2>1, <2>2, SetAndSendKeeps, ReceivedIsResult
<1>11. CASE EthereumContract
  <2> DEFINE steps == <<Asked("nonce"), Check, Given("data")>>
             wished == {"nonce", "data"}
  <2>1. Fulfils(steps, wished) /\ wished \in SUBSET Fields
    BY ContractFulfils, FieldNames
  <2>2. SetAndSend(ETHEREUM, steps, wished, Received)
    BY <1>11 DEF EthereumContract, Contract, EthereumReceipt
  <2> HIDE DEF steps, wished
  <2> QED
    BY <2>1, <2>2, SetAndSendKeeps, ReceivedIsResult
<1>12. CASE Set(ETHEREUM, EthereumNonce \cup EthereumPrice
                \cup EthereumLimit \cup EthereumRecipient)
  <2> DEFINE setters == EthereumNonce \cup EthereumPrice
                        \cup EthereumLimit \cup EthereumRecipient
  <2>1. /\ Setter(Given("nonce"))
        /\ Setter(Asked("nonce"))
        /\ Setter(Given("price"))
        /\ Setter(Asked("price"))
        /\ Setter(Given("limit"))
        /\ Setter(Given("recipient"))
    BY SetterMade, FieldNames
  <2>2. \A step \in setters : Setter(step)
    BY <2>1 DEF EthereumNonce, EthereumPrice, EthereumLimit, EthereumRecipient
  <2> HIDE DEF setters
  <2>3. Set(ETHEREUM, setters)
    BY <1>12 DEF setters
  <2> QED
    BY <2>2, <2>3, SetKeeps
<1>13. CASE Set(ETHEREUM, EthereumValue \cup EthereumData)
  <2> DEFINE setters == EthereumValue \cup EthereumData
  <2>1. /\ Setter(Given("value"))
        /\ Setter(Cleared("value"))
        /\ Setter(Given("data"))
        /\ Setter(Cleared("data"))
    BY SetterMade, FieldNames
  <2>2. \A step \in setters : Setter(step)
    BY <2>1 DEF EthereumValue, EthereumData
  <2> HIDE DEF setters
  <2>3. Set(ETHEREUM, setters)
    BY <1>13 DEF setters
  <2> QED
    BY <2>2, <2>3, SetKeeps
<1> QED
  BY <1>1, <1>2, <1>3, <1>4, <1>5, <1>6, <1>7, <1>8, <1>9, <1>10, <1>11,
     <1>12, <1>13
     DEF EthereumWalletNext

(* api_platon.c, call by call.                                             *)
LEMMA PlatonKeeps ==
    ASSUME WalletInv, PlatonWalletNext PROVE WalletInv'
<1>1. CASE PlatonWalletInit
  BY <1>1, Web3Parts, WalletInitKeeps DEF PlatonWalletInit
<1>2. CASE PlatonWalletDeInit
  <2>1. wallet.holds \subseteq PlatonFrees
    BY <1>2, HeldFreed DEF PlatonWalletDeInit, WalletDeInit, PlatonFrees, Web3Protocols
  <2> QED
    BY <1>2, <2>1, WalletDeInitKeeps DEF PlatonWalletDeInit
<1>3. CASE PlatonGetBalance
  BY <1>3, AskKeeps DEF PlatonGetBalance
<1>4. CASE PlatonTxInit
  <2> DEFINE promised == {"price", "limit", "recipient"}
  <2>1. promised \in SUBSET (Fields \ {"nonce", "data"})
    BY FieldNames
  <2>2. \A steps \in PlatonPrograms : Delivers(steps, promised)
    BY PlatonDelivers
  <2>3. TxInit(PLATON, promised, PlatonPrograms)
    BY <1>4 DEF PlatonTxInit
  <2> HIDE DEF promised
  <2> QED
    BY <2>1, <2>2, <2>3, TxInitKeeps
<1>5. CASE PlatonTxSend
  BY <1>5, SendKeeps, ReceivedIsResult DEF PlatonTxSend, PlatonReceipt
<1>6. CASE PlatonCallContractFunc
  BY <1>6, AskKeeps DEF PlatonCallContractFunc
<1>7. CASE PlatonTransfer
  <2> DEFINE steps == TransferSteps
             wished == {"nonce", "value"}
  <2>1. Fulfils(steps, wished) /\ wished \in SUBSET Fields
    BY TransferFulfils, FieldNames
  <2>2. SetAndSend(PLATON, steps, wished, Received)
    BY <1>7 DEF PlatonTransfer, Transfer, PlatonReceipt
  <2> HIDE DEF steps, wished
  <2> QED
    BY <2>1, <2>2, SetAndSendKeeps, ReceivedIsResult
<1>8. CASE PlatonContract
  <2> DEFINE steps == <<Asked("nonce"), Check, Given("data")>>
             wished == {"nonce", "data"}
  <2>1. Fulfils(steps, wished) /\ wished \in SUBSET Fields
    BY ContractFulfils, FieldNames
  <2>2. SetAndSend(PLATON, steps, wished, Received)
    BY <1>8 DEF PlatonContract, Contract, PlatonReceipt
  <2> HIDE DEF steps, wished
  <2> QED
    BY <2>1, <2>2, SetAndSendKeeps, ReceivedIsResult
<1>9. CASE Set(PLATON, PlatonNonce \cup PlatonPrice \cup PlatonLimit
               \cup PlatonRecipient)
  <2> DEFINE setters == PlatonNonce \cup PlatonPrice \cup PlatonLimit
                        \cup PlatonRecipient
  <2>1. /\ Setter(Given("nonce"))
        /\ Setter(Asked("nonce"))
        /\ Setter(Given("price"))
        /\ Setter(Asked("price"))
        /\ Setter(Given("limit"))
        /\ Setter(Given("recipient"))
    BY SetterMade, FieldNames
  <2>2. \A step \in setters : Setter(step)
    BY <2>1 DEF PlatonNonce, PlatonPrice, PlatonLimit, PlatonRecipient
  <2> HIDE DEF setters
  <2>3. Set(PLATON, setters)
    BY <1>9 DEF setters
  <2> QED
    BY <2>2, <2>3, SetKeeps
<1>10. CASE Set(PLATON, PlatonValue \cup PlatonData)
  <2> DEFINE setters == PlatonValue \cup PlatonData
  <2>1. /\ Setter(Given("value"))
        /\ Setter(Cleared("value"))
        /\ Setter(Given("data"))
        /\ Setter(Cleared("data"))
    BY SetterMade, FieldNames
  <2>2. \A step \in setters : Setter(step)
    BY <2>1 DEF PlatonValue, PlatonData
  <2> HIDE DEF setters
  <2>3. Set(PLATON, setters)
    BY <1>10 DEF setters
  <2> QED
    BY <2>2, <2>3, SetKeeps
<1> QED
  BY <1>1, <1>2, <1>3, <1>4, <1>5, <1>6, <1>7, <1>8, <1>9, <1>10
     DEF PlatonWalletNext

(* api_platone.c, call by call.                                            *)
LEMMA PlatoneKeeps ==
    ASSUME WalletInv, PlatoneWalletNext PROVE WalletInv'
<1>1. CASE PlatoneWalletInit
  BY <1>1, Web3Parts, WalletInitKeeps DEF PlatoneWalletInit
<1>2. CASE PlatoneWalletDeInit
  <2>1. wallet.holds \subseteq PlatoneFrees
    BY <1>2, HeldFreed DEF PlatoneWalletDeInit, WalletDeInit, PlatoneFrees, Web3Protocols
  <2> QED
    BY <1>2, <2>1, WalletDeInitKeeps DEF PlatoneWalletDeInit
<1>3. CASE PlatoneGetBalance
  BY <1>3, AskKeeps DEF PlatoneGetBalance
<1>4. CASE PlatoneChangeNodeUrl
  BY <1>4, AskKeeps DEF PlatoneChangeNodeUrl
<1>5. CASE PlatoneChangeChainID
  BY <1>5, AskKeeps DEF PlatoneChangeChainID
<1>6. CASE PlatoneChangeEIP155Comp
  BY <1>6, AskKeeps DEF PlatoneChangeEIP155Comp
<1>7. CASE PlatoneTxInit
  <2> DEFINE promised == {"price", "limit", "recipient", "type"}
  <2>1. promised \in SUBSET (Fields \ {"nonce", "data"})
    BY FieldNames
  <2>2. \A steps \in PlatonePrograms : Delivers(steps, promised)
    BY PlatoneDelivers
  <2>3. TxInit(PLATONE, promised, PlatonePrograms)
    BY <1>7 DEF PlatoneTxInit
  <2> HIDE DEF promised
  <2> QED
    BY <2>1, <2>2, <2>3, TxInitKeeps
<1>8. CASE PlatoneTxSend
  BY <1>8, SendKeeps, ReceivedIsResult DEF PlatoneTxSend, PlatoneReceipt
<1>9. CASE PlatoneCallContractFunc
  BY <1>9, AskKeeps DEF PlatoneCallContractFunc
<1>10. CASE PlatoneTransfer
  <2> DEFINE steps == <<Asked("nonce"), Given("value"), Given("data")>>
             wished == {"nonce", "value", "data"}
  <2>1. Fulfils(steps, wished) /\ wished \in SUBSET Fields
    BY PlatoneTransferFulfils, FieldNames
  <2>2. SetAndSend(PLATONE, steps, wished, Received)
    BY <1>10 DEF PlatoneTransfer, Transfer, PlatoneReceipt
  <2> HIDE DEF steps, wished
  <2> QED
    BY <2>1, <2>2, SetAndSendKeeps, ReceivedIsResult
<1>11. CASE PlatoneContract
  <2> DEFINE steps == <<Asked("nonce"), Check, Given("data")>>
             wished == {"nonce", "data"}
  <2>1. Fulfils(steps, wished) /\ wished \in SUBSET Fields
    BY ContractFulfils, FieldNames
  <2>2. SetAndSend(PLATONE, steps, wished, Received)
    BY <1>11 DEF PlatoneContract, Contract, PlatoneReceipt
  <2> HIDE DEF steps, wished
  <2> QED
    BY <2>1, <2>2, SetAndSendKeeps, ReceivedIsResult
<1>12. CASE Set(PLATONE, PlatoneNonce \cup PlatonePrice \cup PlatoneLimit
                \cup PlatoneRecipient)
  <2> DEFINE setters == PlatoneNonce \cup PlatonePrice \cup PlatoneLimit
                        \cup PlatoneRecipient
  <2>1. /\ Setter(Given("nonce"))
        /\ Setter(Asked("nonce"))
        /\ Setter(Given("price"))
        /\ Setter(Asked("price"))
        /\ Setter(Given("limit"))
        /\ Setter(Given("recipient"))
    BY SetterMade, FieldNames
  <2>2. \A step \in setters : Setter(step)
    BY <2>1 DEF PlatoneNonce, PlatonePrice, PlatoneLimit, PlatoneRecipient
  <2> HIDE DEF setters
  <2>3. Set(PLATONE, setters)
    BY <1>12 DEF setters
  <2> QED
    BY <2>2, <2>3, SetKeeps
<1>13. CASE Set(PLATONE, PlatoneValue \cup PlatoneData)
  <2> DEFINE setters == PlatoneValue \cup PlatoneData
  <2>1. /\ Setter(Given("value"))
        /\ Setter(Cleared("value"))
        /\ Setter(Given("data"))
        /\ Setter(Cleared("data"))
    BY SetterMade, FieldNames
  <2>2. \A step \in setters : Setter(step)
    BY <2>1 DEF PlatoneValue, PlatoneData
  <2> HIDE DEF setters
  <2>3. Set(PLATONE, setters)
    BY <1>13 DEF setters
  <2> QED
    BY <2>2, <2>3, SetKeeps
<1>14. CASE Set(PLATONE, PlatoneTxtype)
  <2> DEFINE setters == PlatoneTxtype
  <2>1. /\ Setter(Given("type"))
    BY SetterMade, FieldNames
  <2>2. \A step \in setters : Setter(step)
    BY <2>1 DEF PlatoneTxtype
  <2> HIDE DEF setters
  <2>3. Set(PLATONE, setters)
    BY <1>14 DEF setters
  <2> QED
    BY <2>2, <2>3, SetKeeps
<1> QED
  BY <1>1, <1>2, <1>3, <1>4, <1>5, <1>6, <1>7, <1>8, <1>9, <1>10, <1>11,
     <1>12, <1>13, <1>14
     DEF PlatoneWalletNext

(* api_quorum.c, call by call.                                             *)
LEMMA QuorumKeeps ==
    ASSUME WalletInv, QuorumWalletNext PROVE WalletInv'
<1>1. CASE QuorumWalletInit
  BY <1>1, Web3Parts, WalletInitKeeps DEF QuorumWalletInit
<1>2. CASE QuorumWalletDeInit
  <2>1. wallet.holds \subseteq QuorumFrees
    BY <1>2, HeldFreed DEF QuorumWalletDeInit, WalletDeInit, QuorumFrees, Web3Protocols
  <2> QED
    BY <1>2, <2>1, WalletDeInitKeeps DEF QuorumWalletDeInit
<1>3. CASE QuorumGetBalance
  BY <1>3, AskKeeps DEF QuorumGetBalance
<1>4. CASE QuorumSetChainId
  BY <1>4, AskKeeps DEF QuorumSetChainId
<1>5. CASE QuorumTxInit
  <2> DEFINE promised == {"limit", "recipient"}
  <2>1. promised \in SUBSET (Fields \ {"nonce", "data"})
    BY FieldNames
  <2>2. \A steps \in QuorumPrograms : Delivers(steps, promised)
    BY QuorumDelivers
  <2>3. TxInit(QUORUM, promised, QuorumPrograms)
    BY <1>5 DEF QuorumTxInit
  <2> HIDE DEF promised
  <2> QED
    BY <2>1, <2>2, <2>3, TxInitKeeps
<1>6. CASE QuorumTxSend
  BY <1>6, SendKeeps, ReceivedIsResult DEF QuorumTxSend, QuorumReceipt
<1>7. CASE QuorumCallContractFunc
  BY <1>7, AskKeeps DEF QuorumCallContractFunc
<1>8. CASE QuorumTransfer
  <2> DEFINE steps == TransferSteps
             wished == {"nonce", "value"}
  <2>1. Fulfils(steps, wished) /\ wished \in SUBSET Fields
    BY TransferFulfils, FieldNames
  <2>2. SetAndSend(QUORUM, steps, wished, Received)
    BY <1>8 DEF QuorumTransfer, Transfer, QuorumReceipt
  <2> HIDE DEF steps, wished
  <2> QED
    BY <2>1, <2>2, SetAndSendKeeps, ReceivedIsResult
<1>9. CASE QuorumContract
  <2> DEFINE steps == <<Asked("nonce"), Check, Given("data")>>
             wished == {"nonce", "data"}
  <2>1. Fulfils(steps, wished) /\ wished \in SUBSET Fields
    BY ContractFulfils, FieldNames
  <2>2. SetAndSend(QUORUM, steps, wished, Received)
    BY <1>9 DEF QuorumContract, Contract, QuorumReceipt
  <2> HIDE DEF steps, wished
  <2> QED
    BY <2>1, <2>2, SetAndSendKeeps, ReceivedIsResult
<1>10. CASE Set(QUORUM, QuorumNonce \cup QuorumLimit \cup QuorumRecipient)
  <2> DEFINE setters == QuorumNonce \cup QuorumLimit \cup QuorumRecipient
  <2>1. /\ Setter(Given("nonce"))
        /\ Setter(Asked("nonce"))
        /\ Setter(Given("limit"))
        /\ Setter(Given("recipient"))
    BY SetterMade, FieldNames
  <2>2. \A step \in setters : Setter(step)
    BY <2>1 DEF QuorumNonce, QuorumLimit, QuorumRecipient
  <2> HIDE DEF setters
  <2>3. Set(QUORUM, setters)
    BY <1>10 DEF setters
  <2> QED
    BY <2>2, <2>3, SetKeeps
<1>11. CASE Set(QUORUM, QuorumValue \cup QuorumData)
  <2> DEFINE setters == QuorumValue \cup QuorumData
  <2>1. /\ Setter(Given("value"))
        /\ Setter(Cleared("value"))
        /\ Setter(Given("data"))
        /\ Setter(Cleared("data"))
    BY SetterMade, FieldNames
  <2>2. \A step \in setters : Setter(step)
    BY <2>1 DEF QuorumValue, QuorumData
  <2> HIDE DEF setters
  <2>3. Set(QUORUM, setters)
    BY <1>11 DEF setters
  <2> QED
    BY <2>2, <2>3, SetKeeps
<1> QED
  BY <1>1, <1>2, <1>3, <1>4, <1>5, <1>6, <1>7, <1>8, <1>9, <1>10, <1>11
     DEF QuorumWalletNext

(* api_venachain.c, call by call.                                          *)
LEMMA VenachainKeeps ==
    ASSUME WalletInv, VenachainWalletNext PROVE WalletInv'
<1>1. CASE VenachainWalletInit
  BY <1>1, Web3Parts, WalletInitKeeps DEF VenachainWalletInit
<1>2. CASE VenachainWalletDeInit
  <2>1. wallet.holds \subseteq VenachainFrees
    BY <1>2, HeldFreed DEF VenachainWalletDeInit, WalletDeInit, VenachainFrees, Web3Protocols
  <2> QED
    BY <1>2, <2>1, WalletDeInitKeeps DEF VenachainWalletDeInit
<1>3. CASE VenachainGetBalance
  BY <1>3, AskKeeps DEF VenachainGetBalance
<1>4. CASE VenachainChangeNodeUrl
  BY <1>4, AskKeeps DEF VenachainChangeNodeUrl
<1>5. CASE VenachainChangeChainID
  BY <1>5, AskKeeps DEF VenachainChangeChainID
<1>6. CASE VenachainChangeEIP155Comp
  BY <1>6, AskKeeps DEF VenachainChangeEIP155Comp
<1>7. CASE VenachainTxInit
  <2> DEFINE promised == {"price", "limit", "recipient"}
  <2>1. promised \in SUBSET (Fields \ {"nonce", "data"})
    BY FieldNames
  <2>2. \A steps \in VenachainPrograms : Delivers(steps, promised)
    BY VenachainDelivers
  <2>3. TxInit(VENACHAIN, promised, VenachainPrograms)
    BY <1>7 DEF VenachainTxInit
  <2> HIDE DEF promised
  <2> QED
    BY <2>1, <2>2, <2>3, TxInitKeeps
<1>8. CASE VenachainTxSend
  BY <1>8, SendKeeps, ReceivedIsResult DEF VenachainTxSend, VenachainReceipt
<1>9. CASE VenachainCallContractFunc
  BY <1>9, AskKeeps DEF VenachainCallContractFunc
<1>10. CASE VenachainTransfer
  <2> DEFINE steps == TransferSteps
             wished == {"nonce", "value"}
  <2>1. Fulfils(steps, wished) /\ wished \in SUBSET Fields
    BY TransferFulfils, FieldNames
  <2>2. SetAndSend(VENACHAIN, steps, wished, Received)
    BY <1>10 DEF VenachainTransfer, Transfer, VenachainReceipt
  <2> HIDE DEF steps, wished
  <2> QED
    BY <2>1, <2>2, SetAndSendKeeps, ReceivedIsResult
<1>11. CASE VenachainContract
  <2> DEFINE steps == <<Asked("nonce"), Check, Given("data")>>
             wished == {"nonce", "data"}
  <2>1. Fulfils(steps, wished) /\ wished \in SUBSET Fields
    BY ContractFulfils, FieldNames
  <2>2. SetAndSend(VENACHAIN, steps, wished, Received)
    BY <1>11 DEF VenachainContract, Contract, VenachainReceipt
  <2> HIDE DEF steps, wished
  <2> QED
    BY <2>1, <2>2, SetAndSendKeeps, ReceivedIsResult
<1>12. CASE Set(VENACHAIN, VenachainNonce \cup VenachainPrice
                \cup VenachainLimit \cup VenachainRecipient)
  <2> DEFINE setters == VenachainNonce \cup VenachainPrice
                        \cup VenachainLimit \cup VenachainRecipient
  <2>1. /\ Setter(Given("nonce"))
        /\ Setter(Asked("nonce"))
        /\ Setter(Given("price"))
        /\ Setter(Asked("price"))
        /\ Setter(Given("limit"))
        /\ Setter(Given("recipient"))
    BY SetterMade, FieldNames
  <2>2. \A step \in setters : Setter(step)
    BY <2>1 DEF VenachainNonce, VenachainPrice, VenachainLimit, VenachainRecipient
  <2> HIDE DEF setters
  <2>3. Set(VENACHAIN, setters)
    BY <1>12 DEF setters
  <2> QED
    BY <2>2, <2>3, SetKeeps
<1>13. CASE Set(VENACHAIN, VenachainValue \cup VenachainData)
  <2> DEFINE setters == VenachainValue \cup VenachainData
  <2>1. /\ Setter(Given("value"))
        /\ Setter(Cleared("value"))
        /\ Setter(Given("data"))
        /\ Setter(Cleared("data"))
    BY SetterMade, FieldNames
  <2>2. \A step \in setters : Setter(step)
    BY <2>1 DEF VenachainValue, VenachainData
  <2> HIDE DEF setters
  <2>3. Set(VENACHAIN, setters)
    BY <1>13 DEF setters
  <2> QED
    BY <2>2, <2>3, SetKeeps
<1> QED
  BY <1>1, <1>2, <1>3, <1>4, <1>5, <1>6, <1>7, <1>8, <1>9, <1>10, <1>11,
     <1>12, <1>13
     DEF VenachainWalletNext

(* api_fiscobcos.c, call by call.                                          *)
LEMMA FiscobcosKeeps ==
    ASSUME WalletInv, FiscobcosWalletNext PROVE WalletInv'
<1>1. CASE FiscobcosWalletInit
  BY <1>1, Web3Parts, WalletInitKeeps DEF FiscobcosWalletInit
<1>2. CASE FiscobcosWalletDeInit
  <2>1. wallet.holds \subseteq FiscobcosFrees
    BY <1>2, HeldFreed DEF FiscobcosWalletDeInit, WalletDeInit, FiscobcosFrees, Web3Protocols
  <2> QED
    BY <1>2, <2>1, WalletDeInitKeeps DEF FiscobcosWalletDeInit
<1>3. CASE FiscobcosTxInit
  <2> DEFINE promised == {"price", "limit", "recipient", "chain", "group", "block"}
  <2>1. promised \in SUBSET (Fields \ {"nonce", "data"})
    BY FieldNames
  <2>2. \A steps \in FiscobcosPrograms : Delivers(steps, promised)
    BY FiscobcosDelivers
  <2>3. TxInit(FISCOBCOS, promised, FiscobcosPrograms)
    BY <1>3 DEF FiscobcosTxInit
  <2> HIDE DEF promised
  <2> QED
    BY <2>1, <2>2, <2>3, TxInitKeeps
<1>4. CASE FiscobcosTxSend
  BY <1>4, SendKeeps, ReceivedIsResult DEF FiscobcosTxSend, FiscobcosReceipt
<1>5. CASE FiscobcosCallContractFunc
  BY <1>5, AskKeeps DEF FiscobcosCallContractFunc
<1>6. CASE FiscobcosContract
  <2> DEFINE steps == <<Random("nonce"), Check, Given("data")>>
             wished == {"nonce", "data"}
  <2>1. Fulfils(steps, wished) /\ wished \in SUBSET Fields
    BY ContractFulfils, FieldNames
  <2>2. SetAndSend(FISCOBCOS, steps, wished, Received)
    BY <1>6 DEF FiscobcosContract, Contract, FiscobcosReceipt
  <2> HIDE DEF steps, wished
  <2> QED
    BY <2>1, <2>2, SetAndSendKeeps, ReceivedIsResult
<1>7. CASE Set(FISCOBCOS, FiscobcosNonce \cup FiscobcosPrice
               \cup FiscobcosLimit \cup FiscobcosRecipient)
  <2> DEFINE setters == FiscobcosNonce \cup FiscobcosPrice
                        \cup FiscobcosLimit \cup FiscobcosRecipient
  <2>1. /\ Setter(Given("nonce"))
        /\ Setter(Random("nonce"))
        /\ Setter(Given("price"))
        /\ Setter(Given("limit"))
        /\ Setter(Given("recipient"))
    BY SetterMade, FieldNames
  <2>2. \A step \in setters : Setter(step)
    BY <2>1 DEF FiscobcosNonce, FiscobcosPrice, FiscobcosLimit, FiscobcosRecipient
  <2> HIDE DEF setters
  <2>3. Set(FISCOBCOS, setters)
    BY <1>7 DEF setters
  <2> QED
    BY <2>2, <2>3, SetKeeps
<1>8. CASE Set(FISCOBCOS, FiscobcosValue \cup FiscobcosData)
  <2> DEFINE setters == FiscobcosValue \cup FiscobcosData
  <2>1. /\ Setter(Given("value"))
        /\ Setter(Cleared("value"))
        /\ Setter(Given("data"))
        /\ Setter(Cleared("data"))
    BY SetterMade, FieldNames
  <2>2. \A step \in setters : Setter(step)
    BY <2>1 DEF FiscobcosValue, FiscobcosData
  <2> HIDE DEF setters
  <2>3. Set(FISCOBCOS, setters)
    BY <1>8 DEF setters
  <2> QED
    BY <2>2, <2>3, SetKeeps
<1> QED
  BY <1>1, <1>2, <1>3, <1>4, <1>5, <1>6, <1>7, <1>8
     DEF FiscobcosWalletNext

(* api_cita.c, call by call.                                               *)
LEMMA CitaKeeps ==
    ASSUME WalletInv, CitaWalletNext PROVE WalletInv'
<1>1. CASE CitaWalletInit
  BY <1>1, Web3Parts, WalletInitKeeps DEF CitaWalletInit
<1>2. CASE CitaWalletDeInit
  <2>1. wallet.holds \subseteq CitaFrees
    BY <1>2, HeldFreed DEF CitaWalletDeInit, WalletDeInit, CitaFrees, Web3Protocols
  <2> QED
    BY <1>2, <2>1, WalletDeInitKeeps DEF CitaWalletDeInit
<1>3. CASE CitaTxInit
  <2> DEFINE promised == {"recipient", "limit", "block"}
  <2>1. promised \in SUBSET (Fields \ {"nonce", "data"})
    BY FieldNames
  <2>2. \A steps \in CitaPrograms : Delivers(steps, promised)
    BY CitaDelivers
  <2>3. TxInit(CITA, promised, CitaPrograms)
    BY <1>3 DEF CitaTxInit
  <2> HIDE DEF promised
  <2> QED
    BY <2>1, <2>2, <2>3, TxInitKeeps
<1>4. CASE CitaTxSend
  BY <1>4, SendKeeps, ReceivedIsResult DEF CitaTxSend, CitaReceipt
<1>5. CASE CitaCallContractFunc
  BY <1>5, AskKeeps DEF CitaCallContractFunc
<1>6. CASE CitaContract
  <2> DEFINE steps == <<Random("nonce"), Check, Given("data")>>
             wished == {"nonce", "data"}
  <2>1. Fulfils(steps, wished) /\ wished \in SUBSET Fields
    BY ContractFulfils, FieldNames
  <2>2. SetAndSend(CITA, steps, wished, Received)
    BY <1>6 DEF CitaContract, Contract, CitaReceipt
  <2> HIDE DEF steps, wished
  <2> QED
    BY <2>1, <2>2, SetAndSendKeeps, ReceivedIsResult
<1>7. CASE Set(CITA, CitaNonce \cup CitaLimit \cup CitaRecipient)
  <2> DEFINE setters == CitaNonce \cup CitaLimit \cup CitaRecipient
  <2>1. /\ Setter(Given("nonce"))
        /\ Setter(Random("nonce"))
        /\ Setter(Given("limit"))
        /\ Setter(Given("recipient"))
    BY SetterMade, FieldNames
  <2>2. \A step \in setters : Setter(step)
    BY <2>1 DEF CitaNonce, CitaLimit, CitaRecipient
  <2> HIDE DEF setters
  <2>3. Set(CITA, setters)
    BY <1>7 DEF setters
  <2> QED
    BY <2>2, <2>3, SetKeeps
<1>8. CASE Set(CITA, CitaValue \cup CitaData)
  <2> DEFINE setters == CitaValue \cup CitaData
  <2>1. /\ Setter(Given("value"))
        /\ Setter(Cleared("value"))
        /\ Setter(Given("data"))
        /\ Setter(Cleared("data"))
    BY SetterMade, FieldNames
  <2>2. \A step \in setters : Setter(step)
    BY <2>1 DEF CitaValue, CitaData
  <2> HIDE DEF setters
  <2>3. Set(CITA, setters)
    BY <1>8 DEF setters
  <2> QED
    BY <2>2, <2>3, SetKeeps
<1> QED
  BY <1>1, <1>2, <1>3, <1>4, <1>5, <1>6, <1>7, <1>8
     DEF CitaWalletNext

(* api_chainmaker.c, call by call.                                         *)
LEMMA ChainmakerKeeps ==
    ASSUME WalletInv, ChainmakerWalletNext PROVE WalletInv'
<1>1. CASE ChainmakerWalletInit
  BY <1>1, Http2Parts, WalletInitKeeps DEF ChainmakerWalletInit
<1>2. CASE ChainmakerWalletDeInit
  BY <1>2, HeldFreed, WalletDeInitKeeps DEF ChainmakerWalletDeInit, ChainmakerFrees
<1> QED
  BY <1>1, <1>2 DEF ChainmakerWalletNext

(* api_hlfabric.c, call by call.                                           *)
LEMMA HlfabricKeeps ==
    ASSUME WalletInv, HlfabricWalletNext PROVE WalletInv'
<1>1. CASE HlfabricWalletInit
  BY <1>1, Http2Parts, WalletInitKeeps DEF HlfabricWalletInit
<1>2. CASE HlfabricWalletDeInit
  BY <1>2, HeldFreed, WalletDeInitKeeps DEF HlfabricWalletDeInit, HlfabricFrees
<1>3. CASE HlfabricTxInit
  <2>1. \A names \in HlfabricGiven : names \subseteq Strings
    BY DEF HlfabricGiven, Strings
  <2> QED
    BY <1>3, <2>1, CopyStringsKeeps DEF HlfabricTxInit
<1>4. CASE HlfabricTxDeInit
  BY <1>4, HeldFreed, FreeStringsKeeps DEF HlfabricTxDeInit, HlfabricFrees, HlfabricTexts
<1> QED
  BY <1>1, <1>2, <1>3, <1>4 DEF HlfabricWalletNext

(* api_hw_bcs.c, call by call.                                             *)
LEMMA HwbcsKeeps ==
    ASSUME WalletInv, HwbcsWalletNext PROVE WalletInv'
<1>1. CASE HwbcsWalletInit
  BY <1>1, Http2Parts, WalletInitKeeps DEF HwbcsWalletInit
<1>2. CASE HwbcsWalletDeInit
  BY <1>2, HeldFreed, WalletDeInitKeeps DEF HwbcsWalletDeInit, HwbcsFrees
<1>3. CASE HwbcsTxInit
  <2>1. \A names \in HwbcsGiven : names \subseteq Strings
    BY DEF HwbcsGiven, Strings
  <2> QED
    BY <1>3, <2>1, CopyStringsKeeps DEF HwbcsTxInit
<1>4. CASE HwbcsTxDeInit
  BY <1>4, HeldFreed, FreeStringsKeeps DEF HwbcsTxDeInit, HwbcsFrees, HwbcsTexts
<1> QED
  BY <1>1, <1>2, <1>3, <1>4 DEF HwbcsWalletNext

(* No wallet and no transaction, and nothing allocated.                    *)
LEMMA EmptyHeap ==
    ASSUME wallet = NoWallet, txs = [t \in Txs |-> NoTx], heap = {},
           orphans \subseteq 1..calls, calls \in Nat
    PROVE  MemoryTyped /\ PartsHeld /\ HeapBalanced
<1>1. /\ DOMAIN wallet = {"protocol", "id", "holds"} /\ wallet.id = 0
      /\ wallet.holds = {}
  BY DEF NoWallet
<1>2. DOMAIN txs = Txs /\ \A t \in Txs : txs[t] = NoTx
  OBVIOUS
<1>3. NoTx.strings = {} /\ NoTx.wallet = 0 /\ NoTx.unset = Strings
  BY DEF NoTx
<1>4. 0 \in 0..calls
  OBVIOUS
<1>5. MemoryTyped
  BY <1>1, <1>2, <1>3, <1>4 DEF MemoryTyped
<1>6. PartsHeld
  BY <1>1 DEF PartsHeld
<1>7. HeapBalanced
  BY <1>2, <1>3 DEF HeapBalanced, Alive
<1> QED
  BY <1>5, <1>6, <1>7

(* WalletInv is inductive.                                                 *)
LEMMA WalletInvHolds == WalletsSpec => []WalletInv
<1>1. WalletsInit => WalletInv
  <2> SUFFICES ASSUME WalletsInit PROVE WalletInv
    OBVIOUS
  <2>0. MemoryTyped /\ PartsHeld /\ HeapBalanced
    BY EmptyHeap DEF WalletsInit
  <2>1. WalletsTypeOK
    <3>1. calls = 0 /\ 0 \in 0..MaxCalls /\ 0 \in 0..0
      BY WalletAssumption DEF WalletsInit
    <3>2. tx \in [Fields -> 0..calls] /\ want \in [Fields -> {Unknown} \cup 0..calls]
      BY <3>1 DEF WalletsInit, Zeroed, Nothing
    <3>3. storage = {} /\ sync = FALSE /\ last = "none"
      BY DEF WalletsInit
    <3> QED
      BY <2>0, <3>1, <3>2, <3>3 DEF WalletsTypeOK, MemoryTyped, Results
  <2>3. Believed
    BY FieldNames DEF WalletsInit, Believed, Nothing
  <2>4. SentAsAsked
    BY DEF WalletsInit, SentAsAsked, NotPosted
  <2> QED
    BY <2>0, <2>1, <2>3, <2>4 DEF WalletInv
<1>2. WalletInv /\ [WalletsNext]_walletsVars => WalletInv'
  <2> SUFFICES ASSUME WalletInv, [WalletsNext]_walletsVars PROVE WalletInv'
    OBVIOUS
  <2>1. CASE WalletsNext
    BY <2>1, EthereumKeeps, PlatonKeeps, PlatoneKeeps, QuorumKeeps, VenachainKeeps,
       FiscobcosKeeps, CitaKeeps, ChainmakerKeeps, HlfabricKeeps, HwbcsKeeps,
       FreeDataKeeps DEF WalletsNext
  <2>2. CASE UNCHANGED walletsVars
    BY <2>2 DEF walletsVars, WalletInv, WalletsTypeOK, Block, HeapBalanced, InUse, Alive,
                PartsOf, PartsHeld, Believed, SentAsAsked
  <2> QED
    BY <2>1, <2>2
<1> QED
  BY <1>1, <1>2, PTL DEF WalletsSpec

(* Every call of the ten wallets leaves a state that is well typed and     *)
(* returns one of its results, for any number of calls and of polls.       *)
THEOREM WalletsTypeCorrect == WalletsSpec => []WalletsTypeOK
<1>1. WalletInv => WalletsTypeOK
  BY DEF WalletInv
<1> QED
  BY <1>1, WalletInvHolds, PTL

(* Blocks are lost only by wallet initialisations that fail and by txs     *)
(* that are initialised again, what wallet and txs point to is there, and  *)
(* a freed wallet that the application still points to was freed with a    *)
(* tx: for any number of txs and calls, up to a use of freed memory.       *)
THEOREM WalletsHeapBalanced == WalletsSpec => []HeapBalanced
<1>1. WalletInv => HeapBalanced
  BY DEF WalletInv
<1> QED
  BY <1>1, WalletInvHolds, PTL

(* What is sent is what the application asked for last, field by field,    *)
(* and its data is read from storage that still is: of all ten wallets and *)
(* whatever calls came before, failed ones among them.                     *)
THEOREM WalletsSendAsAsked == WalletsSpec => []SentAsAsked
<1>1. WalletInv => SentAsAsked
  BY DEF WalletInv
<1> QED
  BY <1>1, WalletInvHolds, PTL

=============================================================================
