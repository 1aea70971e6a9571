------------------------------ MODULE Keystore ------------------------------
(***************************************************************************)
(* The keypair store of the SDK: sdk/keypair/boatkeypair.c on top of the   *)
(* software keystore vendor/keystore/soft/boat_keystore.c.                 *)
(*                                                                         *)
(* A persistent keypair lives in two regions of one file: kp holds its     *)
(* index and public key, pk its index and private key.  BoatKeypairCreate  *)
(* and BoATIotKeypairDelete change both with a series of storage writes,   *)
(* and each of them can fail, or be the last one before a power loss.      *)
(* Every action below is the code from one storage write to the next, so   *)
(* a state between two actions is what a crash would leave in flash.       *)
(* The SDK takes no lock: one call runs at a time.                         *)
(*                                                                         *)
(* The onetime keypair (index 0) lives in RAM, where a write cannot fail   *)
(* and which no power loss leaves half written: creating or deleting it is *)
(* one action, with every way out the code has.                            *)
(***************************************************************************)
EXTENDS RecordRegion

CONSTANTS Fits,        \* how many records BOAT_STORAGE_KEYPAIR_MAXLEN has room for
          FaultKinds,  \* the failures that happen, among AllFaults
          MaxFaults    \* bound: how many failures a behaviour has

AllFaults == {"write", "read", "alloc", "crash"}

ASSUME KeystoreAssumption ==
    /\ MaxKeypairs > 1   \* boatkeypair.h: 5; a second onetime keypair needs room for it
    /\ Fits \in Indexes
    /\ FaultKinds \subseteq AllFaults
    /\ MaxFaults \in Nat

VARIABLES kp,      \* BOAT_STORE_KEYPAIR region of the flash file
          pk,      \* BOAT_STORE_PRIKEY region of the flash file
          onetime, \* which of RAM_BOAT_DATA, RAM_BOAT_PRIKEY_DATA hold index 0
          pc,      \* which storage write the running call does next
          loc,     \* the locals of the running call
          ok,      \* whether the last call that returned succeeded
          faults   \* failures so far

vars == <<kp, pk, onetime, pc, loc, ok, faults>>

Steps == {"idle",
          "storeRec", "storeNum", "pkCheck", "pkRec", "pkNum",
          "delCheck", "delNum", "delData", "delUndo",
          "dpkCheck", "dpkNum", "dpkData", "dpkUndo",
          "restoreRec", "restoreNum"}

\* op: the API call; index, key: the keypair it is about; n, at: the count
\* read from the region being changed and the position found in it; rec: the
\* record a delete keeps to restore it (restorekeypair).
Locals == [op : {"none", "create", "delete"}, index : 0..MaxKeypairs,
           key : Keys \cup {NoKey}, n : 0..MaxKeypairs, at : 0..MaxKeypairs,
           rec : Slot]

Call(op, index, key) ==
    [op |-> op, index |-> index, key |-> key, n |-> 0, at |-> 0, rec |-> Erased]

NoCall == Call("none", 0, NoKey)

Init ==
    /\ kp = EmptyRegion
    /\ pk = EmptyRegion
    /\ onetime = {}
    /\ pc = "idle"
    /\ loc = NoCall
    /\ ok = TRUE
    /\ faults = 0

-----------------------------------------------------------------------------
(* Building blocks *)

Fault(kind) ==
    /\ kind \in FaultKinds
    /\ faults < MaxFaults
    /\ faults' = faults + 1

GoTo(step, l) == pc' = step /\ loc' = l /\ UNCHANGED ok

Return(success) ==
    /\ pc' = "idle"
    /\ loc' = NoCall
    /\ ok' = success

(* BoATIotKeypairDelete returns: to the application, or to the create that *)
(* called it to take a half made keypair back and fails in any case.       *)
ReturnDelete(success) == Return(success /\ loc.op = "delete")

(* Reading the count field: a failed read passes for an empty region.      *)
CountRead(r, n) ==
    \/ n = Num(r) /\ UNCHANGED faults
    \/ n = 0 /\ Fault("read")

-----------------------------------------------------------------------------
(* BoatKeypairCreate, BOAT_STORE_TYPE_FLASH *)

FreeIndex(used) ==
    CHOOSE i \in Indexes : i \notin used /\ \A j \in 1..(i - 1) : j \in used

(* BoATKeypair_GetFreeIndex_From_Persistent.  It goes on with the entries  *)
(* it has when BoATKeypair_GetKeypairList stops at a record it cannot      *)
(* read, and sees an empty list when the count itself cannot be read.      *)
CreateFlash(key) ==
    /\ pc = "idle"
    /\ \E n \in 0..Num(kp) :
        /\ \/ n = Num(kp) /\ UNCHANGED faults
           \/ n < Num(kp) /\ Fault("read")
        /\ IF Num(kp) = MaxKeypairs /\ (n > 0 \/ faults' = faults)
           THEN ok' = FALSE /\ UNCHANGED <<pc, loc>>
           ELSE GoTo("storeRec",
                     Call("create", FreeIndex({kp.slot[p].index : p \in 1..n}), key))
    /\ UNCHANGED <<kp, pk, onetime>>

(* BoATKeypair_DataCtx_Store up to its first write: append the record      *)
(* after the ones counted.  No room, no memory, or a record on the way     *)
(* that cannot be read: the caller gets an error and nothing was written.  *)
AppendKeypair(rec, next) ==
    \/ \E n \in 0..MaxKeypairs :
        /\ CountRead(kp, n)
        /\ n + 1 <= Fits
        /\ kp' = Put(kp, n + 1, rec)
        /\ GoTo(next, [loc EXCEPT !.n = n])
    \/ /\ \/ Num(kp) + 1 > Fits /\ UNCHANGED faults
          \/ Fault("write")
          \/ Fault("alloc")
          \/ Num(kp) > 0 /\ Fault("read")
       /\ Return(FALSE)
       /\ UNCHANGED kp

StoreRecord ==
    /\ pc = "storeRec"
    /\ AppendKeypair([index |-> loc.index, key |-> loc.key], "storeNum")
    /\ UNCHANGED <<pk, onetime>>

StoreNum ==
    /\ pc = "storeNum"
    /\ \/ /\ kp' = SetNum(kp, loc.n + 1)
          /\ GoTo("pkCheck", loc)
          /\ UNCHANGED faults
       \/ Fault("write") /\ Return(FALSE) /\ UNCHANGED kp
    /\ UNCHANGED <<pk, onetime>>

(* Mutant: the scan for a private key with that index is left out.         *)
CheckPrikeyBlind ==
    /\ pc = "pkCheck"
    /\ \E n \in 0..MaxKeypairs :
        /\ CountRead(pk, n)
        /\ GoTo(IF n < MaxKeypairs THEN "pkRec" ELSE "delCheck",
                [loc EXCEPT !.n = n])
    /\ UNCHANGED <<kp, pk, onetime>>

(* BoAT_Keystore_store_prikey before its first write.                      *)
CheckPrikey ==
    /\ pc = "pkCheck"
    /\ \/ \E n \in 0..MaxKeypairs :
            /\ CountRead(pk, n)
            /\ IF n < MaxKeypairs
                  /\ \A p \in 1..n : pk.slot[p].index # loc.index
               THEN GoTo("pkRec", [loc EXCEPT !.n = n])
               ELSE GoTo("delCheck", loc)
       \/ Num(pk) > 0 /\ Fault("read") /\ GoTo("delCheck", loc)
    /\ UNCHANGED <<kp, pk, onetime>>

PrikeyRecord ==
    /\ pc = "pkRec"
    /\ \/ /\ pk' = Put(pk, loc.n + 1, [index |-> loc.index, key |-> loc.key])
          /\ GoTo("pkNum", loc)
          /\ UNCHANGED faults
       \/ /\ Fault("write") \/ Fault("alloc")
          /\ GoTo("delCheck", loc)
          /\ UNCHANGED pk
    /\ UNCHANGED <<kp, onetime>>

PrikeyNum ==
    /\ pc = "pkNum"
    /\ \/ pk' = SetNum(pk, loc.n + 1) /\ Return(TRUE) /\ UNCHANGED faults
       \/ Fault("write") /\ GoTo("delCheck", loc) /\ UNCHANGED pk
    /\ UNCHANGED <<kp, onetime>>

-----------------------------------------------------------------------------
(* BoATIotKeypairDelete, index 1 and up: called by the application, or by  *)
(* BoatKeypairCreate when the private key could not be stored.             *)

DeleteFlash(i) ==
    /\ pc = "idle"
    /\ GoTo("delCheck", Call("delete", i, NoKey))
    /\ UNCHANGED <<kp, pk, onetime, faults>>

FindKeypair ==
    /\ pc = "delCheck"
    /\ \/ /\ HasIndex(kp, loc.index)
          /\ LET p == Position(kp, loc.index)
             IN GoTo("delNum", [loc EXCEPT !.n = Num(kp), !.at = p,
                                           !.rec = kp.slot[p]])
          /\ UNCHANGED faults
       \/ /\ \/ ~HasIndex(kp, loc.index) /\ UNCHANGED faults
             \/ Fault("read")
             \/ HasIndex(kp, loc.index) /\ Fault("alloc")
          /\ ReturnDelete(FALSE)
    /\ UNCHANGED <<kp, pk, onetime>>

(* Mutant: the count is cleared, as it is for the onetime keypair.         *)
DeleteNumClears ==
    /\ pc = "delNum"
    /\ kp' = SetNum(kp, 0)
    /\ GoTo("delData", loc)
    /\ UNCHANGED <<pk, onetime, faults>>

DeleteNum ==
    /\ pc = "delNum"
    /\ \/ /\ kp' = SetNum(kp, loc.n - 1)
          /\ GoTo("delData", loc)
          /\ UNCHANGED faults
       \/ Fault("write") /\ ReturnDelete(FALSE) /\ UNCHANGED kp
    /\ UNCHANGED <<pk, onetime>>

(* The last record is erased; for any other one its successors are read    *)
(* into a buffer and written back one place down.                          *)
DeleteData ==
    /\ pc = "delData"
    /\ \/ /\ kp' = Drop(kp, loc.at, loc.n)
          /\ GoTo("dpkCheck", loc)
          /\ UNCHANGED faults
       \/ /\ \/ Fault("write")
             \/ loc.at < loc.n /\ (Fault("read") \/ Fault("alloc"))
          /\ GoTo("delUndo", loc)
          /\ UNCHANGED kp
    /\ UNCHANGED <<pk, onetime>>

(* Mutant: the count written back is the new one.                          *)
DeleteUndoNew ==
    /\ pc = "delUndo"
    /\ kp' = SetNum(kp, loc.n - 1)
    /\ ReturnDelete(FALSE)
    /\ UNCHANGED <<pk, onetime, faults>>

(* boat_catch: write the old count back.                                   *)
DeleteUndo ==
    /\ pc = "delUndo"
    /\ \/ kp' = SetNum(kp, loc.n) /\ ReturnDelete(FALSE) /\ UNCHANGED faults
       \/ Fault("write") /\ ReturnDelete(FALSE) /\ UNCHANGED kp
    /\ UNCHANGED <<pk, onetime>>

(* BoAT_DeletePirkeyByIndex.  An error makes the caller restore the        *)
(* keypair record it has just removed.                                     *)
FindPrikey ==
    /\ pc = "dpkCheck"
    /\ \/ /\ HasIndex(pk, loc.index)
          /\ GoTo("dpkNum", [loc EXCEPT !.n = Num(pk),
                                        !.at = Position(pk, loc.index)])
          /\ UNCHANGED faults
       \/ pk.num = 0 /\ ReturnDelete(TRUE) /\ UNCHANGED faults
       \/ /\ \/ pk.num # 0 /\ ~HasIndex(pk, loc.index) /\ UNCHANGED faults
             \/ Fault("read")
          /\ GoTo("restoreRec", loc)
    /\ UNCHANGED <<kp, pk, onetime>>

DeletePrikeyNum ==
    /\ pc = "dpkNum"
    /\ \/ /\ pk' = SetNum(pk, loc.n - 1)
          /\ GoTo("dpkData", loc)
          /\ UNCHANGED faults
       \/ Fault("write") /\ GoTo("restoreRec", loc) /\ UNCHANGED pk
    /\ UNCHANGED <<kp, onetime>>

DeletePrikeyData ==
    /\ pc = "dpkData"
    /\ \/ /\ pk' = Drop(pk, loc.at, loc.n)
          /\ ReturnDelete(TRUE)
          /\ UNCHANGED faults
       \/ /\ \/ Fault("write")
             \/ loc.at < loc.n /\ (Fault("read") \/ Fault("alloc"))
          /\ GoTo("dpkUndo", loc)
          /\ UNCHANGED pk
    /\ UNCHANGED <<kp, onetime>>

(* boat_catch: when the old count is back in place the function falls      *)
(* through to return BOAT_SUCCESS, with the private key still there.       *)
DeletePrikeyUndo ==
    /\ pc = "dpkUndo"
    /\ \/ pk' = SetNum(pk, loc.n) /\ ReturnDelete(TRUE) /\ UNCHANGED faults
       \/ Fault("write") /\ GoTo("restoreRec", loc) /\ UNCHANGED pk
    /\ UNCHANGED <<kp, onetime>>

(* The restore appends the record; the delete fails whatever comes of it.  *)
RestoreRecord ==
    /\ pc = "restoreRec"
    /\ AppendKeypair(loc.rec, "restoreNum")
    /\ UNCHANGED <<pk, onetime>>

RestoreNum ==
    /\ pc = "restoreNum"
    /\ \/ kp' = SetNum(kp, loc.n + 1) /\ UNCHANGED faults
       \/ Fault("write") /\ UNCHANGED kp
    /\ Return(FALSE)
    /\ UNCHANGED <<pk, onetime>>

-----------------------------------------------------------------------------
(* The onetime keypair, and the loss of power *)

(* The record of an earlier onetime keypair is overwritten first.  Without *)
(* memory the call fails before that, or in BoAT_Keystore_store_prikey     *)
(* behind it: BoATIotKeypairDelete(0) then clears the count, which takes   *)
(* the earlier keypair away and leaves its private key.                    *)
CreateOnetime ==
    /\ pc = "idle"
    /\ \/ onetime' = {"keypair", "prikey"} /\ ok' = TRUE /\ UNCHANGED faults
       \/ /\ Fault("alloc")
          /\ onetime' \in {onetime, onetime \ {"keypair"}}
          /\ ok' = FALSE
    /\ UNCHANGED <<kp, pk, pc, loc>>

(* The early return of the index 0 branch leaves the private key alone.    *)
DeleteOnetime ==
    /\ pc = "idle"
    /\ onetime' = onetime \ {"keypair"}
    /\ ok' = ("keypair" \in onetime)
    /\ UNCHANGED <<kp, pk, pc, loc, faults>>

Crash ==
    /\ Fault("crash")
    /\ onetime' = {}
    /\ pc' = "idle"
    /\ loc' = NoCall
    /\ ok' = TRUE
    /\ UNCHANGED <<kp, pk>>

-----------------------------------------------------------------------------
(* A generated key is none of those that are stored already.               *)
FreshKeys == {k \in Keys : \A s \in Live(kp) \cup Live(pk) : s.key # k}

Create ==
    \/ \E key \in FreshKeys : CreateFlash(key)
    \/ CreateOnetime
    \/ StoreRecord \/ StoreNum
    \/ CheckPrikey \/ PrikeyRecord \/ PrikeyNum

Delete ==
    \/ \E i \in Indexes : DeleteFlash(i)
    \/ DeleteOnetime
    \/ FindKeypair \/ DeleteNum \/ DeleteData \/ DeleteUndo
    \/ FindPrikey \/ DeletePrikeyNum \/ DeletePrikeyData \/ DeletePrikeyUndo
    \/ RestoreRecord \/ RestoreNum

Next == Create \/ Delete \/ Crash

Spec == Init /\ [][Next]_vars

-----------------------------------------------------------------------------
(* Properties *)

(* The state is well typed: no write puts a count above the list's limit,  *)
(* and the locals name records the list can have.                          *)
TypeOK ==
    /\ kp \in Region
    /\ pk \in Region
    /\ onetime \subseteq {"keypair", "prikey"}
    /\ pc \in Steps
    /\ loc \in Locals
    /\ ok \in BOOLEAN
    /\ faults \in 0..MaxFaults

(* A list no scan trips over: none of the records counted is an erased one *)
(* (BoATKeypair_GetKeypairFromNvram rejects it and the records behind it   *)
(* are out of reach), and an index names one record.                       *)
ReadableUpto(r, n) ==
    /\ \A p \in 1..n : r.slot[p].index # 0
    /\ \A p, q \in 1..n : r.slot[p].index = r.slot[q].index => p = q

Readable(r) == ReadableUpto(r, Num(r))

(* Whatever writes fail and wherever the power goes, both lists stay       *)
(* readable: counts are taken down before records are erased or moved, and *)
(* put up only after a record was written.                                 *)
ListsReadable == Readable(kp) /\ Readable(pk)

(* Between calls, an index that both lists know has one key: a wallet on   *)
(* keypair i never signs with the private key of another keypair.  As long *)
(* as nothing failed, the two lists hold the same keys: every keypair can  *)
(* sign, and no private key outlives its keypair.                          *)
KeyMatch ==
    pc = "idle" =>
        /\ \A s \in Live(kp), t \in Live(pk) :
               s.index = t.index => s.key = t.key
        /\ faults = 0 => Live(kp) = Live(pk)

(* The keypairs and private keys that the running call has not yet given   *)
(* up or not yet brought in: what the regions held when it began, until    *)
(* its last write decides.                                                 *)
Keypairs ==
    CASE pc \in {"delData", "delUndo"} -> Upto(kp, loc.n)
      [] pc \in {"dpkCheck", "dpkNum", "dpkData", "dpkUndo",
                 "restoreRec", "restoreNum"} -> Live(kp) \cup {loc.rec}
      [] OTHER -> Live(kp)

Prikeys ==
    IF pc \in {"dpkData", "dpkUndo"} THEN Upto(pk, loc.n) ELSE Live(pk)

(* What an application can use: a keypair whose private key is there too.  *)
Usable == Keypairs \cap Prikeys

vault == [i \in Indexes |->
            IF \E s \in Usable : s.index = i
            THEN (CHOOSE s \in Usable : s.index = i).key
            ELSE NoKey]

(* The call an abstract store would say is running.                        *)
call == [op |-> loc.op, index |-> loc.index]

Vault == INSTANCE KeyVault WITH store <- vault, onetime <- "keypair" \in onetime

(* With single failed writes or allocations, every call on the persistent  *)
(* table is atomic as far as signing goes: it does all of what it promises *)
(* or reports an error, and then every index signs with the key it had     *)
(* before.  A onetime create that fails may cost the onetime keypair of    *)
(* before, and nothing else.  A keypair that cannot sign, which a failed   *)
(* roll back can leave in the list, is not in the table.                   *)
ImplementsVault == Vault!Spec

(* Whatever fails, a call costs at most one keypair that is not its own.   *)
LosesAtMostOne ==
    [][\A s, t \in Usable \ Usable' :
        s.index # loc.index /\ t.index # loc.index => s = t]_vars

(* Deleting the onetime keypair deletes its private key too.               *)
OnetimeErased == "prikey" \in onetime => "keypair" \in onetime
=============================================================================
