---------------------------- MODULE NetworkStore ----------------------------
(***************************************************************************)
(* The network configurations of the SDK, as one of the ten files          *)
(* sdk/network/*/network_*.c does it; module Networks has all of them.     *)
(* All protocols share one region: a record is protocol, index and         *)
(* configuration, the indexes are handed out over all protocols, and each  *)
(* protocol deletes, finds and lists its own records only.                 *)
(*                                                                         *)
(* The files differ in how a configuration becomes a record and a record a *)
(* configuration: length-value fields, a protobuf message, a message of    *)
(* messages.  What matters is what a failure in there leads to, so packing *)
(* and reading are sets of pairs: a kind of failure and what becomes of    *)
(* the call.                                                               *)
(*                                                                         *)
(* As in Keystore, every action goes from one storage write to the next,   *)
(* so a state between two actions is what a crash leaves in flash.  The    *)
(* onetime network (index 0) has a region in RAM, where writes succeed.    *)
(* The application frees what it has read before it makes the next call.   *)
(***************************************************************************)
EXTENDS Integers, Sequences, FiniteSets

CONSTANTS MaxNetworks, \* BOAT_MAX_NETWORK_NUM
          Protocols,   \* the protocols that are compiled in
          Configs,     \* chain id, url and so on
          NoNetwork,   \* the content of a record that was erased
          FaultKinds,  \* the failures that happen, among AllFaults
          MaxFaults    \* bound: how many failures a behaviour has

\* "length": no memory for the copy that add_L_withOffset makes
AllFaults == {"write", "read", "alloc", "length", "crash"}

Networks == [protocol : Protocols, config : Configs]

ASSUME NetworkAssumption ==
    /\ MaxNetworks \in Nat \ {0}
    /\ FaultKinds \subseteq AllFaults
    /\ MaxFaults \in Nat
    /\ NoNetwork \notin Networks

INSTANCE RecordRegion WITH
    MaxKeypairs <- MaxNetworks, Keys <- Networks, NoKey <- NoNetwork

VARIABLES flash,  \* the BOAT_STORE_NETWORK region of the flash file
          ram,    \* the onetime network, if there is one
          view,   \* what the application has read and not freed yet
          pc,     \* which storage write the running call does next
          loc,    \* the locals of the running call
          ok,     \* whether the last call that returned succeeded
          faults  \* the failures so far, as a sequence of kinds

vars == <<flash, ram, view, pc, loc, ok, faults>>
store == <<flash, ram>>

Steps == {"idle", "storeRead", "storeRec", "storeNum",
          "delNum", "delData", "delUndo"}

\* rec: the record that is created, or the one to delete; whole: does what is
\* written have a body; n, at: the count that was read and the position found;
\* before: history, the networks there were when the call began.
NoCall == [op |-> "none", rec |-> Erased, whole |-> TRUE, n |-> 0, at |-> 0,
           before |-> {}]

\* op: which function read it; num: networkNum; networks: what was filled in.
NoView == [op |-> "none", protocol |-> NoNetwork, num |-> 0, networks |-> <<>>]

Call(op, rec) == [NoCall EXCEPT !.op = op, !.rec = rec, !.before = Live(flash)]

Init ==
    /\ flash = EmptyRegion
    /\ ram = {}
    /\ view = NoView
    /\ pc = "idle"
    /\ loc = NoCall
    /\ ok = TRUE
    /\ faults = <<>>

Fault(kind) ==
    /\ kind \in FaultKinds
    /\ Len(faults) < MaxFaults
    /\ faults' = Append(faults, kind)

GoTo(step, l) == pc' = step /\ loc' = l /\ UNCHANGED ok
Return(success) == pc' = "idle" /\ loc' = NoCall /\ ok' = success

Idle == pc = "idle" /\ view = NoView

\* The call in flash that is running is one of this protocol's file.
Running(step, protocol) == pc = step /\ loc.rec.key.protocol = protocol

(* The process ends, by a loss of power or because it uses a null pointer. *)
Die ==
    /\ ram' = {} /\ view' = NoView
    /\ pc' = "idle" /\ loc' = NoCall /\ ok' = TRUE
    /\ UNCHANGED flash

(* A count that cannot be read or is not valid passes for no networks.     *)
CountRead(n) ==
    \/ n = Num(flash) /\ UNCHANGED faults
    \/ n = 0 /\ Fault("read")

(* What a failure leads to: the call returns an error, or the code uses    *)
(* the null pointer that the failed allocation returned.                   *)
Fails == ok' = FALSE /\ pc' = "idle" /\ loc' = NoCall /\ UNCHANGED <<store, view>>

-----------------------------------------------------------------------------
(* Create, index 1 and up *)

(* GetFreeNetworkIndex_From_Persistent.                                    *)
FreeIndex(n) ==
    CHOOSE i \in Indexes :
        LET used == {flash.slot[p].index : p \in 1..n}
        IN i \notin used /\ \A j \in 1..(i - 1) : j \in used

TakeIndex(protocol, config) ==
    /\ Idle /\ protocol \in Protocols
    /\ \/ \E n \in 0..MaxNetworks :
            /\ CountRead(n)
            /\ IF n = MaxNetworks THEN ok' = FALSE /\ UNCHANGED <<pc, loc>>
               ELSE GoTo("storeRead",
                         Call("create",
                              [index |-> FreeIndex(n),
                               key |-> [protocol |-> protocol, config |-> config]]))
       \/ Num(flash) > 0 /\ Fault("read") /\ Return(FALSE)
    /\ UNCHANGED <<store, view>>

(* Get_Network_Data: how a record is made in memory, by the three kinds of *)
(* files.  The protobuf ones do not look at the result of                  *)
(* add_L_withOffset: their record has no body then, and the call goes on.  *)
FlatPack == {<<"alloc", "fails">>, <<"length", "fails">>}
MessagePack == {<<"alloc", "fails">>, <<"length", "hollow">>}
NestedPack == MessagePack \cup {<<"alloc", "dies">>}

(* NetworkDataCtx_Store reads the count again.                             *)
ReadCount(protocol, packing) ==
    /\ Running("storeRead", protocol)
    /\ \/ \E n \in 0..(MaxNetworks - 1) :
            /\ CountRead(n) /\ GoTo("storeRec", [loc EXCEPT !.n = n])
            /\ UNCHANGED <<store, view>>
       \/ /\ \/ Num(flash) = MaxNetworks /\ UNCHANGED faults
             \/ Num(flash) > 0 /\ Fault("read")
          /\ Fails
       \/ \E f \in packing :
            /\ Num(flash) < MaxNetworks
            /\ Fault(f[1])
            /\ CASE f[2] = "fails" -> Fails
                 [] f[2] = "dies" -> Die
                 [] f[2] = "hollow" ->
                      /\ GoTo("storeRec",
                              [loc EXCEPT !.n = Num(flash), !.whole = FALSE])
                      /\ UNCHANGED <<store, view>>

Hollow(rec) == [rec EXCEPT !.key = NoNetwork]

(* Protocol, index and data are written one after the other behind the     *)
(* records counted; when one of the writes fails, the rest of the record   *)
(* is what was there before.                                               *)
StoreRecord(protocol) ==
    /\ Running("storeRec", protocol)
    /\ \/ /\ flash' = Put(flash, loc.n + 1, IF loc.whole THEN loc.rec ELSE Hollow(loc.rec))
          /\ GoTo("storeNum", loc)
          /\ UNCHANGED faults
       \/ /\ Fault("write")
          /\ \E torn \in {flash.slot[loc.n + 1], Hollow(loc.rec)} :
                flash' = Put(flash, loc.n + 1, torn)
          /\ Return(FALSE)
    /\ UNCHANGED <<ram, view>>

StoreNum(protocol) ==
    /\ Running("storeNum", protocol)
    /\ \/ flash' = SetNum(flash, loc.n + 1) /\ Return(TRUE) /\ UNCHANGED faults
       \/ Fault("write") /\ Return(FALSE) /\ UNCHANGED flash
    /\ UNCHANGED <<ram, view>>

Store(protocol, packing) ==
    ReadCount(protocol, packing) \/ StoreRecord(protocol) \/ StoreNum(protocol)

-----------------------------------------------------------------------------
(* Delete, index 1 and up *)

(* A record of that protocol; one without a body is of none.               *)
Owns(protocol, rec) == rec.key # NoNetwork /\ rec.key.protocol = protocol

(* The first record of that protocol with that index; none when 0.         *)
Found(i, protocol) ==
    LET hits == {p \in 1..Num(flash) :
                    flash.slot[p].index = i /\ Owns(protocol, flash.slot[p])}
    IN IF hits = {} THEN 0 ELSE CHOOSE p \in hits : \A q \in hits : p <= q

DeleteFlash(i, protocol) ==
    /\ Idle /\ protocol \in Protocols
    /\ LET at == Found(i, protocol)
       IN \/ /\ at # 0
             /\ GoTo("delNum",
                     [Call("delete", [index |-> i, key |-> flash.slot[at].key])
                        EXCEPT !.n = Num(flash), !.at = at])
             /\ UNCHANGED faults
          \/ /\ (at = 0 /\ UNCHANGED faults) \/ Fault("read")
             /\ Return(FALSE)
    /\ UNCHANGED <<store, view>>

(* Mutant: the count is cleared, as it is for the onetime network.         *)
DeleteNumClears(protocol) ==
    /\ Running("delNum", protocol)
    /\ flash' = SetNum(flash, 0)
    /\ GoTo("delData", loc)
    /\ UNCHANGED <<ram, view, faults>>

DeleteNum(protocol) ==
    /\ Running("delNum", protocol)
    /\ \/ /\ flash' = SetNum(flash, loc.n - 1)
          /\ GoTo("delData", loc)
          /\ UNCHANGED faults
       \/ Fault("write") /\ Return(FALSE) /\ UNCHANGED flash
    /\ UNCHANGED <<ram, view>>

(* The last record has its first bytes zeroed.  Any other one is           *)
(* overwritten by its successors; a failure to read them or to get memory  *)
(* for them returns at once, with the count already taken down.            *)
DeleteData(protocol) ==
    /\ Running("delData", protocol)
    /\ \/ /\ flash' = Drop(flash, loc.at, loc.n)
          /\ Return(TRUE)
          /\ UNCHANGED faults
       \/ Fault("write") /\ GoTo("delUndo", loc) /\ UNCHANGED flash
       \/ /\ loc.at < loc.n
          /\ Fault("read") \/ Fault("alloc")
          /\ Return(FALSE)
          /\ UNCHANGED flash
    /\ UNCHANGED <<ram, view>>

(* Mutant: the new count is written once more.                             *)
RecoverNew == flash' = SetNum(flash, loc.n - 1)

(* "recover networkNum".  For the last record the count field is written   *)
(* over the record and not over the count, and the delete succeeds.        *)
Recover ==
    IF loc.at = loc.n
    THEN flash' = Put(flash, loc.at, Hollow(loc.rec))
    ELSE flash' = SetNum(flash, loc.n)

DeleteUndo(protocol) ==
    /\ Running("delUndo", protocol)
    /\ \/ Recover /\ Return(loc.at = loc.n) /\ UNCHANGED faults
       \/ Fault("write") /\ Return(FALSE) /\ UNCHANGED flash
    /\ UNCHANGED <<ram, view>>

Remove(protocol) == DeleteNum(protocol) \/ DeleteData(protocol) \/ DeleteUndo(protocol)

-----------------------------------------------------------------------------
(* The onetime network *)

(* One record in RAM for all protocols: the next one overwrites it.        *)
CreateOnetime(protocol, config, packing) ==
    /\ Idle /\ protocol \in Protocols
    /\ \/ /\ ram' = {[protocol |-> protocol, config |-> config]}
          /\ ok' = TRUE
          /\ UNCHANGED <<flash, view, pc, loc, faults>>
       \/ \E f \in packing :
            /\ Fault(f[1])
            /\ CASE f[2] = "fails" -> Fails
                 [] f[2] = "dies" -> Die
                 [] f[2] = "hollow" -> /\ ram' = {NoNetwork} /\ ok' = TRUE
                                       /\ UNCHANGED <<flash, view, pc, loc>>

(* No protocol is asked for: the count of the RAM region is cleared.       *)
DeleteOnetime ==
    /\ Idle
    /\ ram' = {}
    /\ ok' = (ram # {})
    /\ UNCHANGED <<flash, view, pc, loc, faults>>

Delete(i, protocol) ==
    \/ i = 0 /\ DeleteOnetime
    \/ i # 0 /\ DeleteFlash(i, protocol)

-----------------------------------------------------------------------------
(* Lookup and list *)

(* GetNetworkFromNvram, by the three kinds of files: fields are read into  *)
(* the caller's structure; a message takes memory; its strings take more   *)
(* memory, which is used without a look at the pointer.                    *)
FlatRead == {<<"read", "fails">>}
MessageRead == FlatRead \cup {<<"alloc", "fails">>}
NestedRead == MessageRead \cup {<<"alloc", "dies">>}

ReadFails(reading) ==
    \E f \in reading :
        /\ Fault(f[1])
        /\ CASE f[2] = "fails" -> Fails
             [] f[2] = "dies" -> Die

See(op, protocol, num, networks) ==
    view' = [op |-> op, protocol |-> protocol, num |-> num, networks |-> networks]

Onetime(protocol) ==
    LET own == {rec \in {[index |-> 0, key |-> net] : net \in ram} : Owns(protocol, rec)}
    IN IF own = {} THEN <<>> ELSE <<CHOOSE rec \in own : TRUE>>

Lookup(i, protocol) ==
    IF i = 0 THEN Onetime(protocol)
    ELSE LET at == Found(i, protocol)
         IN IF at = 0 THEN <<>> ELSE <<flash.slot[at]>>

GetNetworkByIndex(i, protocol, reading) ==
    /\ Idle /\ protocol \in Protocols
    /\ LET hit == Lookup(i, protocol)
       IN \/ /\ IF hit = <<>> THEN UNCHANGED view ELSE See("index", protocol, 1, hit)
             /\ ok' = (hit # <<>>)
             /\ UNCHANGED <<store, pc, loc, faults>>
          \/ hit # <<>> /\ ReadFails(reading)

(* The loop over the records: what is filled in after n of them.           *)
Own(protocol) ==
    LET own[n \in 0..MaxNetworks] ==
            IF n = 0 THEN <<>>
            ELSE IF Owns(protocol, flash.slot[n])
                 THEN Append(own[n - 1], flash.slot[n])
                 ELSE own[n - 1]
    IN  own

(* Mutant: the onetime network is filled in over the first one.            *)
ListedOver(n, protocol) ==
    IF Onetime(protocol) = <<>> \/ Own(protocol)[n] = <<>>
    THEN Own(protocol)[n] \o Onetime(protocol)
    ELSE Onetime(protocol) \o Tail(Own(protocol)[n])

(* The networks of the protocol among the first n, then the onetime one.   *)
Listed(n, protocol) == Own(protocol)[n] \o Onetime(protocol)

(* networkNum counts the networks of all protocols; what is filled in are  *)
(* those of this one.  When reading one fails the list is half filled, and *)
(* the application does not look at it.                                    *)
GetNetworkList(protocol, reading) ==
    /\ Idle /\ protocol \in Protocols
    /\ \/ \E n \in 0..MaxNetworks :
            /\ CountRead(n)
            /\ See("list", protocol, n + Cardinality(ram), Listed(n, protocol))
            /\ ok' = TRUE
            /\ UNCHANGED <<store, pc, loc>>
       \/ Listed(Num(flash), protocol) # <<>> /\ ReadFails(reading)

(* FreeNetworkContext and FreeNetworkData.                                 *)
Free(protocol) ==
    /\ view # NoView /\ view.protocol = protocol
    /\ view' = NoView
    /\ ok' = TRUE
    /\ UNCHANGED <<store, pc, loc, faults>>

Crash == Fault("crash") /\ Die

-----------------------------------------------------------------------------
(* Properties *)

(* The state is well typed; before is a set of networks.                   *)
TypeOK ==
    /\ flash \in Region
    /\ ram \subseteq Networks \cup {NoNetwork}
    /\ view = NoView \/ view \in [op : {"list", "index"}, protocol : Protocols,
                                  num : 0..(MaxNetworks + 1), networks : Seq(Slot)]
    /\ pc \in Steps
    /\ loc \in [op : {"none", "create", "delete"}, rec : Slot, whole : BOOLEAN,
                n : 0..MaxNetworks, at : 0..MaxNetworks, before : SUBSET Slot]
    /\ ok \in BOOLEAN
    /\ faults \in Seq(FaultKinds) /\ Len(faults) <= MaxFaults

(* GetNetworkByIndex finds every network that is counted: under its index  *)
(* and protocol there is no other record in front of it, and no record     *)
(* that is counted was erased, half written or stored without a body.      *)
Addressed ==
    \A p \in 1..Num(flash) :
        /\ flash.slot[p].key # NoNetwork
        /\ Found(flash.slot[p].index, flash.slot[p].key.protocol) = p

(* GetNetworkList shows what GetNetworkByIndex finds: each network that is *)
(* found under some index, the onetime one too, once and nothing else.     *)
ListsWhatIsFound ==
    view.op = "list" /\ (\A f \in DOMAIN faults : faults[f] # "read") =>
        LET found == {i \in 0..MaxNetworks : Lookup(i, view.protocol) # <<>>}
        IN /\ Len(view.networks) = Cardinality(found)
           /\ \A i \in found :
                \E e \in DOMAIN view.networks :
                    Lookup(i, view.protocol) = <<view.networks[e]>>

(* What a wallet can find once the running call is through.                *)
Kept == IF pc \in {"delData", "delUndo"} THEN Upto(flash, loc.n) ELSE Live(flash)

(* Whatever fails, a call costs at most one network besides the one it is  *)
(* about, of whichever protocol.                                           *)
LosesAtMostOne ==
    [][\A s, t \in Kept \ Kept' : s # loc.rec /\ t # loc.rec => s = t]_vars

(* With at most a failed write, a call that returns did all of what it     *)
(* reports, to its own network and to no other, or nothing.                *)
CallsAtomic ==
    [][pc # "idle" /\ pc' = "idle" /\ (\A f \in DOMAIN faults' : faults'[f] = "write")
       => Live(flash') =
            IF ~ok' THEN loc.before
            ELSE IF loc.op = "create" THEN loc.before \cup {loc.rec}
            ELSE loc.before \ {loc.rec}]_vars
=============================================================================
