-------------------------------- MODULE Wallet --------------------------------
(***************************************************************************)
(* A wallet and its transaction, as an application uses them: what the     *)
(* files of sdk/wallet have in common.  A call runs in the thread of the   *)
(* application and nothing else touches the wallet or the tx meanwhile, so *)
(* one action is one call, from its arguments to what it returns.  What a  *)
(* call does to the fields of the tx is a program, a sequence of steps     *)
(* some of which may fail and end the call with the fields as they are.    *)
(* How a stream is made of the fields is in RawTx, how the node is asked   *)
(* in Web3, what becomes of a transaction in EthTx and IdTx.               *)
(*                                                                         *)
(* The application sends only when it knows what every field holds: it     *)
(* repeats with XTxSend what ended with BOAT_ERROR_COMMON_TX_PENDING, and  *)
(* starts again after any other error, as it cannot tell how far the call  *)
(* came.  It keeps the storage that it gave to XTxSetData until the        *)
(* transaction is sent, as a note in each file asks it to.                 *)
(***************************************************************************)
EXTENDS Integers, Sequences, FiniteSetsExt

CONSTANTS NoProtocol,
          Txs,       \* transactions of Fabric and HW-BCS the application has
          Polls,     \* rounds of the wait for a receipt
          MaxCalls   \* bound

ASSUME WalletAssumption == Polls \in Nat \ {0} /\ MaxCalls \in Nat

VARIABLES wallet,  \* the application's: protocol, call that made it, pointers
          txs,     \* of Fabric and HW-BCS: pointers to wallet and strings
          heap,    \* the blocks that are allocated: their use and the call
          orphans, \* calls whose blocks nobody points to any more
          tx,      \* rawtx_fields: the call each field was set by, 0 for none
          sync,    \* is_sync_tx
          storage, \* the application's: calls whose data it still keeps
          want,    \* the application's: the call it wants each field from
          posted,  \* what was sent last, and what was wanted then
          last,    \* what the last call returned
          calls    \* how many calls were made

walletsVars == <<wallet, txs, heap, orphans, tx, sync, storage, want, posted, last,
          calls>>
memory == <<wallet, txs, heap, orphans>>

Fields == {"nonce", "price", "limit", "recipient", "value", "data",
           "type", "chain", "group", "block"}
Kinds == {"wallet", "name", "rpc", "network"}
Strings == {"path", "chaincode", "version", "channel", "org", "contract",
            "creator"}
Results == {"none", "success", "pending", "error"}

Unknown == -1
Nothing == [f \in Fields |-> Unknown]
Zeroed == [f \in Fields |-> 0]
NoWallet == [protocol |-> NoProtocol, id |-> 0, holds |-> {}]
NoTx == [protocol |-> NoProtocol, wallet |-> 0, strings |-> {}, unset |-> Strings]
NotPosted == [sent |-> Zeroed, want |-> Zeroed, stored |-> TRUE]

WalletsInit ==
    /\ wallet = NoWallet
    /\ txs = [t \in Txs |-> NoTx]
    /\ heap = {}
    /\ orphans = {}
    /\ tx = Zeroed
    /\ sync = FALSE
    /\ storage = {}
    /\ want = Nothing
    /\ posted = NotPosted
    /\ last = "none"
    /\ calls = 0

Called == calls < MaxCalls /\ calls' = calls + 1

-----------------------------------------------------------------------------
(* The wallet.  Its parts are blocks, named by their use and by the call    *)
(* that allocated them; the application points to the wallet, the wallet   *)
(* to its other parts.                                                     *)

Blocks(kinds) == {<<kind, calls + 1>> : kind \in kinds}

PartsOf(kinds) == {<<kind, wallet.id>> : kind \in kinds}

Alive == <<"wallet", wallet.id>> \in heap

(* Undefined behaviour stops the program; a new one starts.                *)
Dies ==
    /\ wallet' = NoWallet
    /\ txs' = [t \in Txs |-> NoTx]
    /\ heap' = {}
    /\ storage' = {}
    /\ want' = Nothing
    /\ last' = "none"
    /\ UNCHANGED <<orphans, tx, sync, posted>>

\* What a wallet is made of, and what stays allocated when a step of its
\* initialisation fails: no memory, no keypair, no network, no context.
Web3Wallets == {{"wallet", "name", "rpc"}}
Web3Leaves == {{}, {"wallet"}, {"wallet", "name"}, {"name"}}

(* A pointer to a part in "gone" may be one to a block that is freed       *)
(* already.  Memory that ends behind an unchecked allocation is undefined. *)
WalletInit(protocol, wallets, gone, leaves) ==
    /\ wallet = NoWallet
    /\ Called
    /\ \/ \E kinds \in wallets, freed \in SUBSET gone :
            /\ wallet' = [protocol |-> protocol, id |-> calls', holds |-> kinds]
            /\ heap' = heap \cup Blocks(kinds \ freed)
            /\ last' = "success"
            /\ UNCHANGED <<txs, orphans, tx, sync, storage, want, posted>>
       \/ \E kinds \in leaves :
            /\ heap' = heap \cup Blocks(kinds)
            /\ orphans' = orphans \cup {calls'}
            /\ last' = "error"
            /\ UNCHANGED <<wallet, txs, tx, sync, storage, want, posted>>
       \/ Dies

(* "frees" are the parts that XWalletDeInit frees: the wallet of call id   *)
(* is there, and no pointer it follows is one to a freed block.            *)
Releasable(id, frees) ==
    wallet.id = id /\ PartsOf(wallet.holds \cap frees) \subseteq heap

(* The application clears its pointer; a tx still has its own.             *)
WalletDeInit(protocol, frees) ==
    /\ wallet.protocol = protocol
    /\ Called
    /\ \/ /\ Releasable(wallet.id, frees)
          /\ heap' = heap \ PartsOf(wallet.holds \cap frees)
          /\ wallet' = NoWallet
          /\ want' = Nothing
          /\ last' = "none"
          /\ UNCHANGED <<txs, orphans, tx, sync, storage, posted>>
       \/ ~Releasable(wallet.id, frees) /\ Dies

(* Configuration and requests that leave wallet and tx as they are.        *)
Ask(protocol) ==
    /\ wallet.protocol = protocol
    /\ last' \in {"success", "error"}
    /\ UNCHANGED <<memory, tx, sync, storage, want, posted, calls>>

-----------------------------------------------------------------------------
(* The fields *)

Step(field, fails, zero) == [field |-> field, fails |-> fails, zero |-> zero]

Given(field) == Step(field, FALSE, FALSE)   \* set from an argument
Parsed(field) == Step(field, TRUE, FALSE)   \* an argument that may be malformed
Asked(field) == Step(field, TRUE, FALSE)    \* the node is asked
Random(field) == Step(field, TRUE, FALSE)
Cleared(field) == Step(field, FALSE, TRUE)
Check == Step("none", TRUE, FALSE)          \* of other arguments
Zero == Step("all", FALSE, TRUE)            \* memset

(* What the fields hold after these steps: the last step that sets a field *)
(* decides.                                                                *)
After(fields, steps, n) ==
    [f \in Fields |->
        LET sets == {j \in DOMAIN steps : steps[j].field \in {f, "all"}}
        IN  IF sets = {} THEN fields[f] ELSE IF steps[Max(sets)].zero THEN 0 ELSE n]

(* After how many steps a program ends: all, or those before one that      *)
(* fails.                                                                  *)
Ends(steps) ==
    {Len(steps)} \cup {i - 1 : i \in {j \in DOMAIN steps : steps[j].fails}}

Forget(fields) == [f \in Fields |-> IF f \in fields THEN Unknown ELSE want[f]]
Wish(fields) == [f \in Fields |-> IF f \in fields THEN calls' ELSE want[f]]

(* XTxInit: "promised" are the fields it has arguments for, or asks for.   *)
TxInit(protocol, promised, programs) ==
    /\ wallet.protocol = protocol
    /\ Called
    /\ \E steps \in programs : \E k \in Ends(steps) :
        /\ tx' = After(tx, SubSeq(steps, 1, k), calls')
        /\ sync' \in IF k = 0 THEN {sync} ELSE BOOLEAN
        /\ IF k = Len(steps)
           THEN /\ want' = [f \in Fields |->
                                IF f \in promised THEN calls'
                                ELSE IF f = "nonce" THEN Unknown ELSE 0]
                /\ last' = "success"
           ELSE want' = Nothing /\ last' = "error"
    /\ UNCHANGED <<memory, storage, posted>>

IsInit(protocol) ==
    wallet.protocol = protocol /\ want["recipient"] # Unknown

(* XTxSetNonce and the like.  Data is stored by the application.           *)
Set(protocol, steps) ==
    /\ IsInit(protocol)
    /\ Called
    /\ \E step \in steps :
        \/ /\ tx' = After(tx, <<step>>, calls')
           /\ want' = [want EXCEPT ![step.field] = IF step.zero THEN 0 ELSE calls']
           /\ storage' = IF step = Given("data") THEN storage \cup {calls'}
                         ELSE storage
           /\ last' = "success"
        \/ /\ step.fails
           /\ want' = Forget({step.field})
           /\ last' = "error"
           /\ UNCHANGED <<tx, storage>>
    /\ UNCHANGED <<memory, sync, posted>>

(* The application frees what it gave to XTxSetData and will not send it.  *)
FreeData ==
    /\ \E n \in storage :
        /\ storage' = storage \ {n}
        /\ want' = IF want["data"] = n THEN Forget({"data"}) ELSE want
    /\ UNCHANGED <<memory, tx, sync, posted, last, calls>>

-----------------------------------------------------------------------------
(* Sending *)

\* What the node says of a receipt: none yet, one, or no answer that can be
\* read.
Answers == {"null", "receipt", "broken"}

(* Mutant: the end of the wait is not looked at.                           *)
ReceiptLate(answers) ==
    LET told == {i \in DOMAIN answers : answers[i] # "null"} IN
    IF told = {} THEN "null"
    ELSE IF answers[Min(told)] = "receipt" THEN "success" ELSE "error"

(* XGetTransactionReceipt: any receipt is a success.                       *)
Receipt(answers) ==
    LET told == {i \in DOMAIN answers : answers[i] # "null"} IN
    IF told = {} THEN "pending"
    ELSE IF answers[Min(told)] = "receipt" THEN "success" ELSE "error"

(* How a wait may end.                                                     *)
Received == {Receipt(answers) : answers \in [1..Polls -> Answers]}

(* XTxSend with the fields as they are; "wish" is what the application     *)
(* wants to be in them, and "stored" the data that can still be read.      *)
Sent(fields, wish, stored, received) ==
    \/ last' = "error" /\ UNCHANGED posted  \* no memory, no signature
    \/ /\ posted' = [sent |-> fields, want |-> wish,
                     stored |-> fields["data"] \in stored \cup {0}]
       /\ \/ last' = "error"                \* refused, or the answer is lost
          \/ ~sync /\ last' = "success"
          \/ sync /\ last' \in received

(* After a success the nonce is used up; after an error, "unsure" is what  *)
(* the call may or may not have set.                                       *)
Learn(wish, unsure) ==
    want' = [f \in Fields |->
                IF \/ last' = "error" /\ f \in unsure
                   \/ last' = "success" /\ f = "nonce"
                THEN Unknown ELSE wish[f]]

Send(protocol, received) ==
    /\ IsInit(protocol)
    /\ \A f \in Fields : want[f] # Unknown
    /\ Called
    /\ Sent(tx, want, storage, received)
    /\ Learn(want, {"nonce"})
    /\ UNCHANGED <<memory, tx, sync, storage>>

(* A call that sets fields and sends.  "wished" are those that it sets for *)
(* the application; others it clears.                                      *)
SetAndSend(protocol, steps, wished, received) ==
    LET wish == [f \in Fields |-> IF f \in wished THEN calls'
                                  ELSE IF f = "data" THEN 0 ELSE want[f]]
    IN  /\ IsInit(protocol)
        /\ \A f \in Fields \ (wished \cup {"data"}) : want[f] # Unknown
        /\ Called
        /\ \E k \in Ends(steps) :
            /\ tx' = After(tx, SubSeq(steps, 1, k), calls')
            /\ IF k = Len(steps)
               THEN Sent(tx', wish, storage \cup {calls'}, received)
               ELSE last' = "error" /\ UNCHANGED posted
            /\ Learn([wish EXCEPT !["data"] = IF @ = calls' THEN Unknown ELSE @],
                     wished \cup {"data"})
        /\ UNCHANGED <<memory, sync, storage>>

(* Mutant: the data of an earlier call is still in the tx.                 *)
TransferStepsKeepData == <<Asked("nonce"), Given("value")>>

TransferSteps == <<Asked("nonce"), Given("value"), Cleared("data")>>

(* XTransfer: a value and no data, or data in the frame of the call.       *)
Transfer(protocol, steps, wished, received) ==
    SetAndSend(protocol, steps, wished, received)

(* A contract function that a tool of tools/ generates: the data is in a   *)
(* block that it frees before it returns, and the value is left as it is.  *)
Contract(protocol, steps, received) ==
    SetAndSend(protocol, steps, {"nonce", "data"}, received)

-----------------------------------------------------------------------------
(* A tx of Fabric and HW-BCS: its strings are blocks, and it points to the *)
(* wallet, which it frees too.                                             *)

(* XTxInit copies the strings it is given.  It forgets those that the tx   *)
(* had, but for "kept" pointers, which it does not reset: of a new tx they *)
(* are unset.  Without memory it frees the addresses of fields of the tx,  *)
(* which are not blocks; from a freed wallet it may read anything.         *)
CopyStrings(protocol, given, kept) ==
    /\ wallet.protocol = protocol
    /\ Called
    /\ \E t \in Txs, names \in given :
        /\ txs[t].protocol \in {NoProtocol, protocol}
        /\ \/ /\ txs' = [txs EXCEPT ![t] =
                         [protocol |-> protocol,
                          wallet |-> wallet.id,
                          strings |-> Blocks(names) \cup
                                {b \in @.strings : b[1] \in kept \ names},
                          unset |-> (@.unset \cap kept) \ names]]
              /\ heap' = heap \cup Blocks(names)
              /\ orphans' = orphans \cup
                    {b[2] : b \in {c \in txs[t].strings : c[1] \notin kept \ names}}
              /\ last' = "success"
              /\ UNCHANGED <<wallet, tx, sync, storage, want, posted>>
           \/ Dies

(* XTxDeInit frees "texts" of the strings, and then the wallet that the tx *)
(* points to, with its parts "frees"; the pointer to it stays in the tx.   *)
(* The application may or may not know that its own pointer is no use now. *)
FreeStrings(protocol, texts, frees) ==
    /\ Called
    /\ \E t \in Txs :
        /\ txs[t].protocol = protocol
        /\ \/ /\ Releasable(txs[t].wallet, frees)
              /\ heap' = (heap \ {b \in txs[t].strings : b[1] \in texts})
                            \ PartsOf(wallet.holds \cap frees)
              /\ txs' = [txs EXCEPT ![t].strings = {}, ![t].unset = {}]
              /\ wallet' \in {wallet, NoWallet}
              /\ want' = Nothing
              /\ last' = "none"
              /\ UNCHANGED <<orphans, tx, sync, storage, posted>>
           \/ /\ txs[t].unset # {} \/ ~Releasable(txs[t].wallet, frees)
              /\ Dies

-----------------------------------------------------------------------------
(* Properties *)

Block == (Kinds \cup Strings) \X (1..calls)

(* The state is well typed; no call returns what is not one of its results.*)
WalletsTypeOK ==
    /\ DOMAIN wallet = {"protocol", "id", "holds"}
    /\ wallet.id \in 0..calls /\ wallet.holds \subseteq Kinds
    /\ DOMAIN txs = Txs
    /\ \A t \in Txs : /\ DOMAIN txs[t] = DOMAIN NoTx
                      /\ txs[t].wallet \in 0..calls
                      /\ txs[t].strings \subseteq Strings \X (1..calls)
                      /\ txs[t].unset \subseteq Strings
    /\ heap \subseteq Block
    /\ orphans \cup storage \subseteq 1..calls
    /\ tx \in [Fields -> 0..calls]
    /\ sync \in BOOLEAN
    /\ want \in [Fields -> {Unknown} \cup 0..calls]
    /\ last \in Results
    /\ calls \in 0..MaxCalls

InUse ==
    (IF Alive THEN PartsOf(wallet.holds) ELSE {})
        \cup UNION {txs[t].strings : t \in Txs}

(* What is lost are blocks of wallet initialisations that failed and of    *)
(* transactions that were initialised a second time, and never a           *)
(* connection; the strings of a tx are there and its own, and so is what   *)
(* a wallet points to, but for an http2 context that its initialisation    *)
(* freed; and a pointer of the application to a wallet that is freed was   *)
(* left by XTxDeInit of a tx of that wallet.  Calls come in any order,     *)
(* wallets and txs are freed twice, and a call that uses what is freed     *)
(* ends the program: what holds then is not said.                          *)
HeapBalanced ==
    /\ \A b \in heap \ InUse : b[2] \in orphans /\ b[1] # "rpc"
    /\ \A t \in Txs :
        /\ txs[t].strings \subseteq heap
        /\ \A u \in Txs \ {t} : txs[t].strings \cap txs[u].strings = {}
    /\ Alive => PartsOf(wallet.holds \ {"rpc"}) \subseteq heap
    /\ wallet # NoWallet /\ ~Alive => \E t \in Txs : txs[t].wallet = wallet.id

(* A transaction that was sent holds in every field what the application   *)
(* last asked for, and in no field what an earlier call left there or one  *)
(* that failed; and its data was read from storage that still was.         *)
SentAsAsked ==
    posted.stored /\ \A f \in Fields : posted.sent[f] = posted.want[f]
=============================================================================
