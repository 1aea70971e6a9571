--------------------------- MODULE FabricTxProofs ---------------------------
(***************************************************************************)
(* Proofs about transactions of Fabric and HW-BCS, for layouts of any size *)
(* whose endorsements fit the array, any number of orderers and proposals, *)
(* and peers and connections that fail at will, for an application that    *)
(* initialises a tx again after a failed Submit.                           *)
(***************************************************************************)
EXTENDS HwbcsTx, FiniteSetTheorems, TLAPS

(* b[g] endorsements are asked of the groups before g.                     *)
Sums(b) ==
    /\ b[1] = 0
    /\ \A g \in Groups : b[g + 1] = b[g] + Quota[g] /\ b[g + 1] < MaxResponses

(* The network fits tx_ptr->endorserResponse: all endorsements and the     *)
(* answer of an orderer, or those of the first group if the chaincode      *)
(* fails at each of its endorsers.                                         *)
Room ==
    /\ GroupSize[1] <= MaxResponses
    /\ \E b \in [1..Len(GroupSize) + 1 -> Nat] : Sums(b)

Before == CHOOSE b \in [1..Len(GroupSize) + 1 -> Nat] : Sums(b)

LEMMA BeforeSums ==
    ASSUME Room PROVE Before \in [1..Len(GroupSize) + 1 -> Nat] /\ Sums(Before)
BY DEF Room, Before

LEMMA GroupFacts ==
    /\ Groups = 1..Len(GroupSize)
    /\ Len(GroupSize) \in Nat \ {0}
    /\ \A g \in Groups : GroupSize[g] \in Nat \ {0} /\ Quota[g] \in Nat \ {0}
BY FabricAssumption DEF Groups

-----------------------------------------------------------------------------
(* The inductive invariant *)

(* The endorsements a group has given for a proposal.                      *)
Given(es, proposal, g) == {e \in es : e.group = g /\ e.proposal = proposal}

(* A transaction that may be offered to the orderers.                      *)
Valid(t) ==
    /\ t.payload = t.proposal
    /\ \A e \in t.endorsements : e.proposal = t.proposal
    /\ \A g \in Groups : Cardinality(Given(t.endorsements, t.proposal, g)) >= Quota[g]

(* When a call is where, how much it has asked for, and what is kept.      *)
CallInv ==
    /\ pc = "idle" /\ (last.fun # "submit" \/ last.ok) => responses = <<>>
    /\ pc = "propose" => responses = <<>> /\ evaluateRes = 0 /\ nonce < MaxProposals
    /\ pc \in {"idle", "propose"} => buf = Empty
    /\ pc = "propose" => call.group = 1 /\ call.peer = 1 /\ call.valid = 0
    /\ pc # "idle" => call.fun # "none"
    /\ pc \notin {"idle", "propose"} => nonce >= 1
    /\ evaluateRes \in {0, nonce}
    /\ pc \in {"pack", "order", "tried"} => call.fun = "submit" /\ Len(responses) < MaxResponses
    /\ pc = "endorse" /\ call.fun = "submit" =>
        /\ Len(responses) = Before[call.group] + call.valid
        /\ call.valid < Quota[call.group]
    /\ pc = "endorse" /\ call.fun = "evaluate" =>
        call.group = 1 /\ Len(responses) < call.peer

(* An answer of this group that has not been counted yet: nothing counted  *)
(* comes from that peer or from a later one.                               *)
Uncounted(b) ==
    b \in Answer =>
        /\ b.from.proposal = nonce
        /\ b.from.group = call.group
        /\ b.from.peer \in 1..call.peer
        /\ \A e \in ToSet(responses) : e.group = call.group => e.peer < b.from.peer

(* Where the endorsements come from that were counted so far.              *)
OriginInv ==
    /\ IsFiniteSet(ToSet(responses))
    /\ pc = "endorse" =>
        /\ \A e \in ToSet(responses) :
            /\ e.proposal = nonce
            /\ e.group <= call.group
            /\ e.group = call.group => e.peer < call.peer
        /\ Uncounted(buf)
        /\ buf \in Answer => buf.from.peer < call.peer
        /\ call.fun = "submit" =>
            /\ Cardinality(Given(ToSet(responses), nonce, call.group)) = call.valid
            /\ \A g \in Groups : g < call.group =>
                Cardinality(Given(ToSet(responses), nonce, g)) >= Quota[g]
    /\ pc = "pack" => Valid([proposal |-> nonce, payload |-> responses[1].proposal,
                             endorsements |-> ToSet(responses)])
    /\ pc = "pack" => Len(responses) >= 1
    /\ pc = "order" => envelope.proposal = nonce /\ envelope.payload = nonce /\ Valid(envelope)
    /\ \A t \in ledger : Valid(t)

Inv == TypeOK /\ CallInv /\ OriginInv

-----------------------------------------------------------------------------
(* Sequences and answers *)

LEMMA EmptyToSet == ToSet(<<>>) = {}
BY DEF ToSet

LEMMA AppendToSet ==
    ASSUME NEW S, NEW s \in Seq(S), NEW x \in S
    PROVE  ToSet(Append(s, x)) = ToSet(s) \cup {x}
<1> DEFINE t == Append(s, x)
<1>1. /\ DOMAIN s = 1..Len(s) /\ Len(s) \in Nat
      /\ DOMAIN t = 1..Len(s) + 1
      /\ \A i \in 1..Len(s) : t[i] = s[i]
      /\ t[Len(s) + 1] = x
  OBVIOUS
<1> HIDE DEF t
<1>2. ToSet(t) = {t[i] : i \in 1..Len(s) + 1} /\ ToSet(s) = {s[i] : i \in 1..Len(s)}
  BY <1>1 DEF ToSet
<1>3. 1..Len(s) + 1 = (1..Len(s)) \cup {Len(s) + 1}
  BY <1>1
<1>4. ToSet(t) = ToSet(s) \cup {x}
  BY <1>1, <1>2, <1>3
<1> QED
  BY <1>4 DEF t

LEMMA ToSetIn == ASSUME NEW S, NEW s \in Seq(S) PROVE ToSet(s) \subseteq S
BY DEF ToSet

(* An endorsement that was not there makes one more.                       *)
LEMMA OneMore ==
    ASSUME NEW es, IsFiniteSet(es), NEW e, e \notin es
    PROVE  \A g, p :
            /\ Cardinality(Given(es, p, g)) \in Nat
            /\ Cardinality(Given(es \cup {e}, p, g)) =
                 IF e.group = g /\ e.proposal = p
                 THEN Cardinality(Given(es, p, g)) + 1
                 ELSE Cardinality(Given(es, p, g))
<1> TAKE g, p
<1>1. IsFiniteSet(Given(es, p, g))
  BY FS_Subset DEF Given
<1>2. Cardinality(Given(es, p, g)) \in Nat
  BY <1>1, FS_CardinalityType
<1>3. CASE e.group = g /\ e.proposal = p
  <2>1. Given(es \cup {e}, p, g) = Given(es, p, g) \cup {e} /\ e \notin Given(es, p, g)
    BY <1>3 DEF Given
  <2>2. Cardinality(Given(es, p, g) \cup {e}) = Cardinality(Given(es, p, g)) + 1
    BY <2>1, <1>1, FS_AddElement
  <2> QED
    BY <2>1, <2>2, <1>2, <1>3
<1>4. CASE ~(e.group = g /\ e.proposal = p)
  <2>1. Given(es \cup {e}, p, g) = Given(es, p, g)
    BY <1>4 DEF Given
  <2> QED
    BY <2>1, <1>2, <1>4
<1> QED
  BY <1>3, <1>4

LEMMA NoEndorsements == \A g, p : Cardinality(Given({}, p, g)) = 0
<1> TAKE g, p
<1>1. Given({}, p, g) = {}
  BY DEF Given
<1> QED
  BY <1>1, FS_EmptySet

(* What is no answer of a peer has none of its marks.                      *)
LEMMA NotAnswers ==
    /\ Empty \notin Answer /\ Short \notin Answer /\ Garbage \notin Answer
    /\ ~Endorsed(Empty) /\ ~Endorsed(Short) /\ ~Endorsed(Garbage)
    /\ ~Accepted(Empty) /\ ~Accepted(Short) /\ ~Accepted(Garbage)
BY DEF Empty, Short, Garbage, Answer, Endorsed, Accepted

(* The buffer after a request holds at most one whole answer.              *)
LEMMA Received ==
    ASSUME Inv, pc = "endorse", NEW r \in Outcome(EndorserAnswers)
    PROVE  /\ Receive(buf, r.data) \in {Empty, Short, Garbage} \cup Answer
           /\ Uncounted(Receive(buf, r.data))
<1>1. Here \in Response
  BY GroupFacts DEF Here, Response, Inv, TypeOK, CallInv, Proposals
<1>2. EndorserAnswers \subseteq Answer /\ \A a \in EndorserAnswers : a.from = Here
  BY <1>1 DEF EndorserAnswers, Answer
<1>3. r.data \in {Empty, Short, Garbage} \cup EndorserAnswers
  BY DEF Outcome
<1>4. Receive(buf, r.data) \in {buf, r.data, Garbage}
  BY DEF Receive
<1>5. buf \in {Empty, Short, Garbage} \cup Answer /\ Uncounted(buf)
  BY DEF Inv, TypeOK, OriginInv
<1>6. Uncounted(Garbage)
  BY NotAnswers DEF Uncounted
<1>7. Uncounted(r.data)
  <2>1. CASE r.data \in {Empty, Short, Garbage}
    BY <2>1, NotAnswers DEF Uncounted
  <2>2. CASE r.data \in EndorserAnswers
    <3>1. r.data.from = Here
      BY <2>2, <1>2
    <3>2. call.peer \in Nat \ {0} /\ call.peer \in 1..call.peer
      BY GroupFacts DEF Inv, TypeOK
    <3> QED
      BY <3>1, <3>2 DEF Here, Uncounted, Inv, OriginInv
  <2> QED
    BY <2>1, <2>2, <1>3
<1> QED
  BY <1>2, <1>3, <1>4, <1>5, <1>6, <1>7

(* Sizes of constants and of the empty sequence.                           *)
LEMMA Sizes ==
    /\ MaxResponses \in Nat /\ MaxProposals \in Nat /\ Orderers \in Nat \ {0}
    /\ <<>> \in Seq(Response) /\ Len(<<>>) = 0
BY FabricAssumption

Calls == [fun : Funs, group : Groups, peer : Nat, valid : Nat, ok : BOOLEAN]

LEMMA NewCall ==
    ASSUME NEW fun \in {"submit", "evaluate"}, NEW d, d = [NoCall EXCEPT !.fun = fun]
    PROVE  d \in Calls /\ d.fun = fun /\ d.group = 1 /\ d.peer = 1 /\ d.valid = 0
<1>1. NoCall \in Calls /\ NoCall.group = 1 /\ NoCall.peer = 1 /\ NoCall.valid = 0
  BY GroupFacts DEF NoCall, Calls, Funs
<1>2. PICK c : c = NoCall
  OBVIOUS
<1>3. c \in Calls /\ c.group = 1 /\ c.peer = 1 /\ c.valid = 0 /\ d = [c EXCEPT !.fun = fun]
  BY <1>1, <1>2, Zenon
<1> QED
  BY <1>3 DEF Calls, Funs

LEMMA MovedCall ==
    ASSUME NEW c \in Calls, NEW p \in Nat, NEW v \in Nat, NEW d,
           d = [c EXCEPT !.peer = p, !.valid = v]
    PROVE  /\ d \in Calls /\ d.peer = p /\ d.valid = v
           /\ d.group = c.group /\ d.fun = c.fun /\ d.ok = c.ok
<1>1. PICK e : e = [c EXCEPT !.peer = p]
  OBVIOUS
<1>2. e \in Calls /\ e.peer = p /\ e.group = c.group /\ e.fun = c.fun /\ e.ok = c.ok
  BY <1>1 DEF Calls
<1>3. d = [e EXCEPT !.valid = v]
  BY <1>1, Zenon
<1> QED
  BY <1>2, <1>3 DEF Calls

-----------------------------------------------------------------------------
(* The steps of a call up to the endorsers *)

LEMMA FabricInit == ASSUME Room PROVE EitherInit => Inv
<1> SUFFICES ASSUME EitherInit PROVE Inv
  OBVIOUS
<1> USE DEF EitherInit, Init
<1>1. TypeOK
  BY FabricAssumption, GroupFacts
  DEF TypeOK, NoCall, NoReturn, NoEnvelope, Funs, Response
<1>2. CallInv
  BY FabricAssumption DEF CallInv, NoReturn
<1>3. OriginInv
  BY EmptyToSet, FS_EmptySet DEF OriginInv
<1> QED
  BY <1>1, <1>2, <1>3 DEF Inv

LEMMA TxInitStep == ASSUME Inv, TxInit PROVE Inv'
<1> USE DEF TxInit, Inv
<1>1. TypeOK'
  BY FabricAssumption DEF TypeOK, NoReturn, Funs
<1>2. CallInv'
  BY DEF CallInv, NoReturn
<1>3. OriginInv'
  BY EmptyToSet, FS_EmptySet DEF OriginInv, Valid
<1> QED
  BY <1>1, <1>2, <1>3

LEMMA BeginStep == ASSUME Inv, ~RetryRaw, Begin PROVE Inv'
<1> USE DEF Begin, Inv, FreeEvaluateRes
<1>1. PICK fun \in {"submit", "evaluate"} : call' = [NoCall EXCEPT !.fun = fun]
  OBVIOUS
<1>2. /\ call' \in [fun : Funs, group : Groups, peer : Nat, valid : Nat, ok : BOOLEAN]
      /\ call'.fun # "none" /\ call'.group = 1 /\ call'.peer = 1 /\ call'.valid = 0
  BY <1>1, NewCall DEF Calls
<1>3. TypeOK'
  BY <1>2, FabricAssumption DEF TypeOK
<1>4. CallInv'
  BY <1>2 DEF CallInv, MayUse
<1>5. OriginInv'
  BY DEF OriginInv, Valid
<1> QED
  BY <1>3, <1>4, <1>5

(* A call that returns, with an error or from its last step.               *)
LEMMA ReturnStep ==
    ASSUME Inv, pc # "idle", NEW ok \in BOOLEAN,
           pc' = "idle", call' = NoCall, buf' = Empty,
           last' = [fun |-> call.fun, ok |-> ok],
           responses' = <<>> \/ (responses' = responses /\ call.fun = "submit" /\ ~ok),
           nonce' \in 0..MaxProposals, evaluateRes' \in {0, nonce'},
           UNCHANGED <<envelope, ledger>>
    PROVE  Inv'
<1> USE DEF Inv
<1>1. call' \in [fun : Funs, group : Groups, peer : Nat, valid : Nat, ok : BOOLEAN]
  BY GroupFacts DEF NoCall, Funs
<1>2. last' \in [fun : Funs, ok : BOOLEAN] /\ last'.fun = call.fun /\ last'.ok = ok
  BY DEF TypeOK
<1>3. responses' \in Seq(Response) /\ Len(responses') <= MaxResponses
  <2>1. CASE responses' = <<>>
    BY <2>1, Sizes
  <2>2. CASE responses' = responses
    BY <2>2 DEF TypeOK
  <2> QED
    BY <2>1, <2>2
<1>4. evaluateRes' \in 0..MaxProposals
  BY Sizes
<1>7. TypeOK'
  BY <1>1, <1>2, <1>3, <1>4 DEF TypeOK
<1>5. CallInv'
  BY <1>2 DEF CallInv
<1>6. OriginInv'
  BY EmptyToSet, FS_EmptySet DEF OriginInv, Valid
<1> QED
  BY <1>5, <1>6, <1>7

LEMMA PackProposalStep == ASSUME Inv, Room, PackProposal PROVE Inv'
<1> USE DEF PackProposal, Inv
<1>1. nonce' = nonce + 1 /\ nonce' \in 1..MaxProposals /\ evaluateRes' = 0 /\ evaluateRes = 0
  BY Sizes DEF CallInv, TypeOK
<1>2. CASE pc' = "endorse" /\ UNCHANGED <<responses, call, buf, last>>
  <2>1. TypeOK'
    BY <1>1, <1>2, GroupFacts DEF TypeOK, CallInv
  <2>2. Before[1] = 0
    BY BeforeSums DEF Sums
  <2>3. CallInv'
    BY <1>1, <1>2, <2>2, GroupFacts, Sizes DEF CallInv, TypeOK
  <2>4. ToSet(responses) = {} /\ buf \notin Answer
    BY EmptyToSet, NotAnswers DEF CallInv
  <2>5. \A g, p : Cardinality(Given(ToSet(responses), p, g)) = 0
    BY <2>4, NoEndorsements
  <2>6. OriginInv'
    BY <1>2, <2>4, <2>5, GroupFacts DEF OriginInv, CallInv, Uncounted, Valid, Given
  <2> QED
    BY <2>1, <2>3, <2>6
<1>3. CASE Return(FALSE)
  <2>1. responses' = <<>>
    BY <1>3 DEF Return, CallInv
  <2>2. /\ pc' = "idle" /\ call' = NoCall /\ buf' = Empty
        /\ last' = [fun |-> call.fun, ok |-> FALSE]
    BY <1>3 DEF Return
  <2>3. nonce' \in 0..MaxProposals /\ evaluateRes' \in {0, nonce'} /\ FALSE \in BOOLEAN
    BY <1>1, Sizes
  <2> QED
    BY <2>1, <2>2, <2>3, ReturnStep
<1> QED
  BY <1>2, <1>3

(* On to the next endorser, or none is left: nothing was counted.          *)
LEMMA SkipStep ==
    ASSUME Inv, pc = "endorse", NEW b \in {Empty, Short, Garbage} \cup Answer,
           Uncounted(b), buf' = b, NextEndorser(call.valid),
           UNCHANGED <<responses, evaluateRes, nonce, envelope, ledger, last>>
    PROVE  Inv'
<1> USE DEF Inv
<1>1. CASE /\ call.peer < GroupSize[call.group]
           /\ call' = [call EXCEPT !.peer = @ + 1, !.valid = call.valid]
           /\ UNCHANGED pc
  <2>1. /\ call' \in [fun : Funs, group : Groups, peer : Nat, valid : Nat, ok : BOOLEAN]
        /\ call'.peer = call.peer + 1 /\ call'.group = call.group
        /\ call'.valid = call.valid /\ call'.fun = call.fun
    <3>1. call \in Calls /\ call.peer + 1 \in Nat /\ call.valid \in Nat
      BY DEF TypeOK, Calls
    <3> QED
      BY <1>1, <3>1, MovedCall DEF Calls
  <2>2. TypeOK'
    BY <1>1, <2>1, GroupFacts DEF TypeOK
  <2>3. CallInv'
    BY <1>1, <2>1 DEF CallInv, TypeOK
  <2>4. ToSet(responses) \subseteq Response
    BY ToSetIn DEF TypeOK
  <2>5. Uncounted(b)' /\ (b \in Answer => b.from.peer < call'.peer)
    BY <2>1 DEF Uncounted, TypeOK
  <2>6. \A e \in ToSet(responses) :
          /\ e.proposal = nonce
          /\ e.group <= call'.group
          /\ e.group = call'.group => e.peer < call'.peer
    BY <2>1, <2>4 DEF OriginInv, TypeOK, Response
  <2>7. OriginInv'
    BY <1>1, <2>1, <2>5, <2>6 DEF OriginInv, Valid, Given
  <2> QED
    BY <2>2, <2>3, <2>7
<1>2. CASE pc' = "short" /\ UNCHANGED call
  <2>1. TypeOK' /\ CallInv'
    BY <1>2 DEF TypeOK, CallInv
  <2>2. OriginInv'
    BY <1>2 DEF OriginInv, Valid, Given
  <2> QED
    BY <2>1, <2>2
<1> QED
  BY <1>1, <1>2 DEF NextEndorser

LEMMA NoAnswerStep ==
    ASSUME Inv, pc = "endorse", NoAnswer, UNCHANGED <<nonce, envelope, ledger, last>>
    PROVE  Inv'
<1>1. PICK r \in Outcome(EndorserAnswers) :
        buf' = Receive(buf, r.data) /\ NextEndorser(call.valid)
        /\ UNCHANGED <<responses, evaluateRes>>
  BY DEF NoAnswer
<1> QED
  BY <1>1, Received, SkipStep

LEMMA BadAnswerStep ==
    ASSUME Inv, pc = "endorse", BadAnswer, UNCHANGED <<nonce, envelope, ledger, last>>
    PROVE  Inv'
<1>1. buf' = Empty /\ NextEndorser(call.valid) /\ UNCHANGED <<responses, evaluateRes>>
  BY DEF BadAnswer
<1>2. Uncounted(Empty)
  BY NotAnswers DEF Uncounted
<1> QED
  BY <1>1, <1>2, SkipStep

(* An endorsement is kept.  What it changes in the invariant:              *)
LEMMA Kept ==
    ASSUME Inv, pc = "endorse", NEW b \in Answer, Uncounted(b),
           responses' = Append(responses, b.from)
    PROVE  /\ b.from \in Response
           /\ responses' \in Seq(Response)
           /\ Len(responses') = Len(responses) + 1
           /\ ToSet(responses') = ToSet(responses) \cup {b.from}
           /\ IsFiniteSet(ToSet(responses'))
           /\ b.from \notin ToSet(responses)
           /\ \A e \in ToSet(responses') :
                /\ e.proposal = nonce
                /\ e.group <= call.group
                /\ e.group = call.group => e.peer <= call.peer
<1> USE DEF Inv
<1>1. b.from \in Response /\ responses \in Seq(Response)
  BY DEF Answer, TypeOK
<1>2. ToSet(responses') = ToSet(responses) \cup {b.from} /\ ToSet(responses) \subseteq Response
  BY <1>1, AppendToSet, ToSetIn
<1>3. b.from \notin ToSet(responses)
  BY <1>1 DEF Uncounted, Response
<1>4. IsFiniteSet(ToSet(responses'))
  BY <1>2, FS_AddElement DEF OriginInv
<1>5. \A e \in ToSet(responses') :
        /\ e.proposal = nonce
        /\ e.group <= call.group
        /\ e.group = call.group => e.peer <= call.peer
  BY <1>1, <1>2, GroupFacts DEF OriginInv, Uncounted, Response, TypeOK
<1> QED
  BY <1>1, <1>2, <1>3, <1>4, <1>5

LEMMA StillTyped ==
    ASSUME TypeOK, UNCHANGED <<evaluateRes, nonce, envelope, ledger, last>>,
           responses' \in Seq(Response), Len(responses') <= MaxResponses,
           buf' \in {Empty, Short, Garbage} \cup Answer, call' \in Calls,
           pc' \in {"endorse", "short", "pack", "done"},
           pc' = "endorse" => call'.peer \in 1..GroupSize[call'.group]
    PROVE  TypeOK'
BY DEF TypeOK, Calls

LEMMA StaysBelow ==
    ASSUME NEW len, NEW b \in Nat, NEW v \in Nat, NEW q \in Nat, NEW max \in Nat,
           NEW next, next = b + q, next < max, v < q, len = b + v + 1
    PROVE  len < max /\ len <= max /\ len >= 1
OBVIOUS

LEMMA NextGroup ==
    ASSUME NEW c \in Calls, c.group < Len(GroupSize), NEW d, d = [c EXCEPT !.group = c.group + 1]
    PROVE  d \in Calls /\ d.group = c.group + 1 /\ d.fun = c.fun
<1>1. c.group + 1 \in Groups
  BY GroupFacts DEF Calls
<1> QED
  BY <1>1 DEF Calls

(* Enough endorsements of every group make a valid transaction.            *)
LEMMA CountedStep ==
    ASSUME Inv, Room, pc = "endorse", call.fun = "submit",
           NEW b \in Answer, Uncounted(b), buf' = Empty,
           responses' = Append(responses, b.from), Counted(call.valid + 1),
           UNCHANGED <<evaluateRes, nonce, envelope, ledger, last>>
    PROVE  Inv'
<1> USE DEF Inv
<1> DEFINE es == ToSet(responses)
           fs == ToSet(responses')
<1>1. /\ b.from.group = call.group /\ b.from.proposal = nonce
      /\ call \in Calls /\ call.group \in Groups /\ call.valid \in Nat /\ call.peer \in Nat
  BY DEF Uncounted, TypeOK, Calls
<1>0. /\ b.from \in Response
      /\ responses' \in Seq(Response)
      /\ Len(responses') = Len(responses) + 1
      /\ fs = es \cup {b.from}
      /\ IsFiniteSet(es) /\ IsFiniteSet(fs)
      /\ b.from \notin es
      /\ \A e \in fs : /\ e.proposal = nonce
                       /\ e.group <= call.group
                       /\ e.group = call.group => e.peer <= call.peer
  BY Kept DEF OriginInv
<1>2. \A g : /\ Cardinality(Given(es, nonce, g)) \in Nat
             /\ Cardinality(Given(fs, nonce, g)) =
                  IF g = call.group THEN Cardinality(Given(es, nonce, g)) + 1
                  ELSE Cardinality(Given(es, nonce, g))
  BY <1>0, <1>1, OneMore
<1>3. Cardinality(Given(fs, nonce, call.group)) = call.valid + 1
  BY <1>1, <1>2 DEF OriginInv
<1>4. \A g \in Groups : g < call.group => Cardinality(Given(fs, nonce, g)) >= Quota[g]
  BY <1>1, <1>2, GroupFacts DEF OriginInv
<1>5. /\ Len(responses') = Before[call.group] + call.valid + 1
      /\ Before[call.group] \in Nat /\ Before[call.group + 1] \in Nat
      /\ Before[call.group + 1] = Before[call.group] + Quota[call.group]
      /\ Before[call.group + 1] < MaxResponses
      /\ call.valid < Quota[call.group]
  BY <1>1, <1>0, BeforeSums, GroupFacts DEF CallInv, Sums
<1>6. Len(responses') < MaxResponses /\ Len(responses') <= MaxResponses /\ Len(responses') >= 1
  <2>1. Quota[call.group] \in Nat /\ MaxResponses \in Nat
    BY <1>1, GroupFacts, Sizes
  <2> HIDE DEF Inv
  <2> QED
    BY <1>1, <1>5, <2>1, StaysBelow
<1>7. buf' \notin Answer /\ buf' \in {Empty, Short, Garbage} \cup Answer
  BY NotAnswers
<1>8. fs \subseteq Response
  BY <1>0, ToSetIn
<1>a. CASE ~Enough(call.valid + 1) /\ call.peer < GroupSize[call.group]
  <2>1. /\ call' = [call EXCEPT !.peer = call.peer + 1, !.valid = call.valid + 1]
        /\ UNCHANGED pc
    BY <1>a DEF Counted, NextEndorser
  <2>2. /\ call' \in Calls /\ call'.peer = call.peer + 1 /\ call'.valid = call.valid + 1
        /\ call'.group = call.group /\ call'.fun = call.fun
    <3>1. call.peer + 1 \in Nat /\ call.valid + 1 \in Nat
      BY <1>1
    <3> QED
      BY <1>1, <2>1, <3>1, MovedCall DEF Calls
  <2>3. TypeOK'
    <3>1. call'.peer \in 1..GroupSize[call'.group] /\ pc' = "endorse"
      BY <1>1, <1>a, <2>1, <2>2, GroupFacts
    <3> QED
      BY <1>0, <1>6, <1>7, <2>2, <3>1, StillTyped, Zenon
  <2>4. call.valid + 1 < Quota[call.group]
    BY <1>1, <1>a, GroupFacts DEF Enough
  <2>5. CallInv'
    BY <1>1, <1>5, <2>1, <2>2, <2>4 DEF CallInv
  <2>6. \A e \in fs : /\ e.proposal = nonce
                      /\ e.group <= call'.group
                      /\ e.group = call'.group => e.peer < call'.peer
    BY <1>1, <1>8, <2>2, <1>0 DEF Response
  <2>7. OriginInv'
    BY <1>3, <1>4, <1>7, <2>1, <2>2, <2>6, <1>0 DEF OriginInv, Uncounted, Valid, Given
  <2> QED
    BY <2>3, <2>5, <2>7
<1>b. CASE ~Enough(call.valid + 1) /\ ~(call.peer < GroupSize[call.group])
  <2>1. pc' = "short" /\ UNCHANGED call
    BY <1>b DEF Counted, NextEndorser
  <2>0. TypeOK'
    BY <1>0, <1>1, <1>6, <1>7, <2>1, StillTyped, Zenon
  <2>2. CallInv'
    BY <1>6, <2>1 DEF CallInv
  <2>3. OriginInv'
    BY <2>1, <1>0 DEF OriginInv, Valid, Given
  <2> QED
    BY <2>0, <2>2, <2>3
<1>c. CASE Enough(call.valid + 1) /\ call.group < Len(GroupSize)
  <2>1. call' = [call EXCEPT !.group = call.group + 1, !.peer = 1, !.valid = 0] /\ UNCHANGED pc
    BY <1>c DEF Counted
  <2>2. /\ call' \in Calls /\ call'.peer = 1 /\ call'.valid = 0
        /\ call'.group = call.group + 1 /\ call'.fun = call.fun
    <3>1. PICK c : c = [call EXCEPT !.group = call.group + 1]
      OBVIOUS
    <3>2. c \in Calls /\ c.group = call.group + 1 /\ c.fun = call.fun
      BY <1>1, <1>c, <3>1, NextGroup
    <3>3. call' = [c EXCEPT !.peer = 1, !.valid = 0]
      BY <2>1, <3>1, Zenon
    <3>4. 1 \in Nat /\ 0 \in Nat
      OBVIOUS
    <3> QED
      BY <3>2, <3>3, <3>4, MovedCall DEF Calls
  <2>3. TypeOK'
    <3>1. call'.peer \in 1..GroupSize[call'.group] /\ pc' = "endorse"
      BY <1>1, <1>c, <2>1, <2>2, GroupFacts
    <3> QED
      BY <1>0, <1>6, <1>7, <2>2, <3>1, StillTyped, Zenon
  <2>4. call.valid + 1 = Quota[call.group]
    BY <1>1, <1>5, <1>c, GroupFacts DEF Enough
  <2>5. CallInv'
    <3>1. call'.group \in Groups /\ 0 < Quota[call'.group]
      BY <1>1, <1>c, <2>2, GroupFacts
    <3>2. Len(responses') = Before[call'.group] + call'.valid
      BY <1>1, <1>5, <2>2, <2>4
    <3> QED
      BY <2>1, <2>2, <3>1, <3>2 DEF CallInv
  <2>6. \A e \in fs : /\ e.proposal = nonce
                      /\ e.group <= call'.group
                      /\ e.group = call'.group => e.peer < call'.peer
    BY <1>0, <1>1, <1>8, <2>2, GroupFacts DEF Response
  <2>7. \A g \in Groups : g < call'.group => Cardinality(Given(fs, nonce, g)) >= Quota[g]
    BY <1>1, <1>3, <1>4, <2>2, <2>4, GroupFacts
  <2>8. Given(fs, nonce, call'.group) = {}
    BY <1>1, <2>2, <1>0, GroupFacts DEF Given
  <2>a. Cardinality(Given(fs, nonce, call'.group)) = call'.valid
    BY <2>2, <2>8, FS_EmptySet
  <2>9. OriginInv'
    BY <1>0, <1>7, <2>1, <2>2, <2>6, <2>7, <2>a
    DEF OriginInv, Uncounted, Valid, Given
  <2> QED
    BY <2>3, <2>5, <2>9
<1>d. CASE Enough(call.valid + 1) /\ ~(call.group < Len(GroupSize))
  <2>1. pc' = "pack" /\ UNCHANGED call
    BY <1>d DEF Counted
  <2>0. TypeOK'
    BY <1>0, <1>1, <1>6, <1>7, <2>1, StillTyped, Zenon
  <2>2. CallInv'
    BY <1>6, <2>1 DEF CallInv
  <2>3. \A g \in Groups : Cardinality(Given(fs, nonce, g)) >= Quota[g]
    BY <1>1, <1>3, <1>4, <1>d, GroupFacts DEF Enough
  <2>4. responses'[1] \in fs
    BY <1>6, <1>0 DEF ToSet
  <2>5. responses'[1].proposal = nonce /\ \A e \in fs : e.proposal = nonce
    BY <2>4, <1>0
  <2>6. Valid([proposal |-> nonce, payload |-> responses'[1].proposal, endorsements |-> fs])
    BY <2>3, <2>5 DEF Valid
  <2>7. OriginInv'
    BY <1>6, <2>1, <2>6, <1>0 DEF OriginInv, Valid, Given
  <2> QED
    BY <2>0, <2>2, <2>7
<1> QED
  BY <1>a, <1>b, <1>c, <1>d

LEMMA GoodAnswerStep ==
    ASSUME Inv, Room, pc = "endorse", GoodAnswer,
           UNCHANGED <<nonce, envelope, ledger, last>>
    PROVE  Inv'
<1> USE DEF Inv
<1>1. PICK r \in Outcome(EndorserAnswers) :
        LET b == Receive(buf, r.data) IN
        /\ r.ok
        /\ Endorsed(b)
        /\ buf' = Empty
        /\ responses' = Append(responses, b.from)
        /\ \/ call.fun = "submit" /\ Counted(call.valid + 1) /\ UNCHANGED evaluateRes
           \/ /\ call.fun = "evaluate" /\ b.is = "failed"
              /\ NextEndorser(call.valid)
              /\ UNCHANGED evaluateRes
           \/ /\ call.fun = "evaluate" /\ b.is # "failed"
              /\ evaluateRes' = IF b.is = "empty" THEN evaluateRes ELSE nonce
              /\ pc' = "done"
              /\ UNCHANGED call
  BY DEF GoodAnswer
<1>2. PICK b : b = Receive(buf, r.data)
  OBVIOUS
<1>3. b \in Answer /\ Uncounted(b)
  BY <1>1, <1>2, Received, NotAnswers
<1>4. buf' = Empty /\ responses' = Append(responses, b.from)
  BY <1>1, <1>2
<1>5. CASE call.fun = "submit" /\ Counted(call.valid + 1) /\ UNCHANGED evaluateRes
  BY <1>3, <1>4, <1>5, CountedStep
<1>6. /\ b.from \in Response
      /\ responses' \in Seq(Response)
      /\ Len(responses') = Len(responses) + 1
      /\ IsFiniteSet(ToSet(responses'))
      /\ ToSet(responses') \subseteq Response
      /\ \A e \in ToSet(responses') :
            /\ e.proposal = nonce
            /\ e.group <= call.group
            /\ e.group = call.group => e.peer <= call.peer
  BY <1>3, <1>4, Kept, ToSetIn
<1>7. call \in Calls /\ call.peer \in 1..GroupSize[call.group]
  BY DEF TypeOK, Calls
<1>8. ASSUME call.fun = "evaluate"
      PROVE  call.group = 1 /\ Len(responses') <= call.peer /\ Len(responses') <= MaxResponses
  <2>1. call.group = 1 /\ Len(responses) < call.peer
    BY <1>8 DEF CallInv
  <2> QED
    BY <1>6, <1>7, <2>1, GroupFacts, Sizes DEF Room, Calls, TypeOK
<1>9. buf' \in {Empty, Short, Garbage} \cup Answer /\ buf' \notin Answer
  BY <1>4, NotAnswers
<1>a. CASE call.fun = "evaluate" /\ NextEndorser(call.valid) /\ UNCHANGED evaluateRes
  <2>1. CASE /\ call.peer < GroupSize[call.group]
             /\ call' = [call EXCEPT !.peer = call.peer + 1, !.valid = call.valid]
             /\ UNCHANGED pc
    <3>1. call.peer + 1 \in Nat /\ call.valid \in Nat
      BY <1>7 DEF Calls
    <3>2. /\ call' \in Calls /\ call'.peer = call.peer + 1
          /\ call'.group = call.group /\ call'.fun = call.fun
      BY <1>7, <2>1, <3>1, MovedCall DEF Calls
    <3>3. call'.peer \in 1..GroupSize[call'.group] /\ pc' = "endorse"
      BY <1>7, <2>1, <3>2, GroupFacts DEF Calls
    <3>4. TypeOK'
      BY <1>6, <1>8, <1>9, <1>a, <3>2, <3>3, StillTyped, Zenon
    <3>5. CallInv'
      BY <1>6, <1>7, <1>8, <1>a, <2>1, <3>2 DEF CallInv, Calls
    <3>6. \A e \in ToSet(responses') :
            /\ e.proposal = nonce
            /\ e.group <= call'.group
            /\ e.group = call'.group => e.peer < call'.peer
      BY <1>6, <1>7, <3>2 DEF Response, Calls
    <3>7. OriginInv'
      BY <1>6, <1>9, <1>a, <2>1, <3>2, <3>6 DEF OriginInv, Uncounted, Valid, Given
    <3> QED
      BY <3>4, <3>5, <3>7
  <2>2. CASE pc' = "short" /\ UNCHANGED call
    <3>1. TypeOK'
      BY <1>6, <1>7, <1>8, <1>9, <1>a, <2>2, StillTyped, Zenon
    <3>2. CallInv'
      BY <1>a, <2>2 DEF CallInv
    <3>3. OriginInv'
      BY <1>6, <2>2 DEF OriginInv, Valid, Given
    <3> QED
      BY <3>1, <3>2, <3>3
  <2> QED
    BY <1>a, <2>1, <2>2 DEF NextEndorser
<1>b. CASE /\ call.fun = "evaluate" /\ pc' = "done" /\ UNCHANGED call
           /\ evaluateRes' \in {evaluateRes, nonce}
  <2>1. TypeOK'
    BY <1>6, <1>8, <1>9, <1>b DEF TypeOK
  <2>2. CallInv'
    BY <1>b DEF CallInv
  <2>3. OriginInv'
    BY <1>6, <1>b DEF OriginInv, Valid, Given
  <2> QED
    BY <2>1, <2>2, <2>3
<1> QED
  BY <1>1, <1>5, <1>a, <1>b

LEMMA AskEndorserStep == ASSUME Inv, Room, AskEndorser PROVE Inv'
BY NoAnswerStep, BadAnswerStep, GoodAnswerStep DEF AskEndorser

LEMMA GroupShortStep == ASSUME Inv, GroupShort PROVE Inv'
<1>1. /\ pc # "idle" /\ pc' = "idle" /\ call' = NoCall /\ buf' = Empty
      /\ last' = [fun |-> call.fun, ok |-> FALSE]
      /\ nonce' = nonce /\ evaluateRes' = evaluateRes /\ UNCHANGED <<envelope, ledger>>
      /\ IF call.fun = "evaluate" THEN responses' = <<>> ELSE UNCHANGED responses
  BY DEF GroupShort, Return
<1>2. call.fun \in {"submit", "evaluate"} /\ FALSE \in BOOLEAN
  BY <1>1 DEF Inv, CallInv, TypeOK, Funs
<1>3. nonce' \in 0..MaxProposals /\ evaluateRes' \in {0, nonce'}
  BY <1>1 DEF Inv, CallInv, TypeOK
<1> QED
  BY <1>1, <1>2, <1>3, ReturnStep

-----------------------------------------------------------------------------
(* The orderers *)

LEMMA PackTransactionStep == ASSUME Inv, PackTransaction PROVE Inv'
<1> USE DEF PackTransaction, Inv
<1>1. CASE /\ pc' = "order"
           /\ envelope' = [proposal |-> nonce, payload |-> responses[1].proposal,
                           endorsements |-> ToSet(responses)]
           /\ call' = [call EXCEPT !.peer = 1]
           /\ buf' = Empty
           /\ UNCHANGED <<responses, last>>
  <2>1. /\ call' \in Calls /\ call'.peer = 1 /\ call'.fun = call.fun
    BY <1>1 DEF TypeOK, Calls
  <2>2. Valid(envelope') /\ envelope'.proposal = nonce /\ envelope'.payload = nonce
    BY <1>1 DEF OriginInv, Valid
  <2>3. ToSet(responses) \subseteq Response /\ responses[1].proposal = nonce
    BY <1>1, <2>2, ToSetIn DEF TypeOK
  <2>4. TypeOK'
    BY <1>1, <2>1, <2>3, Sizes DEF TypeOK, Calls
  <2>5. CallInv'
    BY <1>1, <2>1 DEF CallInv
  <2>6. OriginInv'
    BY <1>1, <2>2 DEF OriginInv, Valid, Given
  <2> QED
    BY <2>4, <2>5, <2>6
<1>2. CASE Return(FALSE) /\ UNCHANGED envelope
  <2>1. /\ pc # "idle" /\ pc' = "idle" /\ call' = NoCall /\ buf' = Empty
        /\ last' = [fun |-> call.fun, ok |-> FALSE]
        /\ nonce' = nonce /\ evaluateRes' = evaluateRes /\ UNCHANGED <<envelope, ledger>>
        /\ IF call.fun = "evaluate" THEN responses' = <<>> ELSE UNCHANGED responses
    BY <1>2 DEF Return
  <2>2. call.fun = "submit" /\ FALSE \in BOOLEAN
    BY DEF CallInv
  <2>3. nonce' \in 0..MaxProposals /\ evaluateRes' \in {0, nonce'}
    BY <2>1 DEF CallInv, TypeOK
  <2> QED
    BY <2>1, <2>2, <2>3, ReturnStep
<1> QED
  BY <1>1, <1>2

(* The envelope goes to the ledger, or does not.                           *)
LEMMA AskOrdererStep == ASSUME Inv, AskOrderer PROVE Inv'
<1> USE DEF Inv
<1>1. PICK r \in Outcome(OrdererAnswers), accepts \in BOOLEAN :
        /\ OrdererAnswered(r)
        /\ ledger' = IF accepts THEN ledger \cup {envelope} ELSE ledger
  BY DEF AskOrderer
<1>2. pc = "order" /\ UNCHANGED <<nonce, evaluateRes, envelope, last>>
  BY DEF AskOrderer
<1>3. nonce \in Proposals /\ call \in Calls /\ call.peer \in 1..Orderers
  BY <1>2 DEF TypeOK, CallInv, Proposals, Calls
<1>4. OrdererAnswers \subseteq Answer
  BY <1>3, Sizes DEF OrdererAnswers, Answer, Response
<1>5. PICK b : b = Receive(buf, r.data)
  OBVIOUS
<1>6. b \in {Empty, Short, Garbage} \cup Answer
  <2>1. r.data \in {Empty, Short, Garbage} \cup OrdererAnswers
    BY DEF Outcome
  <2>2. b \in {buf, r.data, Garbage}
    BY <1>5 DEF Receive
  <2> QED
    BY <1>4, <2>1, <2>2 DEF TypeOK
<1>7. ledger' \subseteq [proposal : Proposals, payload : Proposals,
                        endorsements : SUBSET Response]
      /\ \A t \in ledger' : Valid(t)
  <2>1. envelope \in [proposal : Proposals, payload : Proposals,
                      endorsements : SUBSET Response]
    <3>1. envelope.proposal \in Proposals /\ envelope.payload \in Proposals
      BY <1>2, <1>3 DEF OriginInv
    <3> QED
      BY <3>1 DEF TypeOK
  <2>2. Valid(envelope)
    BY <1>2 DEF OriginInv
  <2> QED
    BY <1>1, <2>1, <2>2 DEF TypeOK, OriginInv
<1>8. CASE /\ Accepted(b)
           /\ responses' = Append(responses, b.from)
           /\ buf' = Garbage
           /\ pc' = "done"
           /\ UNCHANGED call
  <2>1. b.from \in Response
    BY <1>6, <1>8, NotAnswers DEF Answer
  <2>2. /\ responses' \in Seq(Response) /\ Len(responses') = Len(responses) + 1
        /\ ToSet(responses') = ToSet(responses) \cup {b.from}
    BY <1>8, <2>1, AppendToSet DEF TypeOK
  <2>3. Len(responses') <= MaxResponses
    BY <1>2, <2>2, Sizes DEF CallInv, TypeOK
  <2>4. IsFiniteSet(ToSet(responses'))
    <3>1. IsFiniteSet(ToSet(responses))
      BY DEF OriginInv
    <3> QED
      BY <2>2, <3>1, FS_AddElement, Zenon
  <2>5. TypeOK'
    BY <1>2, <1>7, <1>8, <2>2, <2>3 DEF TypeOK
  <2>6. CallInv'
    BY <1>2, <1>8 DEF CallInv
  <2>7. OriginInv'
    BY <1>7, <1>8, <2>4 DEF OriginInv, Valid, Given
  <2> QED
    BY <2>5, <2>6, <2>7
<1>9. CASE /\ buf' \in {Garbage, b}
           /\ NextOrderer(r.ok)
           /\ UNCHANGED responses
  <2>1. r.ok \in BOOLEAN
    BY DEF Outcome
  <2>2. /\ call' \in Calls /\ call'.fun = call.fun
        /\ pc' \in {"order", "tried"}
        /\ pc' = "order" => call'.peer \in 1..Orderers
    <3>1. CASE /\ call.peer < Orderers
               /\ call' = [call EXCEPT !.peer = call.peer + 1, !.ok = r.ok]
               /\ UNCHANGED pc
      <4>1. PICK c : c = [call EXCEPT !.peer = call.peer + 1]
        OBVIOUS
      <4>2. c \in Calls /\ c.peer = call.peer + 1 /\ c.fun = call.fun
        BY <1>3, <4>1, Sizes DEF Calls
      <4>3. call' = [c EXCEPT !.ok = r.ok]
        BY <3>1, <4>1, Zenon
      <4>4. call' \in Calls /\ call'.peer = call.peer + 1 /\ call'.fun = call.fun
        BY <2>1, <4>2, <4>3 DEF Calls
      <4> QED
        BY <1>2, <1>3, <3>1, <4>4, Sizes
    <3>2. CASE pc' = "tried" /\ call' = [call EXCEPT !.ok = r.ok]
      BY <1>3, <2>1, <3>2 DEF Calls
    <3> QED
      BY <1>9, <3>1, <3>2 DEF NextOrderer
  <2>3. TypeOK'
    BY <1>2, <1>6, <1>7, <1>9, <2>2 DEF TypeOK, Calls
  <2>4. CallInv'
    BY <1>2, <1>9, <2>2 DEF CallInv
  <2>5. OriginInv'
    BY <1>2, <1>7, <1>9, <2>2 DEF OriginInv, Valid, Given
  <2> QED
    BY <2>3, <2>4, <2>5
<1> QED
  BY <1>1, <1>5, <1>8, <1>9 DEF OrdererAnswered

LEMMA OrderersTriedStep == ASSUME Inv, OrderersTried PROVE Inv'
<1> USE DEF OrderersTried, Inv
<1>1. CASE pc' = "done" /\ UNCHANGED <<responses, call, buf, last>>
  BY <1>1 DEF TypeOK, CallInv, OriginInv, Valid, Given
<1>2. CASE Return(FALSE)
  <2>1. /\ pc # "idle" /\ pc' = "idle" /\ call' = NoCall /\ buf' = Empty
        /\ last' = [fun |-> call.fun, ok |-> FALSE]
        /\ nonce' = nonce /\ evaluateRes' = evaluateRes /\ UNCHANGED <<envelope, ledger>>
        /\ IF call.fun = "evaluate" THEN responses' = <<>> ELSE UNCHANGED responses
    BY <1>2 DEF Return
  <2>2. call.fun = "submit" /\ FALSE \in BOOLEAN
    BY DEF CallInv
  <2>3. nonce' \in 0..MaxProposals /\ evaluateRes' \in {0, nonce'}
    BY <2>1 DEF CallInv, TypeOK
  <2> QED
    BY <2>1, <2>2, <2>3, ReturnStep
<1> QED
  BY <1>1, <1>2

LEMMA FinishStep == ASSUME Inv, Finish PROVE Inv'
<1>1. /\ pc # "idle" /\ pc' = "idle" /\ call' = NoCall /\ buf' = Empty
      /\ last' = [fun |-> call.fun, ok |-> TRUE] /\ responses' = <<>>
      /\ nonce' = nonce /\ evaluateRes' = evaluateRes /\ UNCHANGED <<envelope, ledger>>
  BY DEF Finish
<1>2. nonce' \in 0..MaxProposals /\ evaluateRes' \in {0, nonce'} /\ TRUE \in BOOLEAN
  BY <1>1 DEF Inv, CallInv, TypeOK
<1> QED
  BY <1>1, <1>2, ReturnStep

-----------------------------------------------------------------------------
(* HW-BCS *)

LEMMA DiesStep == ASSUME Inv, Dies, UNCHANGED <<nonce, envelope, ledger>> PROVE Inv'
<1> USE DEF Dies, Inv
<1>1. call' \in Calls /\ last'.fun = "none" /\ last' \in [fun : Funs, ok : BOOLEAN]
  BY GroupFacts DEF NoCall, NoReturn, Calls, Funs
<1>2. TypeOK'
  BY <1>1, Sizes DEF TypeOK, Calls
<1>3. CallInv'
  BY <1>1 DEF CallInv
<1>4. OriginInv'
  BY EmptyToSet, FS_EmptySet DEF OriginInv, Valid, Given
<1> QED
  BY <1>2, <1>3, <1>4

LEMMA HwbcsStep == ASSUME Inv, Room, ~RetryRaw, HwbcsNext PROVE Inv'
<1>1. CASE HwbcsAskEndorser
  <2>1. pc = "endorse" /\ UNCHANGED <<nonce, envelope, ledger>>
    BY <1>1 DEF HwbcsAskEndorser
  <2>2. PICK r \in Outcome(EndorserAnswers) :
          LET b == Receive(buf, r.data) IN
          \/ HwbcsNoAnswer(r.ok, b)
          \/ HwbcsBadAnswer(r.ok, b)
          \/ HwbcsFatalAnswer(r.ok, b)
    BY <1>1 DEF HwbcsAskEndorser
  <2>3. PICK b : b = Receive(buf, r.data)
    OBVIOUS
  <2>4. b \in {Empty, Short, Garbage} \cup Answer /\ Uncounted(b)
    BY <2>1, <2>3, Received
  <2>5. CASE HwbcsNoAnswer(r.ok, b)
    BY <2>1, <2>4, <2>5, SkipStep DEF HwbcsNoAnswer
  <2>6. CASE HwbcsBadAnswer(r.ok, b)
    <3>1. Uncounted(Empty)
      BY NotAnswers DEF Uncounted
    <3> QED
      BY <2>1, <2>6, <3>1, SkipStep DEF HwbcsBadAnswer
  <2>7. CASE HwbcsFatalAnswer(r.ok, b)
    BY <2>1, <2>7, DiesStep DEF HwbcsFatalAnswer
  <2> QED
    BY <2>2, <2>3, <2>5, <2>6, <2>7
<1>2. CASE HwbcsTxInit \/ HwbcsBegin \/ HwbcsPackProposal \/ HwbcsGroupShort
  BY <1>2, TxInitStep, BeginStep, PackProposalStep, GroupShortStep
  DEF HwbcsTxInit, HwbcsBegin, HwbcsPackProposal, HwbcsGroupShort
<1> QED
  BY <1>1, <1>2 DEF HwbcsNext, HwbcsRunning

-----------------------------------------------------------------------------
(* The theorems *)

(* The layout fits the array, and the application initialises a tx again   *)
(* after a Submit that failed.                                             *)
Careful == Room /\ ~RetryRaw

LEMMA Unchanged == ASSUME Inv, UNCHANGED <<vars, chain>> PROVE Inv'
BY DEF Inv, TypeOK, CallInv, OriginInv, Uncounted, Valid, Given, vars

LEMMA EveryStep == ASSUME Careful, Inv, [EitherNext]_<<vars, chain>> PROVE Inv'
<1> USE DEF Careful
<1>1. CASE Next
  BY <1>1, TxInitStep, BeginStep, PackProposalStep, AskEndorserStep, GroupShortStep,
     PackTransactionStep, AskOrdererStep, OrderersTriedStep, FinishStep DEF Next
<1>2. CASE HwbcsNext
  BY <1>2, HwbcsStep
<1>3. CASE UNCHANGED <<vars, chain>>
  BY <1>3, Unchanged
<1> QED
  BY <1>1, <1>2, <1>3 DEF EitherNext

LEMMA Always == ASSUME Careful PROVE EitherSpec => []Inv
<1>1. EitherInit => Inv
  BY FabricInit DEF Careful
<1>2. Inv /\ [EitherNext]_<<vars, chain>> => Inv'
  BY EveryStep
<1> QED
  BY <1>1, <1>2, PTL DEF EitherSpec

(* Whatever the peers answer, and whatever part of an answer arrives, the  *)
(* loops of BoatHlfabricTxExec and BoatHwbcsTxExec stay within the network *)
(* and the endorsements within tx_ptr->endorserResponse.                   *)
THEOREM FabricTypeCorrect == ASSUME Careful PROVE EitherSpec => []TypeOK
<1>1. Inv => TypeOK
  BY DEF Inv
<1> QED
  BY <1>1, Always, PTL

(* Every transaction an orderer accepted has the quota of every group,     *)
(* given by different endorsers of that group for its own proposal.        *)
THEOREM AlwaysEndorsed == ASSUME Careful PROVE EitherSpec => []EndorsedEnough
<1>1. Inv => EndorsedEnough
  BY DEF Inv, OriginInv, Valid, Given, EndorsedEnough
<1> QED
  BY <1>1, Always, PTL

(* No transaction mixes the payload or the endorsements of two proposals.  *)
THEOREM NeverMixed == ASSUME Careful PROVE EitherSpec => []OneProposal
<1>1. Inv => OneProposal
  BY DEF Inv, OriginInv, Valid, OneProposal
<1> QED
  BY <1>1, Always, PTL

(* What evaluateRes holds after a call is the answer to that call.         *)
THEOREM AnswersAreFresh == ASSUME Careful PROVE EitherSpec => []EvaluateFresh
<1>1. Inv => EvaluateFresh
  BY DEF Inv, CallInv, EvaluateFresh
<1> QED
  BY <1>1, Always, PTL
=============================================================================
