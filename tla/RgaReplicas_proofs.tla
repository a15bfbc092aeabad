------------------------- MODULE RgaReplicas_proofs -------------------------
(***************************************************************************)
(* Proofs about RgaReplicas, for every set of replicas, every set of       *)
(* operations and every order of deliveries.                               *)
(***************************************************************************)
EXTENDS RgaReplicas, TLAPS

(* Apply answers nil to an insert only if it repeats the character it      *)
(* finds, or if it finds none and the left anchor is nil or present.       *)
LEMMA AcceptedInsert ==
  ASSUME NEW d, NEW op \in InsertOp, Accepts(d, op)
  PROVE  /\ op.id \in DOMAIN d => SameContent(d[op.id], op)
         /\ op.id \notin DOMAIN d => op.leftID \in DOMAIN d \cup {NoID}
BY DEF Accepts, Outcome, InsertOutcome, LeftMissing, InsertOp

(* Apply answers nil to a delete only if it finds the character.           *)
LEMMA AcceptedDelete ==
  ASSUME NEW d, NEW op \in DeleteOp, Accepts(d, op)
  PROVE  op.id \in DOMAIN d
BY DEF Accepts, Outcome, DeleteOutcome, DeleteOp

(* Apply takes documents to documents.                                     *)
LEMMA ApplyIsDocument ==
  ASSUME NEW d, IsDocument(d), NEW op \in Operation
  PROVE  IsDocument(Apply(d, op))
<1>1. CASE ~Accepts(d, op)
  BY <1>1 DEF Apply
<1>2. CASE Accepts(d, op) /\ op \in InsertOp
  <2>1. InsertedChar(op) \in Char
    BY <1>2 DEF InsertedChar, Char, InsertOp
  <2>2. Apply(d, op) = ApplyInsert(d, op)
    BY <1>2 DEF Apply, InsertOp
  <2>. QED
    BY <1>2, <2>1, <2>2 DEF ApplyInsert, IsDocument, InsertOp
<1>3. CASE Accepts(d, op) /\ op \in DeleteOp
  <2>1. Apply(d, op) = ApplyDelete(d, op)
    BY <1>3 DEF Apply, DeleteOp
  <2>2. op.id \in DOMAIN d
    BY <1>3, AcceptedDelete
  <2>. QED
    BY <2>1, <2>2 DEF ApplyDelete, IsDocument, Char
<1>. QED
  BY <1>1, <1>2, <1>3 DEF Operation

(* Type correctness of the replicas.                                       *)
THEOREM TypeCorrect == Spec => []TypeOK
<1>1. Init => TypeOK
  BY DEF Init, TypeOK, New, IsDocument
<1>2. TypeOK /\ [Next]_vars => TypeOK'
  <2>. SUFFICES ASSUME TypeOK, [Next]_vars PROVE TypeOK'
    OBVIOUS
  <2>1. ASSUME NEW r \in Replicas, NEW op \in Ops, Deliver(r, op)
        PROVE  TypeOK'
    <3>1. IsDocument(Apply(doc[r], op))
      BY ApplyIsDocument, OpsAssumption DEF TypeOK
    <3>2. /\ DOMAIN doc' = Replicas
          /\ doc'[r] = Apply(doc[r], op)
          /\ \A q \in Replicas : q # r => doc'[q] = doc[q]
      BY <2>1 DEF TypeOK, Deliver
    <3>3. \A q \in Replicas : IsDocument(doc'[q])
      BY <3>1, <3>2 DEF TypeOK
    <3>4. accepted' \in [Replicas -> SUBSET Ops]
      BY <2>1 DEF TypeOK, Deliver
    <3>. QED
      BY <3>2, <3>3, <3>4 DEF TypeOK
  <2>2. CASE UNCHANGED vars
    BY <2>2 DEF TypeOK, vars
  <2>. QED
    BY <2>1, <2>2 DEF Next
<1>. QED
  BY <1>1, <1>2, PTL DEF Spec
-----------------------------------------------------------------------------
(* An accepted operation, added to the set that describes a document,      *)
(* describes the document that Apply returns.                              *)
LEMMA ApplyDescribed ==
  ASSUME NEW d, IsDocument(d), NEW S \in SUBSET Operation, DescribedBy(d, S),
         NEW op \in Operation, Accepts(d, op)
  PROVE  DescribedBy(Apply(d, op), S \cup {op})
<1>1. CASE op \in InsertOp
  <2>. DEFINE e == ApplyInsert(d, op)
  <2>1. Apply(d, op) = e
    BY <1>1 DEF Apply, InsertOp
  <2>2. /\ Inserts(S \cup {op}) = Inserts(S) \cup {op}
        /\ Deletes(S \cup {op}) = Deletes(S)
    BY <1>1 DEF Inserts, Deletes, InsertOp
  <2>3. /\ DOMAIN e = DOMAIN d \cup {op.id}
        /\ \A id \in DOMAIN d : e[id] = d[id]
        /\ op.id \notin DOMAIN d => e[op.id] = InsertedChar(op)
    BY DEF ApplyInsert
  <2>4. DOMAIN e = {o.id : o \in Inserts(S \cup {op})}
    BY <2>2, <2>3 DEF DescribedBy
  <2>5. SameContent(e[op.id], op)
    BY <1>1, <2>3, AcceptedInsert DEF SameContent, InsertedChar
  <2>6. \A o \in Inserts(S) : SameContent(e[o.id], o)
    BY <2>3 DEF DescribedBy
  <2>7. Tombstones(e) = Tombstones(d)
    BY <2>3 DEF Tombstones, InsertedChar
  <2>. QED
    BY <2>1, <2>2, <2>4, <2>5, <2>6, <2>7 DEF DescribedBy
<1>2. CASE op \in DeleteOp
  <2>. DEFINE e == ApplyDelete(d, op)
  <2>1. Apply(d, op) = e
    BY <1>2 DEF Apply, DeleteOp
  <2>2. /\ Inserts(S \cup {op}) = Inserts(S)
        /\ Deletes(S \cup {op}) = Deletes(S) \cup {op}
    BY <1>2 DEF Inserts, Deletes, DeleteOp
  <2>3. op.id \in DOMAIN d
    BY <1>2, AcceptedDelete
  <2>4. /\ DOMAIN e = DOMAIN d
        /\ \A id \in DOMAIN d : /\ e[id].value = d[id].value
                                /\ e[id].leftID = d[id].leftID
                                /\ e[id].rightID = d[id].rightID
                                /\ e[id].deleted = (d[id].deleted \/ id = op.id)
    BY <2>3 DEF ApplyDelete, IsDocument, Char
  <2>5. \A o \in Inserts(S) : SameContent(e[o.id], o)
    BY <2>4 DEF DescribedBy, SameContent
  <2>6. Tombstones(e) = Tombstones(d) \cup {op.id}
    BY <2>3, <2>4 DEF Tombstones
  <2>7. Tombstones(e) = {o.id : o \in Deletes(S \cup {op})}
    BY <2>2, <2>6 DEF DescribedBy
  <2>. HIDE DEF e
  <2>. QED
    BY <2>1, <2>2, <2>4, <2>5, <2>7 DEF DescribedBy
<1>. QED
  BY <1>1, <1>2 DEF Operation

(* The document is a function of the set of accepted operations, for       *)
(* every number of replicas and every set of operations.                   *)
THEOREM StateIsFunctionOfAccepted == Spec => []StateFromAccepted
<1>1. Init => StateFromAccepted
  BY DEF Init, StateFromAccepted, DescribedBy, New, Inserts, Deletes, Tombstones
<1>2. TypeOK /\ StateFromAccepted /\ [Next]_vars => StateFromAccepted'
  <2>. SUFFICES ASSUME TypeOK, StateFromAccepted, [Next]_vars
                PROVE  StateFromAccepted'
    OBVIOUS
  <2>1. ASSUME NEW r \in Replicas, NEW op \in Ops, Deliver(r, op)
        PROVE  StateFromAccepted'
    <3>1. /\ doc'[r] = Apply(doc[r], op)
          /\ accepted'[r] = IF Accepts(doc[r], op) THEN accepted[r] \cup {op}
                                                   ELSE accepted[r]
          /\ \A q \in Replicas : q # r => /\ doc'[q] = doc[q]
                                          /\ accepted'[q] = accepted[q]
      BY <2>1 DEF TypeOK, Deliver
    <3>2. CASE Accepts(doc[r], op)
      <4>1. DescribedBy(Apply(doc[r], op), accepted[r] \cup {op})
        <5>1. /\ IsDocument(doc[r])
              /\ accepted[r] \in SUBSET Operation
              /\ op \in Operation
              /\ DescribedBy(doc[r], accepted[r])
          BY OpsAssumption DEF TypeOK, StateFromAccepted
        <5>. QED
          BY <3>2, <5>1, ApplyDescribed
      <4>. QED
        BY <3>1, <3>2, <4>1 DEF StateFromAccepted
    <3>3. CASE ~Accepts(doc[r], op)
      BY <3>1, <3>3 DEF StateFromAccepted, Apply
    <3>. QED
      BY <3>2, <3>3
  <2>2. CASE UNCHANGED vars
    BY <2>2 DEF StateFromAccepted, vars
  <2>. QED
    BY <2>1, <2>2 DEF Next
<1>. QED
  BY <1>1, <1>2, TypeCorrect, PTL DEF Spec

(* Two documents described by the same operations are equal.               *)
LEMMA DescriptionDetermines ==
  ASSUME NEW d, NEW e, NEW S, IsDocument(d), IsDocument(e),
         DescribedBy(d, S), DescribedBy(e, S)
  PROVE  d = e
<1>1. DOMAIN d = DOMAIN e
  BY DEF DescribedBy
<1>2. ASSUME NEW id \in DOMAIN d PROVE d[id] = e[id]
  <2>1. PICK op \in Inserts(S) : op.id = id
    BY DEF DescribedBy
  <2>2. SameContent(d[id], op) /\ SameContent(e[id], op)
    BY <2>1 DEF DescribedBy
  <2>3. d[id].deleted = e[id].deleted
    <3>1. Tombstones(d) = Tombstones(e)
      BY DEF DescribedBy
    <3>2. d[id].deleted \in BOOLEAN /\ e[id].deleted \in BOOLEAN
      BY <1>1 DEF IsDocument, Char
    <3>. QED
      BY <1>1, <3>1, <3>2 DEF Tombstones
  <2>4. d[id] \in Char /\ e[id] \in Char
    BY <1>1 DEF IsDocument
  <2>. QED
    BY <2>2, <2>3, <2>4 DEF SameContent, Char
<1>. QED
  BY <1>1, <1>2 DEF IsDocument

(* Replicas whose Apply accepted the same operations hold the same         *)
(* document: strong convergence, for every number of replicas, every set   *)
(* of operations and every order, repetition or loss of deliveries.        *)
THEOREM ReplicasConverge == Spec => []Convergence
<1>1. TypeOK /\ StateFromAccepted => Convergence
  <2>. SUFFICES ASSUME TypeOK, StateFromAccepted,
                       NEW r \in Replicas, NEW q \in Replicas,
                       accepted[r] = accepted[q]
                PROVE  doc[r] = doc[q]
    BY DEF Convergence
  <2>1. /\ IsDocument(doc[r]) /\ IsDocument(doc[q])
        /\ DescribedBy(doc[r], accepted[r])
        /\ DescribedBy(doc[q], accepted[r])
    BY DEF TypeOK, StateFromAccepted
  <2>. QED
    BY <2>1, DescriptionDetermines
<1>. QED
  BY <1>1, TypeCorrect, StateIsFunctionOfAccepted, PTL
-----------------------------------------------------------------------------
(* What Apply returns still has every parent it needs.                     *)
LEMMA ApplyKeepsParents ==
  ASSUME NEW d, IsDocument(d), NEW op \in Operation,
         \A id \in DOMAIN d : d[id].leftID \in DOMAIN d \cup {NoID}
  PROVE  \A id \in DOMAIN Apply(d, op) :
           Apply(d, op)[id].leftID \in DOMAIN Apply(d, op) \cup {NoID}
<1>1. CASE ~Accepts(d, op)
  BY <1>1 DEF Apply
<1>2. CASE Accepts(d, op) /\ op \in InsertOp
  <2>1. Apply(d, op) = ApplyInsert(d, op)
    BY <1>2 DEF Apply, InsertOp
  <2>2. op.id \notin DOMAIN d => op.leftID \in DOMAIN d \cup {NoID}
    BY <1>2, AcceptedInsert
  <2>. QED
    BY <2>1, <2>2 DEF ApplyInsert, InsertedChar
<1>3. CASE Accepts(d, op) /\ op \in DeleteOp
  <2>1. Apply(d, op) = ApplyDelete(d, op)
    BY <1>3 DEF Apply, DeleteOp
  <2>2. op.id \in DOMAIN d
    BY <1>3, AcceptedDelete
  <2>. QED
    BY <2>1, <2>2 DEF ApplyDelete, IsDocument, Char
<1>. QED
  BY <1>1, <1>2, <1>3 DEF Operation

(* While nothing is compacted, no character is left without its parent.    *)
THEOREM NoOrphans == Spec => []ParentsPresent
<1>1. Init => ParentsPresent
  BY DEF Init, ParentsPresent, New
<1>2. TypeOK /\ ParentsPresent /\ [Next]_vars => ParentsPresent'
  <2>. SUFFICES ASSUME TypeOK, ParentsPresent, [Next]_vars
                PROVE  ParentsPresent'
    OBVIOUS
  <2>1. ASSUME NEW r \in Replicas, NEW op \in Ops, Deliver(r, op)
        PROVE  ParentsPresent'
    <3>1. /\ doc'[r] = Apply(doc[r], op)
          /\ \A q \in Replicas : q # r => doc'[q] = doc[q]
      BY <2>1 DEF TypeOK, Deliver
    <3>2. /\ IsDocument(doc[r]) /\ op \in Operation
          /\ \A id \in DOMAIN doc[r] :
               doc[r][id].leftID \in DOMAIN doc[r] \cup {NoID}
      BY OpsAssumption DEF TypeOK, ParentsPresent
    <3>3. \A id \in DOMAIN doc'[r] :
            doc'[r][id].leftID \in DOMAIN doc'[r] \cup {NoID}
      BY <3>1, <3>2, ApplyKeepsParents
    <3>. QED
      BY <3>1, <3>3 DEF ParentsPresent
  <2>2. CASE UNCHANGED vars
    BY <2>2 DEF ParentsPresent, vars
  <2>. QED
    BY <2>1, <2>2 DEF Next
<1>. QED
  BY <1>1, <1>2, TypeCorrect, PTL DEF Spec

(* Every operation the server accepts is accepted by a browser that holds  *)
(* the same document, with the same result; the browser accepts besides    *)
(* only inserts whose right anchor is not a valid ID.                      *)
THEOREM ImplementationsAgree == Spec => []BrowserAgrees
<1>1. TypeOK => BrowserAgrees
  <2>. SUFFICES ASSUME TypeOK, NEW r \in Replicas, NEW op \in Operation
                PROVE  /\ Accepts(doc[r], op) => BrowserAccepts(doc[r], op)
                       /\ BrowserAccepts(doc[r], op) /\ ~Accepts(doc[r], op)
                            => /\ op.type = "insert" /\ op.rightID # NoID
                               /\ ~ValidID(op.rightID)
    BY OpsAssumption DEF BrowserAgrees, BrowserApply, Apply
  <2>1. CASE op \in InsertOp
    BY <2>1 DEF Accepts, Outcome, InsertOutcome, LeftInvalid, LeftMissing,
                RightInvalid, BrowserAccepts, InsertOp
  <2>2. CASE op \in DeleteOp
    BY <2>2 DEF Accepts, Outcome, DeleteOutcome, BrowserAccepts, DeleteOp
  <2>. QED
    BY <2>1, <2>2 DEF Operation
<1>. QED
  BY <1>1, TypeCorrect, PTL
=============================================================================
