---------------------------- MODULE RgaReplicas ----------------------------
(***************************************************************************)
(* What the CRDT package promises to its users: replicas to which the      *)
(* operations of a set are delivered in any order, any number of times,    *)
(* some never.  The simulated network of internal/crdt/harness_test.go is  *)
(* one such environment, a room and its browsers another.                  *)
(*                                                                         *)
(* accepted[r] is the set of operations replica r has answered with nil.   *)
(* It is not in the code: it is the history against which the document is  *)
(* compared.                                                               *)
(***************************************************************************)
EXTENDS RgaDocument

CONSTANTS Replicas,  (* the documents                                      *)
          Ops        (* the operations that may be delivered               *)

ASSUME OpsAssumption == Ops \subseteq Operation

VARIABLES doc, accepted

vars == <<doc, accepted>>

Init == /\ doc = [r \in Replicas |-> New]
        /\ accepted = [r \in Replicas |-> {}]

(* One call of Apply. *)
Deliver(r, op) ==
  /\ doc' = [doc EXCEPT ![r] = Apply(@, op)]
  /\ accepted' = [accepted EXCEPT ![r] = IF Accepts(doc[r], op)
                                         THEN @ \cup {op} ELSE @]

Next == \E r \in Replicas, op \in Ops : Deliver(r, op)

Spec == Init /\ [][Next]_vars
-----------------------------------------------------------------------------
(* Type correctness: Apply keeps d.chars a map from IDs to characters.     *)
TypeOK ==
  /\ DOMAIN doc = Replicas
  /\ \A r \in Replicas : IsDocument(doc[r])
  /\ accepted \in [Replicas -> SUBSET Ops]

Inserts(S) == {op \in S : op.type = "insert"}
Deletes(S) == {op \in S : op.type = "delete"}

(***************************************************************************)
(* The document is determined by the set of operations Apply accepted:     *)
(* it holds exactly the characters inserted, each with the content of its  *)
(* insert, and a character is a tombstone exactly if it was deleted.       *)
(* Neither the order of the calls nor how often an operation was repeated  *)
(* leaves a trace.                                                         *)
(***************************************************************************)
DescribedBy(d, S) ==
  /\ DOMAIN d = {op.id : op \in Inserts(S)}
  /\ \A op \in Inserts(S) : SameContent(d[op.id], op)
  /\ Tombstones(d) = {op.id : op \in Deletes(S)}

StateFromAccepted == \A r \in Replicas : DescribedBy(doc[r], accepted[r])

(* Strong convergence (README.md, "converge regardless of delivery         *)
(* order"): replicas whose Apply accepted the same operations hold the     *)
(* same document, whatever the orders were.                                *)
Convergence == \A r, q \in Replicas :
                 accepted[r] = accepted[q] => doc[r] = doc[q]

(* Every character a document holds is anchored in the document: Apply     *)
(* refuses an insert whose left anchor it does not have, so the parent of  *)
(* a character is never missing while nothing has been compacted.          *)
ParentsPresent == \A r \in Replicas : \A id \in DOMAIN doc[r] :
                    doc[r][id].leftID \in DOMAIN doc[r] \cup {NoID}

(* The two implementations agree: an operation document.go accepts is      *)
(* accepted by crdt.js on the same document with the same result, and      *)
(* crdt.js accepts nothing else but inserts whose right anchor is not a    *)
(* valid ID.                                                               *)
BrowserAgrees == \A r \in Replicas, op \in Ops :
  /\ Accepts(doc[r], op) => BrowserAccepts(doc[r], op)
  /\ BrowserAccepts(doc[r], op) /\ ~Accepts(doc[r], op) =>
       op.type = "insert" /\ op.rightID # NoID /\ ~ValidID(op.rightID)
  /\ Accepts(doc[r], op) => BrowserApply(doc[r], op) = Apply(doc[r], op)
=============================================================================
