---------------------------- MODULE RgaDocument ----------------------------
(***************************************************************************)
(* The sequence CRDT of gopad: the Document of internal/crdt/document.go,  *)
(* which web/assets/crdt.js repeats in the browser.                        *)
(*                                                                         *)
(* A document is the map d.chars: a function from the identities of the    *)
(* characters it holds to their content.  This module has what Apply and   *)
(* Compact do to that map; RgaOrder has the order in which it is read.     *)
(*                                                                         *)
(* A siteID is a string in the code.  Only its order and the test for the  *)
(* empty string matter, so it is a natural number here, its rank in the    *)
(* lexicographic order of the site IDs, and 0 is the empty string.         *)
(***************************************************************************)
EXTENDS Naturals

CONSTANTS Values,  (* the runes that are typed                             *)
          NoID     (* a nil *CharID                                        *)

CharID == [siteID : Nat, counter : Nat]

ASSUME NoIDAssumption == NoID \notin CharID

Anchor == CharID \cup {NoID}

Char == [value : Values, leftID : Anchor, rightID : Anchor, deleted : BOOLEAN]

InsertOp == [type : {"insert"}, id : CharID, value : Values,
             leftID : Anchor, rightID : Anchor]

DeleteOp == [type : {"delete"}, id : CharID]

Operation == InsertOp \cup DeleteOp

(* d is a value of d.chars. *)
IsDocument(d) == /\ DOMAIN d \subseteq CharID
                 /\ d \in [DOMAIN d -> Char]

New == [id \in {} |-> id]

(* The test `SiteID == "" || Counter == 0` of Apply and applyInsert. *)
ValidID(id) == id.siteID # 0 /\ id.counter # 0
-----------------------------------------------------------------------------
(***************************************************************************)
(* What Apply answers.  applyInsert looks at an existing character first,  *)
(* then at the left anchor, then at the right one.  The left anchor must   *)
(* be in the document, deleted or not; the right one need not be.          *)
(***************************************************************************)
SameContent(char, op) == /\ char.value = op.value
                         /\ char.leftID = op.leftID
                         /\ char.rightID = op.rightID

LeftInvalid(op) == /\ op.leftID # NoID
                   /\ ~ValidID(op.leftID) \/ op.id = op.leftID

(* Mutant: the existence test of the left anchor is dropped. *)
LeftMissing_Unchecked(d, op) == FALSE

LeftMissing(d, op) == op.leftID # NoID /\ op.leftID \notin DOMAIN d

RightInvalid(op) == /\ op.rightID # NoID
                    /\ \/ ~ValidID(op.rightID)
                       \/ op.id = op.rightID
                       \/ op.leftID = op.rightID

(* Mutant: an ID already in use is always taken for a repetition. *)
InsertOutcome_AnyDuplicate(d, op) ==
  IF op.id \in DOMAIN d THEN "ok"
  ELSE IF LeftInvalid(op) \/ RightInvalid(op) THEN "ErrInvalidOperation"
  ELSE IF LeftMissing(d, op) THEN "ErrMissingParent" ELSE "ok"

InsertOutcome(d, op) ==
  CASE op.id \in DOMAIN d ->
         IF SameContent(d[op.id], op) THEN "ok" ELSE "ErrConflictingDuplicate"
    [] op.id \notin DOMAIN d /\ LeftInvalid(op) -> "ErrInvalidOperation"
    [] op.id \notin DOMAIN d /\ ~LeftInvalid(op) /\ LeftMissing(d, op) ->
         "ErrMissingParent"
    [] OTHER -> IF RightInvalid(op) THEN "ErrInvalidOperation" ELSE "ok"

DeleteOutcome(d, op) ==
  IF op.id \in DOMAIN d THEN "ok" ELSE "ErrUnknownCharacter"

Outcome(d, op) ==
  IF ~ValidID(op.id) THEN "ErrInvalidOperation"
  ELSE IF op.type = "insert" THEN InsertOutcome(d, op) ELSE DeleteOutcome(d, op)

Accepts(d, op) == Outcome(d, op) = "ok"
-----------------------------------------------------------------------------
(***************************************************************************)
(* What Apply does to the map.  A character is stored once, a delete only  *)
(* raises its flag, and a rejected operation leaves the map alone.         *)
(***************************************************************************)
(* Mutant: the anchor is stored in the place of the rune. *)
InsertedChar_Swapped(op) == [value |-> op.leftID, leftID |-> op.leftID,
                             rightID |-> op.rightID, deleted |-> FALSE]

InsertedChar(op) == [value |-> op.value, leftID |-> op.leftID,
                     rightID |-> op.rightID, deleted |-> FALSE]

ApplyInsert(d, op) ==
  [id \in DOMAIN d \cup {op.id} |->
     IF id \in DOMAIN d THEN d[id] ELSE InsertedChar(op)]

(* Mutant: a delete removes the character instead of leaving a tombstone. *)
ApplyDelete_Removes(d, op) == [id \in DOMAIN d \ {op.id} |-> d[id]]

(* Mutant: a second delete takes the first one back. *)
ApplyDelete_Toggles(d, op) == [d EXCEPT ![op.id].deleted = ~@]

ApplyDelete(d, op) == [d EXCEPT ![op.id].deleted = TRUE]

Apply(d, op) ==
  IF ~Accepts(d, op) THEN d
  ELSE IF op.type = "insert" THEN ApplyInsert(d, op) ELSE ApplyDelete(d, op)

(* Compact forgets the tombstones among ids; live and unknown ids are      *)
(* skipped.  The characters anchored to a tombstone are not touched.       *)
Compact(d, ids) ==
  [id \in {i \in DOMAIN d : ~(i \in ids /\ d[i].deleted)} |-> d[id]]

Tombstones(d) == {id \in DOMAIN d : d[id].deleted}
-----------------------------------------------------------------------------
(***************************************************************************)
(* RgaDocument.apply of web/assets/crdt.js.  Unlike applyInsert it does    *)
(* not ask whether the right anchor is a valid ID, and it answers with an  *)
(* exception instead of an error value.                                    *)
(***************************************************************************)
(* Mutant: the browser asks for a left anchor that is still visible. *)
BrowserAccepts_LiveParent(d, op) ==
  /\ ValidID(op.id)
  /\ IF op.type = "delete" THEN op.id \in DOMAIN d
     ELSE IF op.id \in DOMAIN d THEN SameContent(d[op.id], op)
     ELSE /\ op.leftID # NoID => /\ op.leftID \in DOMAIN d
                                 /\ ~d[op.leftID].deleted
          /\ op.rightID # NoID => op.id # op.rightID /\ op.leftID # op.rightID

BrowserAccepts(d, op) ==
  /\ ValidID(op.id)
  /\ IF op.type = "delete" THEN op.id \in DOMAIN d
     ELSE IF op.id \in DOMAIN d THEN SameContent(d[op.id], op)
     ELSE /\ op.leftID # NoID => /\ ValidID(op.leftID)
                                 /\ op.id # op.leftID
                                 /\ op.leftID \in DOMAIN d
          /\ op.rightID # NoID => op.id # op.rightID /\ op.leftID # op.rightID

BrowserApply(d, op) ==
  IF ~BrowserAccepts(d, op) THEN d
  ELSE IF op.type = "insert" THEN ApplyInsert(d, op) ELSE ApplyDelete(d, op)
=============================================================================
