------------------------------ MODULE RgaOrder ------------------------------
(***************************************************************************)
(* The order in which a document is read: Snapshot and Text of             *)
(* internal/crdt/document.go and snapshot() of web/assets/crdt.js, which   *)
(* are the same algorithm.                                                 *)
(*                                                                         *)
(* The characters form a forest by their left anchors.  Base lists it      *)
(* depth first from the root, siblings by ID.  Snapshot then sorts that    *)
(* list topologically so that a character stands after its left and before *)
(* its right anchor, taking the first of Base whenever there is a choice,  *)
(* and appends in base order what a cycle kept from being listed.          *)
(***************************************************************************)
EXTENDS RgaDocument, Sequences, FiniteSets, Functions

LessCharID(left, right) ==
  \/ left.counter < right.counter
  \/ left.counter = right.counter /\ left.siteID < right.siteID

(* sort.Slice: a finite set of characters, the least ID first. *)
ByID(ids) ==
  [i \in 1..Cardinality(ids) |->
     CHOOSE k \in ids : Cardinality({j \in ids : LessCharID(j, k)}) = i - 1]

(* The children of a parent (NoID for the root), and their list. *)
Kids(d, parent) == {id \in DOMAIN d : d[id].leftID = parent}

Children(d, parent) == ByID(Kids(d, parent))

(* The recursive closure visit of Snapshot, with its call stack: the       *)
(* characters listed so far and those that the calls under way have yet to *)
(* list.  It lists no more characters than there are.                      *)
Base(d) ==
  LET size == Cardinality(DOMAIN d)
      visit[n \in 0..size] ==
        IF n = 0 THEN [listed |-> <<>>, stack |-> Children(d, NoID)]
        ELSE LET w == visit[n - 1]
             IN  IF w.stack = <<>> THEN w
                 ELSE [listed |-> Append(w.listed, Head(w.stack)),
                       stack |-> Children(d, Head(w.stack)) \o Tail(w.stack)]
  IN  visit[size].listed

(* Mutant: only the right anchors make edges. *)
Edges_RightOnly(d, base) ==
  LET listed == Range(base)
  IN  {<<id, d[id].rightID>> : id \in {i \in listed : d[i].rightID \in listed}}

(* addEdge drops an edge with an end that is not listed in base. *)
Edges(d, base) ==
  LET listed == Range(base)
  IN  {<<d[id].leftID, id>> : id \in {i \in listed : d[i].leftID \in listed}}
      \cup
      {<<id, d[id].rightID>> : id \in {i \in listed : d[i].rightID \in listed}}

(* The loop over the heap of characters whose predecessors are all out. *)
Sorted(d, base) ==
  LET edges == Edges(d, base)
      ready(out) == {i \in 1..Len(base) :
                       /\ base[i] \notin out
                       /\ \A e \in edges : e[2] = base[i] => e[1] \in out}
      step[n \in 0..Len(base)] ==
        IF n = 0 THEN <<>>
        ELSE LET out == step[n - 1]
                 next == ready(Range(out))
             IN  IF next = {} THEN out
                 ELSE Append(out, base[CHOOSE i \in next :
                                         \A j \in next : i <= j])
  IN  step[Len(base)]

(* A loop that copies the members of S. *)
Filter(seq, S) ==
  LET kept[n \in 0..Len(seq)] ==
        IF n = 0 THEN <<>>
        ELSE IF seq[n] \in S THEN Append(kept[n - 1], seq[n]) ELSE kept[n - 1]
  IN  kept[Len(seq)]

(* The members of the cycles, in base order. *)
Unsorted(base, sorted) == Filter(base, Range(base) \ Range(sorted))

Snapshot(d) ==
  LET base == Base(d)
      sorted == Sorted(d, base)
  IN  sorted \o Unsorted(base, sorted)

(* The identities of the visible characters in reading order. *)
Text(d) == Filter(Snapshot(d), DOMAIN d \ Tombstones(d))
-----------------------------------------------------------------------------
(***************************************************************************)
(* The characters reached from the root, as the least set that contains    *)
(* the children of the root and of its members.                            *)
(***************************************************************************)
ClosedUnderChildren(d, S) ==
  \A id \in DOMAIN d : d[id].leftID \in S \cup {NoID} => id \in S

Reachable(d) ==
  {id \in DOMAIN d :
     \A S \in SUBSET DOMAIN d : ClosedUnderChildren(d, S) => id \in S}

(* What a snapshot carries, as a map again. *)
SnapshotChars(d) == [id \in Reachable(d) |-> d[id]]

(***************************************************************************)
(* BuildAt of internal/history/replay.go on a snapshot alone, and          *)
(* replaceSnapshot of web/assets/crdt.js: the listed characters are        *)
(* inserted one by one, each deleted again if it is a tombstone.  Replay   *)
(* has the resulting document, or none if Apply refused a character.       *)
(***************************************************************************)
InsertOf(d, id) == [type |-> "insert", id |-> id, value |-> d[id].value,
                    leftID |-> d[id].leftID, rightID |-> d[id].rightID]

DeleteOf(id) == [type |-> "delete", id |-> id]

Restored(b, d, id) ==
  LET e == Apply(b, InsertOf(d, id))
  IN  IF d[id].deleted THEN Apply(e, DeleteOf(id)) ELSE e

Restore(built, d, id) ==
  {Restored(b, d, id) : b \in {e \in built : Accepts(e, InsertOf(d, id))}}

ReplaySnapshot(d, listed) ==
  LET build[n \in 0..Len(listed)] ==
        IF n = 0 THEN {New} ELSE Restore(build[n - 1], d, listed[n])
  IN  build[Len(listed)]
=============================================================================
