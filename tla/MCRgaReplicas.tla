--------------------------- MODULE MCRgaReplicas ---------------------------
(***************************************************************************)
(* Two replicas and the operations that make deliveries differ: concurrent *)
(* siblings, a child, a conflicting reuse of an ID, deletes that race with *)
(* an insert, and operations Apply must refuse.                            *)
(***************************************************************************)
EXTENDS RgaReplicas

ID(s, c) == [siteID |-> s, counter |-> c]

Ins(id, v, left, right) ==
  [type |-> "insert", id |-> id, value |-> v, leftID |-> left, rightID |-> right]

Del(id) == [type |-> "delete", id |-> id]

MCReplicas == {"p", "q"}

MCOps ==
  { Ins(ID(1, 1), "x", NoID, NoID),           \* a character at the start
    Ins(ID(1, 1), "y", NoID, NoID),           \* its ID reused with other content
    Ins(ID(2, 1), "x", NoID, ID(1, 1)),       \* a concurrent one before it
    Ins(ID(2, 2), "x", ID(1, 1), ID(2, 1)),   \* a child with both anchors
    Ins(ID(2, 3), "x", ID(2, 3), NoID),       \* anchored to itself
    Ins(ID(2, 3), "x", ID(1, 1), ID(1, 1)),   \* both anchors the same
    Ins(ID(2, 3), "x", NoID, ID(1, 0)),       \* a right anchor that is no ID
    Ins(ID(0, 1), "x", NoID, NoID),           \* no site
    Del(ID(1, 1)), Del(ID(2, 2)), Del(ID(1, 0)) }
=============================================================================
