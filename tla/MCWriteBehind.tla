--------------------------- MODULE MCWriteBehind ---------------------------
(***************************************************************************)
(* One or two documents; the configurations choose the size of the queue   *)
(* and which of failures, crashes and full queues can happen.              *)
(***************************************************************************)
EXTENDS WriteBehind, TLC

CONSTANTS d1, d2

TwoDocuments == {d1, d2}

(* Documents are only told apart by their state. *)
DocumentSymmetry == Permutations(TwoDocuments)
=============================================================================
