----------------------------- MODULE MCHistory ------------------------------
(* A reader of the history of one document while it is edited. *)
EXTENDS History

CONSTANTS d1, q1
=============================================================================
