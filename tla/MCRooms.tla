------------------------------ MODULE MCRooms -------------------------------
(* The connections of two tabs; each can make a room. *)
EXTENDS Rooms

CONSTANTS q1, q2
=============================================================================
