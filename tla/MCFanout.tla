------------------------------ MODULE MCFanout ------------------------------
(* Two connections, queues of two places and a fan-out queue of one. *)
EXTENDS Fanout

CONSTANTS c1, c2
=============================================================================
