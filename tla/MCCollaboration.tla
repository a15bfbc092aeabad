-------------------------- MODULE MCCollaboration --------------------------
(***************************************************************************)
(* Two tabs; the configurations choose how often they edit, reconnect and  *)
(* are snapshotted.                                                        *)
(***************************************************************************)
EXTENDS Collaboration, TLC

CONSTANTS t1, t2

MCTabs == {t1, t2}

(* Tabs are only told apart by what they do. *)
TabSymmetry == Permutations(MCTabs)

MCValues == 1..(MaxEdits * (MaxPaste + MaxEdits))
=============================================================================
