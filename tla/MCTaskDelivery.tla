-------------------------- MODULE MCTaskDelivery ---------------------------
(***************************************************************************)
(* Instances of TaskDelivery for TLC.                                      *)
(***************************************************************************)
EXTENDS TaskDelivery, TLC

CONSTANTS t1, t2, w1, w2, m1, m2, m3

Symmetry == Permutations(Tasks) \cup Permutations(Workers) \cup Permutations(Messages)
=============================================================================
