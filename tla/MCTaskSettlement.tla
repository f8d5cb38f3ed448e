------------------------- MODULE MCTaskSettlement --------------------------
(***************************************************************************)
(* Instances of TaskSettlement for TLC.                                    *)
(***************************************************************************)
EXTENDS TaskSettlement, TLC

CONSTANTS t1, t2, a1, a2, a3, r1, r2, r3

\* Every attempt is the delivery of a message of its own.
OwnRequests == [a \in Attempts |-> IF a = a1 THEN r1 ELSE IF a = a2 THEN r2 ELSE r3]

Symmetry == Permutations(Tasks)
=============================================================================
