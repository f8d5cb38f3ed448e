---------------------------- MODULE MCPromptLab ----------------------------
(***************************************************************************)
(* Instances of PromptLab for TLC.                                         *)
(***************************************************************************)
EXTENDS PromptLab, TLC

Symmetry == Permutations(Jobs)
=============================================================================
