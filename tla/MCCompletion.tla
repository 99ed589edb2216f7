---------------------------- MODULE MCCompletion ----------------------------
(* Completion on small instances.                                          *)
EXTENDS Completion, TLC

Symmetry == Permutations(Name) \cup Permutations(Arm)
=============================================================================
