-------------------------- MODULE MCMutexHolder ----------------------------
(* Instances of MutexHolder for TLC. *)
EXTENDS MutexHolder, TLC

Symmetry == Permutations(Calls \ Onces) \cup Permutations(Onces)
=============================================================================
