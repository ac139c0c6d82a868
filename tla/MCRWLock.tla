----------------------------- MODULE MCRWLock ------------------------------
(* Instances of RWLock for TLC. *)
EXTENDS RWLock, TLC

\* Writers, and readers, differ in nothing but their names.
Symmetry == Permutations(Writers) \cup Permutations(Readers)
============================================================================
