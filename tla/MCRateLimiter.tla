--------------------------- MODULE MCRateLimiter ----------------------------
(* Instances of RateLimiter for TLC. *)
EXTENDS RateLimiter

\* Calls differ in nothing but their names.
Symmetry == Permutations(Clients)
=============================================================================
