------------------------- MODULE MCLeaderElection --------------------------
(* Instances of LeaderElection for TLC. *)
EXTENDS LeaderElection, TLC

CONSTANTS r1, r2, r3, here, there

\* Two calls share a Leader value; the third has one of its own.
MCHandleOf == r1 :> here @@ r2 :> here @@ r3 :> there
=============================================================================
