--------------------------- MODULE MCGuardHandle ---------------------------
(* The handle of a guard for TLC: its goroutines on a short lease.           *)
EXTENDS GuardHandle

\* The same steps, with nothing said about fairness.
SafetySpec == Init /\ [][Next]_vars
============================================================================
