----------------------------- MODULE MCJobQueue -----------------------------
(* Small instances of JobQueue for TLC. *)
EXTENDS JobQueue

(* Jobs and callers are interchangeable; sound without liveness.             *)
Symmetry == Permutations(Jobs) \cup Permutations(Callers)
=============================================================================
