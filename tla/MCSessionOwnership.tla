------------------------- MODULE MCSessionOwnership -------------------------
(* Instances of SessionOwnership for TLC. *)
EXTENDS SessionOwnership, TLC

Symmetry == Permutations(Procs) \cup Permutations(Tasks)
=============================================================================
