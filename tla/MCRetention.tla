----------------------------- MODULE MCRetention -----------------------------
(* Small instances of evidence retention. *)
EXTENDS Retention, TLC

Symmetry == Permutations(Applies)
==============================================================================
