---------------------------- MODULE MCAuthBundle ----------------------------
(* Small instances of the authenticated capability bundle. *)
EXTENDS AuthBundle, TLC

Symmetry == Permutations(Captures)
=============================================================================
