----------------------------- MODULE MCPromotion -----------------------------
(* Small instances of the promotion of cases: two candidates bring the one   *)
(* case, a third brings the other.                                           *)
EXTENDS Promotion, TLC
CONSTANTS c1, c2, k1, k2, k3

MCCaseOf == (k1 :> c1) @@ (k2 :> c1) @@ (k3 :> c2)
Symmetry == Permutations(Appliers) \cup Permutations(Roots) \cup Permutations({k1, k2})
==============================================================================
