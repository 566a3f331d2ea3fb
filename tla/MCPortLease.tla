----------------------------- MODULE MCPortLease -----------------------------
(* Small instances of the proxy port leases. *)
EXTENDS PortLease, TLC

Symmetry == Permutations(Processes)
==============================================================================
