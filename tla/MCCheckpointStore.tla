-------------------------- MODULE MCCheckpointStore --------------------------
(* Two processes with the same campaign id, small numbers of documents. *)
EXTENDS CheckpointStore, TLC

Symmetry == Permutations(Procs)
==============================================================================
