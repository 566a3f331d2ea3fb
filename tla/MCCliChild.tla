------------------------------ MODULE MCCliChild ------------------------------
(* One call of the CLI reasoner; the specification needs no bounds. *)
EXTENDS CliChild
===============================================================================
