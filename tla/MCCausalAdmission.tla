-------------------------- MODULE MCCausalAdmission --------------------------
(* Small instances of causal admission: a proven read, whose pattern matches *)
(* the path of an exempted URL as well.                                       *)
EXTENDS CausalAdmission
CONSTANTS read, boot
MCProven == {read}
MCExempt == {boot}
MCCovers == {<<read, read>>, <<read, boot>>}
==============================================================================
