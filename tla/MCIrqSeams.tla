----------------------------- MODULE MCIrqSeams -----------------------------
(* Instances of IrqSeams for TLC: the constants are given by the .cfg files. *)
EXTENDS IrqSeams
=============================================================================
