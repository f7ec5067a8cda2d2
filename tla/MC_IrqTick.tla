------------------------------ MODULE MC_IrqTick ------------------------------
(* Model-checking instance of IrqTick.                                     *)
EXTENDS IrqTick
====
