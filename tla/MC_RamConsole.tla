---------------------------- MODULE MC_RamConsole ----------------------------
(* Model-checking instance of RamConsole.                                  *)
EXTENDS RamConsole
====
