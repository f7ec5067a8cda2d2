------------------------------ MODULE MC_NlTrace ------------------------------
(* Model-checking instance of NlTrace.                                     *)
EXTENDS NlTrace
====
