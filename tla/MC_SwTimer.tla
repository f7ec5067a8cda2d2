----------------------------- MODULE MC_SwTimer -----------------------------
(* Model-checking instance of SwTimer: three timers, a 3-bit tick counter *)
(* so that wraps happen within a few ticks, one tick per millisecond.     *)
EXTENDS SwTimer, TLC

CONSTANTS t1, t2, t3

MC_Timers == {t1, t2, t3}

(* Timers are interchangeable: every property treats them alike.          *)
MC_Symmetry == Permutations(MC_Timers)

=============================================================================
