--------------------------- MODULE MC_GpioButton ---------------------------
(* Buttons and periodic timers of other components as model values.       *)
EXTENDS GpioButton, TLC

CONSTANTS b1, b2, o1

MC_Buttons == {b1, b2}
MC_OneButton == {b1}
MC_Others == {o1}
MC_NoOthers == {}

(* The buttons share one configuration, so they are interchangeable.     *)
MC_Symmetry == Permutations(MC_Buttons)
=============================================================================
