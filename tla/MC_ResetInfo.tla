---------------------------- MODULE MC_ResetInfo ----------------------------
(* Both builds are checked in one run: the build is chosen in Init.       *)
EXTENDS ResetInfo
=============================================================================
