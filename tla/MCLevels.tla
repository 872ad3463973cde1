------------------------------- MODULE MCLevels -------------------------------
(* Levels, for TLC: the constants are in the configurations.               *)
EXTENDS Levels, TLC
=============================================================================
