------------------------------ MODULE MCRecovery ------------------------------
(* Recovery, for TLC: the constants are in the configurations.             *)
EXTENDS Recovery, TLC
=============================================================================
