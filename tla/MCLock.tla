--------------------------------- MODULE MCLock ---------------------------------
(* Lock, for TLC: the constants are in the configuration.                   *)
EXTENDS Lock, TLC
=============================================================================
