------------------------------ MODULE MCLogFormat ------------------------------
(* LogFormat, for TLC: the constants are in the configuration.             *)
EXTENDS LogFormat, TLC
=============================================================================
