--------------------------- MODULE MCMemtableSwitch ---------------------------
(* MemtableSwitch with small constants.                                      *)
EXTENDS MemtableSwitch, TLC

CONSTANTS w1, w2, w3

(* The writers are interchangeable: they are called in this order.           *)
CalledInOrder ==
  /\ pc'[w2] # "idle" => pc[w1] # "idle"
  /\ pc'[w3] # "idle" => pc[w2] # "idle"
=============================================================================
