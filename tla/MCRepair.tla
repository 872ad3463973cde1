-------------------------------- MODULE MCRepair --------------------------------
(***************************************************************************)
(* Repair, for TLC: a directory with a table, a damaged table or an empty  *)
(* one, and logs that overwrite the table and each other, one of them      *)
(* empty, or with two versions of a key; and one of a database that has    *)
(* been compacted, so that the table with the higher number has the older  *)
(* values, with a log of other keys or of one of them.                     *)
(***************************************************************************)
EXTENDS Repair, TLC

E(k, n) == [key |-> k, seq |-> n]
Whole(recs) == [recs |-> recs, whole |-> TRUE]

Flushed ==
  { [logs   |-> (6 :> {E(1, 3)} @@ 7 :> log),
     tables |-> (4 :> Whole({E(1, 1), E(2, 2)}) @@ 5 :> [recs |-> {}, whole |-> damaged])] :
    log \in {{}, {E(1, 4), E(2, 5)}, {E(2, 4), E(2, 5)}}, damaged \in BOOLEAN }

Compacted ==
  { [logs   |-> (6 :> {E(k, 5)}),
     tables |-> (4 :> Whole({E(1, 3), E(2, 4)}) @@ 5 :> Whole({E(1, 1), E(3, 2)}))] :
    k \in {1, 4} }

MCDirectories == Flushed \cup Compacted
=============================================================================
