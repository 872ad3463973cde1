--------------------------------- MODULE MCReads ---------------------------------
(***************************************************************************)
(* Reads, for TLC, on a database that has two tables when it is opened:    *)
(* the older one has three keys, the younger one deletes the first and     *)
(* overwrites the last.                                                    *)
(***************************************************************************)
EXTENDS Reads, TLC

Put(k, n)    == [key |-> k, seq |-> n, del |-> FALSE]
Delete(k, n) == [key |-> k, seq |-> n, del |-> TRUE]

MCDisk == <<{Delete(1, 4), Put(3, 5)}, {Put(1, 1), Put(2, 2), Put(3, 3)}>>
MCUpdates == {<<2, TRUE>>, <<3, FALSE>>}
=============================================================================
