----------------------------- MODULE MCGroupCommit -----------------------------
(* GroupCommit with four writes and one memtable flush.  The sizes let two  *)
(* groups of several batches form in one behaviour (pair and single, then   *)
(* big and late), keep big from joining a small leader, and let big, over   *)
(* SmallBatch, lead up to MaxGroup.                                         *)
EXTENDS GroupCommit, TLC

CONSTANTS pair, single, late, big, flush

MCCount == pair :> 2 @@ single :> 1 @@ late :> 1 @@ big :> 1 @@ flush :> 0
MCSize  == pair :> 1 @@ single :> 1 @@ late :> 1 @@ big :> 2 @@ flush :> 0
=============================================================================
