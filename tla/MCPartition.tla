---------------------------- MODULE MCPartition -----------------------------
(***************************************************************************)
(* Partition for TLC: small matrices whose sizes lie on both sides of the  *)
(* multiples and squares of the numbers of workers, and the shipped ones.  *)
(***************************************************************************)
EXTENDS Partition

SmallRows == {1, 4, 6, 10, 26, 37}

MCRowCounts == [Matrix -> SmallRows] \cup {Shipped}
MCWorkerNums == 1 .. 7
MCBufferSize == 500 * 1024 * 1024
=============================================================================
