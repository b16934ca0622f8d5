--------------------------- MODULE MCStellarBench ---------------------------
(***************************************************************************)
(* StellarBench for TLC: workers are model values, links are theirs.       *)
(***************************************************************************)
EXTENDS StellarBench, TLC

MCLink == {"down", "up"} \X Worker

\* Workers are interchangeable: only safety runs use it.
Symmetry == Permutations(Worker)
=============================================================================
