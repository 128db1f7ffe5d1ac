----------------------------- MODULE MCPartition -----------------------------
(* The instances of Partition that TLC checks.                              *)
EXTENDS Partition
=============================================================================
