-------------------------- MODULE MCParallelLister --------------------------
(* Instances of ParallelLister for TLC.  The partition sizes are chosen in  *)
(* Init, so one run covers every distribution of objects over partitions.   *)
EXTENDS ParallelLister
=============================================================================
