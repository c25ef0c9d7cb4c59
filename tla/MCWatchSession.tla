--------------------------- MODULE MCWatchSession ---------------------------
(* Instances of WatchSession for TLC.                                       *)
EXTENDS WatchSession
=============================================================================
