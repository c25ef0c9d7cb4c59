--------------------------- MODULE MCWatchPipeline ---------------------------
(* Instances of WatchPipeline for TLC: a passthrough watch, the watch of a  *)
(* single object, one of two namespaces of which the second is restricted   *)
(* to names, and one that has no partition.                                 *)
EXTENDS WatchPipeline

MCPartitions == {"pass", "object", "ns1", "ns2"}
MCKind == [p \in MCPartitions |->
              CASE p = "pass" -> "pass" [] p = "ns1" -> "all" [] OTHER -> "names"]
MCNS == [p \in MCPartitions |-> IF p = "pass" THEN "" ELSE p]
MCSubscriptions == {{"pass"}, {"object"}, {"ns1", "ns2"}, {}}
MCMaxEvents == [p \in MCPartitions |-> IF p \in {"pass", "object"} THEN 3 ELSE 1]
=============================================================================
