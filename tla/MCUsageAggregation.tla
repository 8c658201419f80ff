------------------------ MODULE MCUsageAggregation -------------------------
(* A small instance of UsageAggregation for TLC. *)
EXTENDS UsageAggregation

CONSTANTS w1, w2, b1, b2

\* The first and the last event fall into the same hour.
MCBucketOf == [e \in Event |-> IF e = 2 THEN b2 ELSE b1]
MCUnits == [e \in Event |-> e]
MCLatency == [e \in Event |-> 5 - e]

=============================================================================
