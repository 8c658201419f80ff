----------------------------- MODULE UsageData ------------------------------
(* Usage events, and the totals they are counted into. *)
EXTENDS Integers, FiniteSets

CONSTANTS
    Event,     \* usage events, by their place in the order of created_at
    Bucket,    \* service, hour, key, method and outcome
    BucketOf,  \* BucketOf[e]: where e is counted
    Units,     \* Units[e]: its units
    Latency    \* Latency[e]: its latency

Total == [requests : Nat, units : Nat, slowest : Nat]
Nothing == [requests |-> 0, units |-> 0, slowest |-> 0]

ASSUME UsageAssumption ==
    /\ Event \subseteq Nat
    /\ BucketOf \in [Event -> Bucket]
    /\ Units \in [Event -> Nat]
    /\ Latency \in [Event -> Nat]

Added(total, e) ==
    [requests |-> total.requests + 1,
     units |-> total.units + Units[e],
     slowest |-> IF Latency[e] > total.slowest THEN Latency[e] ELSE total.slowest]
=============================================================================
