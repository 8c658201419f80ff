---------------------------- MODULE UsageCounter ----------------------------
(***************************************************************************)
(* What aggregation promises: every usage event is counted into its bucket *)
(* in one step, and in one only.                                           *)
(***************************************************************************)
EXTENDS UsageData

VARIABLES
    recorded,  \* the events that are committed
    counted,   \* those that were counted
    totals     \* totals[b]: the total of bucket b

vars == <<recorded, counted, totals>>

Init ==
    /\ recorded = {}
    /\ counted = {}
    /\ totals = [b \in Bucket |-> Nothing]

Record(e) ==
    /\ e \notin recorded
    /\ recorded' = recorded \cup {e}
    /\ UNCHANGED <<counted, totals>>

Count(e) ==
    /\ e \in recorded \ counted
    /\ counted' = counted \cup {e}
    /\ totals' = [totals EXCEPT ![BucketOf[e]] = Added(@, e)]
    /\ UNCHANGED recorded

Next == \E e \in Event : Record(e) \/ Count(e)

Spec == Init /\ [][Next]_vars

\* Every event that is committed is counted.
FairSpec == Spec /\ \A e \in Event : WF_vars(Count(e))
=============================================================================
