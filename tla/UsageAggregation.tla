-------------------------- MODULE UsageAggregation --------------------------
(***************************************************************************)
(* Counting the usage events into hourly aggregates, and the read-only     *)
(* command that checks the sums.                                           *)
(*                                                                         *)
(* A run reads a batch of events that have no receipt, without a lock, and *)
(* takes them one by one: it locks the event and looks for its receipt,    *)
(* locks the aggregate (which it may have to create), and commits the new  *)
(* sums together with the receipt.  Runs overlap: the beat starts one      *)
(* every ten seconds, and the management command is another.               *)
(***************************************************************************)
EXTENDS UsageData, Functions

CONSTANTS
    Worker,
    Limit,       \* events of one run; 500 in the code
    MaxCrash,    \* bound: runs that are lost
    NoRow

ASSUME AggregationAssumption ==
    /\ Limit \in Nat \ {0}
    /\ MaxCrash \in Nat
    /\ NoRow \notin Total

\* claimed: the event is locked.  adding: its aggregate is locked too, and read.
Job == [stage : {"reading", "claimed", "adding"}, event : Event \cup {0}, read : Total]

VARIABLES
    events,      \* the events that are committed
    receipts,    \* the events that have an AggregationReceipt
    aggregate,   \* aggregate[b]: the row of bucket b, or NoRow
    todo,        \* todo[w]: what is left of the batch of w
    job,         \* job[w]: the transaction w is in
    crashes,
    \* the consistency check: the snapshot it reads, the sum it has formed
    snapshot,
    summed,
    report       \* what the last check said

work == <<todo, job, crashes>>
check == <<snapshot, summed, report>>
usageVars == <<events, receipts, aggregate, work, check>>

NoJob == [stage |-> "reading", event |-> 0, read |-> Nothing]
HoldsEvent(w, e) == job[w].stage # "reading" /\ job[w].event = e
HoldsAggregate(w, b) == job[w].stage = "adding" /\ BucketOf[job[w].event] = b

UsageInit ==
    /\ events = {}
    /\ receipts = {}
    /\ aggregate = [b \in Bucket |-> NoRow]
    /\ todo = [w \in Worker |-> {}]
    /\ job = [w \in Worker |-> NoJob]
    /\ crashes = 0
    /\ snapshot = [aggregate |-> aggregate, receipts |-> {}]
    /\ summed = NoRow
    /\ report = "none"

-----------------------------------------------------------------------------
(* Events and runs                                                         *)

\* verify_access commits the event it created; a later event may be committed
\* before it.
RecordEvent(e) ==
    /\ e \notin events
    /\ events' = events \cup {e}
    /\ UNCHANGED <<receipts, aggregate, work, check>>

\* aggregate_pending: the oldest events without a receipt.
Pending == events \ receipts
Oldest(S) == {e \in S : Cardinality({f \in S : f < e}) < Limit}

ReadBatch(w) ==
    /\ job[w] = NoJob
    /\ todo[w] = {}
    /\ todo' = [todo EXCEPT ![w] = Oldest(Pending)]
    /\ todo' # todo
    /\ UNCHANGED <<events, receipts, aggregate, job, crashes, check>>

\* aggregate_event: select_for_update on the event, then the receipt.
Unclaimed(e) == \A w \in Worker : ~HoldsEvent(w, e)

Claim(w, e) ==
    /\ job[w].stage = "reading"
    /\ e \in todo[w]
    /\ \A f \in todo[w] : e <= f
    /\ Unclaimed(e)
    /\ todo' = [todo EXCEPT ![w] = @ \ {e}]
    /\ job' = IF e \notin receipts
              THEN [job EXCEPT ![w] = [stage |-> "claimed", event |-> e, read |-> Nothing]]
              ELSE job
    /\ UNCHANGED <<events, receipts, aggregate, crashes, check>>

\* get_or_create, then select_for_update.  A row another run has inserted and
\* not committed makes both wait, as a locked one does.
\* (_Unlocked: as if the aggregate were read without its lock.)
AggregateFree_Unlocked(b) == TRUE
AggregateFree(b) == \A w \in Worker : ~HoldsAggregate(w, b)

\* A row that is created has the defaults of its columns.
GetOrCreate(b) == IF aggregate[b] = NoRow THEN Nothing ELSE aggregate[b]

LockAggregate(w) ==
    LET b == BucketOf[job[w].event]
    IN  /\ job[w].stage = "claimed"
        /\ AggregateFree(b)
        /\ job' = [job EXCEPT ![w].stage = "adding",
                              ![w].read = GetOrCreate(b)]
        /\ UNCHANGED <<events, receipts, aggregate, todo, crashes, check>>

\* The receipt is unique to its event.
CommitEvent(w) ==
    LET e == job[w].event
    IN  /\ job[w].stage = "adding"
        /\ e \notin receipts
        /\ aggregate' = [aggregate EXCEPT ![BucketOf[e]] = Added(job[w].read, e)]
        /\ receipts' = receipts \cup {e}
        /\ job' = [job EXCEPT ![w] = NoJob]
        /\ UNCHANGED <<events, todo, crashes, check>>

\* A lost worker, a lock timeout or any exception: the transaction is rolled
\* back, and the rest of the batch is not taken.
LoseRun(w) ==
    /\ job[w] # NoJob \/ todo[w] # {}
    /\ crashes < MaxCrash
    /\ crashes' = crashes + 1
    /\ job' = [job EXCEPT ![w] = NoJob]
    /\ todo' = [todo EXCEPT ![w] = {}]
    /\ UNCHANGED <<events, receipts, aggregate, check>>

-----------------------------------------------------------------------------
(* reconcile_usage                                                         *)

\* The sums over all rows of the table, and over the facts behind the receipts.
Rows(table) == {b \in Bucket : table[b] # NoRow}
SumOfRows(table) ==
    <<SumFunction([b \in Rows(table) |-> table[b].requests]),
      SumFunction([b \in Rows(table) |-> table[b].units])>>
SumOfFacts(S) == <<Cardinality(S), SumFunction([e \in S |-> Units[e]])>>

\* SET TRANSACTION ISOLATION LEVEL REPEATABLE READ: both queries see one moment.
StartCheck ==
    /\ summed = NoRow
    /\ snapshot' = [aggregate |-> aggregate, receipts |-> receipts]
    /\ summed' = SumOfRows(aggregate)
    /\ UNCHANGED <<events, receipts, aggregate, work, report>>

\* (_Latest: as if every query saw what is committed when it starts.)
FactsSeen_Latest == receipts
FactsSeen == snapshot.receipts

FinishCheck ==
    /\ summed # NoRow
    /\ report' = IF summed = SumOfFacts(FactsSeen) THEN "consistent" ELSE "mismatch"
    /\ summed' = NoRow
    /\ UNCHANGED <<events, receipts, aggregate, work, snapshot>>

-----------------------------------------------------------------------------
Step(w) ==
    \/ ReadBatch(w) \/ LockAggregate(w) \/ CommitEvent(w)
    \/ \E e \in Event : Claim(w, e)

UsageNext ==
    \/ \E e \in Event : RecordEvent(e)
    \/ \E w \in Worker : Step(w) \/ LoseRun(w)
    \/ StartCheck \/ FinishCheck

UsageSpec == UsageInit /\ [][UsageNext]_usageVars

\* The beat starts runs for ever, and a run goes on: lock waits end.
UsageFairSpec == UsageSpec /\ \A w \in Worker : WF_usageVars(Step(w))

-----------------------------------------------------------------------------
\* Every row, batch and transaction has its type.
UsageTypeOK ==
    /\ events \subseteq Event
    /\ receipts \subseteq events
    /\ aggregate \in [Bucket -> Total \cup {NoRow}]
    /\ todo \in [Worker -> SUBSET events]
    /\ job \in [Worker -> Job]
    /\ \A w \in Worker : job[w].stage # "reading" => job[w].event \in events
    /\ crashes \in 0..MaxCrash

TotalOf(b) == IF aggregate[b] = NoRow THEN Nothing ELSE aggregate[b]

Counter == INSTANCE UsageCounter WITH
             recorded <- events,
             counted <- receipts,
             totals <- [b \in Bucket |-> TotalOf(b)]

\* However runs overlap and die, each event is added to its bucket's total
\* exactly once and together with its receipt (aggregate_event), and in the end
\* every committed event is, however many are recorded before and after it.
CountsOnce == Counter!FairSpec

\* The consistency check never reports a mismatch while aggregation goes on
\* under it: it looks at one snapshot.
NoFalseAlarm == report # "mismatch"
=============================================================================
