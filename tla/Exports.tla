------------------------------- MODULE Exports -------------------------------
(***************************************************************************)
(* Export jobs, the files they produce, the downloads and the clean-up.    *)
(*                                                                         *)
(* A processing run reads the identifiers of the oldest queued jobs        *)
(* without a lock; each is then locked, its facts are written to a         *)
(* temporary file, the file is stored, and the row is saved and committed. *)
(* The store takes part in no transaction: what was stored or deleted      *)
(* stays so when the transaction is lost.                                  *)
(*                                                                         *)
(* There are two tables of jobs, for usage and for audit facts.  Each has  *)
(* processing runs of its own, on the same workers; the clean-up is one    *)
(* command that takes the usage jobs first.                                *)
(*                                                                         *)
(* Jobs are numbered in the order they are created, which is also the      *)
(* order in which they expire.  The facts a job selects are append-only:   *)
(* a file is described by how many of them it holds.  One counter stands   *)
(* for the facts of both tables: no two files are ever compared.           *)
(***************************************************************************)
EXTENDS Integers, Sequences, FiniteSets

CONSTANTS
    Worker,      \* processes that run the export tasks
    Client,      \* downloads
    MaxJob,      \* bound: jobs
    MaxFacts,    \* bound: facts
    MaxRows,     \* facts a file may hold; EXPORT_MAX_ROWS
    Batch,       \* jobs of one processing run; 10 in the code
    Limit,       \* jobs of a table in one clean-up; --limit
    MaxCrash,    \* bound: runs that are lost
    Heavy,       \* jobs whose query the database always gives up
    Unsafe       \* jobs whose file is never deleted without an error

Job == 1..MaxJob
Content == 0..MaxFacts
None == -1
Table == {"usage", "audit"}
Row == [table : Table, status : {"queued", "ready", "failed", "expired"},
        rows : Content, over : BOOLEAN]
Stage == {"reading", "building", "built", "stored", "failing"}
Task == [stage : Stage, job : 0..MaxJob, content : Content]

ASSUME ExportsAssumption ==
    /\ MaxJob \in Nat
    /\ MaxFacts \in Nat
    /\ MaxRows \in Nat
    /\ Batch \in Nat \ {0}
    /\ Limit \in Nat \ {0}
    /\ MaxCrash \in Nat
    /\ Heavy \subseteq Job
    /\ Unsafe \subseteq Job

VARIABLES
    facts,      \* how many facts there are
    jobs,       \* the rows
    store,      \* store[j]: the file of job j, or None
    todo,       \* todo[w]: what is left of the batch of w
    task,       \* task[w]: the transaction w is in
    sweep,      \* the table the clean-up is at, or "none"
    purge,      \* what is left of it for the clean-up
    purging,    \* the job whose row the clean-up holds, or 0
    asked,      \* asked[c]: the job client c was found to be entitled to, or 0
    served,     \* files that were served: <<job, content>>
    crashes

run == <<todo, task>>
cleaner == <<sweep, purge, purging>>
clients == <<asked, served>>
vars == <<facts, jobs, store, run, cleaner, clients, crashes>>

Jobs == 1..Len(jobs)
NoTask == [stage |-> "reading", job |-> 0, content |-> 0]
First(j, S) == j \in S /\ \A i \in S : j <= i
\* (_Unlocked: as if the row were read without select_for_update.)
JobFree_Unlocked(j) == TRUE
JobFree(j) == purging # j /\ \A w \in Worker : task[w].job # j

Init ==
    /\ facts = 0
    /\ jobs = <<>>
    /\ store = [j \in Job |-> None]
    /\ todo = [w \in Worker |-> {}]
    /\ task = [w \in Worker |-> NoTask]
    /\ sweep = "none"
    /\ purge = {}
    /\ purging = 0
    /\ asked = [c \in Client |-> 0]
    /\ served = {}
    /\ crashes = 0

-----------------------------------------------------------------------------
(* Jobs, facts and time                                                    *)

RequestExport(t) ==
    /\ Len(jobs) < MaxJob
    /\ jobs' = Append(jobs, [table |-> t, status |-> "queued", rows |-> 0, over |-> FALSE])
    /\ UNCHANGED <<facts, store, run, cleaner, clients, crashes>>

RecordFact ==
    /\ facts < MaxFacts
    /\ facts' = facts + 1
    /\ UNCHANGED <<jobs, store, run, cleaner, clients, crashes>>

ExpireJob(j) ==
    /\ First(j, {i \in Jobs : ~jobs[i].over})
    /\ jobs' = [jobs EXCEPT ![j].over = TRUE]
    /\ UNCHANGED <<facts, store, run, cleaner, clients, crashes>>

-----------------------------------------------------------------------------
(* Processing                                                              *)

JobsOf(t) == {j \in Jobs : jobs[j].table = t}
Queued(j) == jobs[j].status = "queued" /\ ~jobs[j].over
\* (_Youngest: as if the order were that of the table, newest first.)
Oldest_Youngest(S, n) == {j \in S : Cardinality({i \in S : i > j}) < n}
Oldest(S, n) == {j \in S : Cardinality({i \in S : i < j}) < n}

\* process_usage_exports and process_audit_exports.
ReadBatch(w, t) ==
    /\ todo[w] = {}
    /\ task[w] = NoTask
    /\ todo' = [todo EXCEPT ![w] = Oldest({j \in JobsOf(t) : Queued(j)}, Batch)]
    /\ todo' # todo
    /\ UNCHANGED <<facts, jobs, store, task, cleaner, clients, crashes>>

\* process_export: lock the row and look at it again.
StillQueued(j) == Queued(j)

Claim(w, j) ==
    /\ task[w] = NoTask
    /\ First(j, todo[w])
    /\ JobFree(j)
    /\ todo' = [todo EXCEPT ![w] = @ \ {j}]
    /\ task' = IF StillQueued(j)
               THEN [task EXCEPT ![w] = [stage |-> "building", job |-> j, content |-> 0]]
               ELSE task
    /\ UNCHANGED <<facts, jobs, store, cleaner, clients, crashes>>

\* The facts that are committed when the query starts; too many fail the job.
Build(w) ==
    /\ task[w].stage = "building"
    /\ task[w].job \notin Heavy
    /\ task' = [task EXCEPT ![w].content = facts,
                            ![w].stage = IF facts > MaxRows THEN "failing" ELSE "built"]
    /\ UNCHANGED <<facts, jobs, store, todo, cleaner, clients, crashes>>

\* upload_export: os.replace, or an object that is put.
Store(w) ==
    /\ task[w].stage = "built"
    /\ store' = [store EXCEPT ![task[w].job] = task[w].content]
    /\ task' = [task EXCEPT ![w].stage = "stored"]
    /\ UNCHANGED <<facts, jobs, todo, cleaner, clients, crashes>>

\* An error of the store; the object may be there nevertheless.
StoreFails(w) ==
    /\ task[w].stage = "built"
    /\ \/ UNCHANGED store
       \/ store' = [store EXCEPT ![task[w].job] = task[w].content]
    /\ task' = [task EXCEPT ![w].stage = "failing"]
    /\ UNCHANGED <<facts, jobs, todo, cleaner, clients, crashes>>

\* (_Early: as if the row were saved as ready before the file is stored.)
Finished_Early == {"built", "stored"}
Finished == {"stored"}

Save(w) ==
    LET j == task[w].job
    IN  /\ task[w].stage \in Finished \cup {"failing"}
        /\ jobs' = IF task[w].stage \in Finished
                   THEN [jobs EXCEPT ![j].status = "ready", ![j].rows = task[w].content]
                   ELSE [jobs EXCEPT ![j].status = "failed"]
        /\ task' = [task EXCEPT ![w] = NoTask]
        /\ UNCHANGED <<facts, store, todo, cleaner, clients, crashes>>

\* The transaction is rolled back, and the rest of the batch is not taken.
Lose(w) ==
    /\ task' = [task EXCEPT ![w] = NoTask]
    /\ todo' = [todo EXCEPT ![w] = {}]
    /\ UNCHANGED <<facts, jobs, store, cleaner, clients>>

\* An error of the database is none of those process_export handles.
QueryFails(w) ==
    /\ task[w].stage = "building"
    /\ task[w].job \in Heavy
    /\ Lose(w)
    /\ UNCHANGED crashes

Crash(w) ==
    /\ task[w] # NoTask
    /\ crashes < MaxCrash
    /\ crashes' = crashes + 1
    /\ Lose(w)

-----------------------------------------------------------------------------
(* cleanup_exports --apply: for model in (UsageExport, AuditExport)        *)

Expired(j) == jobs[j].over /\ jobs[j].status # "expired"

\* The command comes to table t, and reads the rows it will take of it.
ReadExpired(t) ==
    /\ purge = {} /\ purging = 0
    /\ sweep = IF t = "usage" THEN "none" ELSE "usage"
    /\ sweep' = t
    /\ purge' = Oldest({j \in JobsOf(t) : Expired(j)}, Limit)
    /\ UNCHANGED <<facts, jobs, store, run, purging, clients, crashes>>

EndCleanUp ==
    /\ purge = {} /\ purging = 0
    /\ sweep = "audit"
    /\ sweep' = "none"
    /\ UNCHANGED <<facts, jobs, store, run, purge, purging, clients, crashes>>

\* The next row is locked and looked at again.
DeleteFile(j) ==
    /\ purging = 0
    /\ First(j, purge)
    /\ JobFree(j)
    /\ Expired(j) => j \notin Unsafe
    /\ purge' = purge \ {j}
    /\ IF Expired(j)
       THEN store' = [store EXCEPT ![j] = None] /\ purging' = j
       ELSE UNCHANGED <<store, purging>>
    /\ UNCHANGED <<facts, jobs, run, sweep, clients, crashes>>

\* The CommandError leaves both loops: neither the jobs after this one nor the
\* audit jobs after the usage jobs are reached.
DeletionFails(j) ==
    /\ purging = 0
    /\ First(j, purge)
    /\ JobFree(j)
    /\ Expired(j) /\ j \in Unsafe
    /\ sweep' = "none"
    /\ purge' = {}
    /\ UNCHANGED <<facts, jobs, store, run, purging, clients, crashes>>

\* (_Unsaved: as if the status were missing from update_fields.)
Purged_Unsaved == jobs
Purged == [jobs EXCEPT ![purging].status = "expired"]

SaveExpired ==
    /\ purging # 0
    /\ jobs' = Purged
    /\ purging' = 0
    /\ UNCHANGED <<facts, store, run, sweep, purge, clients, crashes>>

CrashCleaner ==
    /\ sweep # "none"
    /\ crashes < MaxCrash
    /\ crashes' = crashes + 1
    /\ sweep' = "none"
    /\ purge' = {}
    /\ purging' = 0
    /\ UNCHANGED <<facts, jobs, store, run, clients>>

-----------------------------------------------------------------------------
(* Downloads: the row is read without a lock, then the file is opened      *)

CheckDownload(c, j) ==
    /\ asked[c] = 0
    /\ jobs[j].status = "ready"
    /\ ~jobs[j].over
    /\ asked' = [asked EXCEPT ![c] = j]
    /\ UNCHANGED <<facts, jobs, store, run, cleaner, served, crashes>>

\* A file that was deleted in between is "unavailable".
Readable(j) == store[j] # None

OpenFile(c) ==
    /\ asked[c] # 0
    /\ served' = IF Readable(asked[c])
                 THEN served \cup {<<asked[c], store[asked[c]]>>} ELSE served
    /\ asked' = [asked EXCEPT ![c] = 0]
    /\ UNCHANGED <<facts, jobs, store, run, cleaner, crashes>>

-----------------------------------------------------------------------------
Proceed(w) ==
    \/ Build(w) \/ Store(w) \/ StoreFails(w) \/ Save(w) \/ QueryFails(w)
    \/ \E j \in Jobs : Claim(w, j)

CleanUp ==
    \/ \E t \in Table : ReadExpired(t)
    \/ EndCleanUp \/ SaveExpired
    \/ \E j \in Jobs : DeleteFile(j) \/ DeletionFails(j)

Next ==
    \/ RecordFact
    \/ \E t \in Table : RequestExport(t) \/ \E w \in Worker : ReadBatch(w, t)
    \/ \E j \in Jobs : ExpireJob(j)
    \/ \E w \in Worker : Proceed(w) \/ Crash(w)
    \/ CleanUp \/ CrashCleaner
    \/ \E c \in Client : OpenFile(c) \/ \E j \in Jobs : CheckDownload(c, j)

Spec == Init /\ [][Next]_vars

\* The beat queues a run of either table every 30 seconds.  The workers take
\* the runs in the order they were queued, so that a table has its turn although
\* the runs of the other may find every worker busy again; the operator runs the
\* clean-up again and again, and what runs goes on.
FairSpec ==
    /\ Spec
    /\ \A t \in Table : SF_vars(\E w \in Worker : ReadBatch(w, t))
    /\ \A w \in Worker : WF_vars(Proceed(w))
    /\ WF_vars(CleanUp)

-----------------------------------------------------------------------------
\* Every row, file and transaction has its type.
TypeOK ==
    /\ facts \in 0..MaxFacts
    /\ jobs \in Seq(Row)
    /\ Len(jobs) <= MaxJob
    /\ store \in [Job -> Content \cup {None}]
    /\ todo \in [Worker -> SUBSET Jobs]
    /\ task \in [Worker -> Task]
    /\ \A w \in Worker : task[w].job \in Jobs \cup {0}
    /\ sweep \in Table \cup {"none"}
    /\ purge \subseteq Jobs
    /\ purging \in Jobs \cup {0}
    /\ asked \in [Client -> Jobs \cup {0}]
    /\ served \subseteq (Jobs \X Content)
    /\ crashes \in 0..MaxCrash

\* A job that is ready and not over has its file, and the file holds as many
\* facts as the row says, although the store takes no part in the transaction
\* and several runs, crashes and repetitions may have written the file.
ReadyHasFile ==
    \A j \in Jobs :
        jobs[j].status = "ready" /\ ~jobs[j].over => store[j] = jobs[j].rows

\* What a download serves is the file its row describes, whole, even if the job
\* expires or is cleaned up between the check and the opening (ExportView.get).
ServedAsDescribed == \A s \in served : s[2] = jobs[s[1]].rows

\* Once a job counts as expired its file is gone and does not come back, not
\* even from a run that had the job in its batch before.
ExpiredHasNoFile == \A j \in Jobs : jobs[j].status = "expired" => store[j] = None

\* A job is decided once: ready and failed become nothing but expired, and the
\* row count is never rewritten.
DecisionsAreFinal ==
    [][\A j \in Jobs :
          jobs[j].status # "queued" =>
              /\ jobs'[j].status \in {jobs[j].status, "expired"}
              /\ jobs'[j].rows = jobs[j].rows]_vars

NotYounger(i, j) == jobs[i].table = jobs[j].table /\ i <= j

\* A queued job is decided or expires, unless a job of its table that is not
\* younger ends every run that reaches it (process_usage_exports gives up the
\* run with the exception); the jobs of the other table never stand in its way.
OnlyHeavyJobsBlock ==
    \A j \in Job :
        LET Waits(i) == i \in Jobs /\ Queued(i)
        IN  Waits(j) ~> (~Waits(j) \/ \E i \in Heavy : Waits(i) /\ NotYounger(i, j))

\* An expired job is cleaned up, unless one that the command reaches before it
\* cannot be: a job of its table that is not younger, or, for an audit job, any
\* usage job.  The command gives up at the first file it is refused, whatever
\* the table.
OnlyUnsafeFilesBlock ==
    \A j \in Job :
        LET Stays(i) == i \in Jobs /\ Expired(i)
            Precedes(i) == \/ NotYounger(i, j)
                           \/ jobs[i].table = "usage" /\ jobs[j].table = "audit"
        IN  Stays(j) ~> (~Stays(j) \/ \E i \in Unsafe : Stays(i) /\ Precedes(i))
=============================================================================
