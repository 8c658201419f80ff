--------------------------- MODULE Exports_proofs ----------------------------
(***************************************************************************)
(* Proofs about Exports for every number of workers, jobs and facts: types *)
(* and what the row locks keep between the file store and the rows.  The   *)
(* second part is about RateLimiter, for every set of policies,            *)
(* configurations and keys, and for any time: what Redis stores under a    *)
(* key amounts to the calls it has let through.                            *)
(***************************************************************************)
EXTENDS Exports, RateLimiter, Recursion, SequenceTheorems, TLAPS

USE ExportsAssumption DEF Job

Busy(w) == task[w].stage # "reading"

\* The row a run holds is still queued, and a stored file is the one it built.
TaskHeld(w) ==
    IF Busy(w)
    THEN /\ task[w].job \in Jobs
         /\ jobs[task[w].job].status = "queued"
         /\ task[w].stage = "stored" => store[task[w].job] = task[w].content
    ELSE task[w].job = 0

\* Two transactions never hold one row.
Exclusive ==
    /\ \A v, w \in Worker : v # w /\ Busy(v) /\ Busy(w) => task[v].job # task[w].job
    /\ \A w \in Worker : Busy(w) => task[w].job # purging

\* A row whose file the clean-up has deleted is over, decided or not.
PurgeHeld == purging # 0 => store[purging] = None /\ jobs[purging].over

\* The file of a decided row is the one the row describes, or gone for good.
FileKept(j) ==
    /\ jobs[j].status = "ready" =>
         \/ store[j] = jobs[j].rows
         \/ store[j] = None /\ jobs[j].over
    /\ jobs[j].status = "expired" => store[j] = None

Settled(j) == jobs[j].status \in {"ready", "expired"}

DownloadsKept ==
    /\ \A c \in Client : asked[c] # 0 => Settled(asked[c])
    /\ \A s \in served : Settled(s[1]) /\ s[2] = jobs[s[1]].rows

IInv ==
    /\ TypeOK
    /\ \A w \in Worker : TaskHeld(w)
    /\ Exclusive
    /\ PurgeHeld
    /\ \A j \in Jobs : FileKept(j)
    /\ DownloadsKept
-----------------------------------------------------------------------------
(***************************************************************************)
(* Rows.                                                                   *)
(***************************************************************************)

LEMMA JobsTyped ==
  ASSUME TypeOK
  PROVE  /\ Len(jobs) \in Nat /\ DOMAIN jobs = Jobs /\ Jobs \subseteq Job
         /\ 0 \notin Jobs
         /\ \A j \in Jobs : jobs[j] \in Row
<1>1. jobs \in Seq(Row) /\ Len(jobs) <= MaxJob
  BY DEF TypeOK
<1>2. Len(jobs) \in Nat /\ DOMAIN jobs = 1..Len(jobs) /\ \A j \in 1..Len(jobs) : jobs[j] \in Row
  BY <1>1, LenProperties, ElementOfSeq
<1>3. QED
  BY <1>1, <1>2 DEF Jobs

LEMMA UpdateFacts ==
  ASSUME TypeOK, NEW j \in Jobs, NEW new \in Row
  PROVE  /\ [jobs EXCEPT ![j] = new] \in Seq(Row)
         /\ Len([jobs EXCEPT ![j] = new]) = Len(jobs)
         /\ [jobs EXCEPT ![j] = new][j] = new
         /\ \A i \in Jobs \ {j} : [jobs EXCEPT ![j] = new][i] = jobs[i]
<1>1. jobs \in Seq(Row)
  BY DEF TypeOK
<1>2. /\ [jobs EXCEPT ![j] = new] \in Seq(Row)
      /\ Len([jobs EXCEPT ![j] = new]) = Len(jobs)
      /\ \A i \in 1..Len(jobs) : [jobs EXCEPT ![j] = new][i] = IF i = j THEN new ELSE jobs[i]
  BY <1>1, ExceptSeq DEF Jobs
<1>3. QED
  BY <1>2 DEF Jobs

LEMMA InitIInv == Init => IInv
<1> SUFFICES ASSUME Init PROVE IInv
  OBVIOUS
<1>1. jobs \in Seq(Row) /\ Len(jobs) = 0 /\ Jobs = {}
  BY EmptySeq DEF Init, Jobs
<1>2. \A w \in Worker : task[w] = NoTask /\ NoTask.stage = "reading" /\ NoTask.job = 0
                        /\ NoTask \in Task
  BY DEF Init, NoTask, Task, Stage, Content
<1>3. TypeOK
  BY <1>1, <1>2 DEF Init, TypeOK
<1>4. QED
  BY <1>1, <1>2, <1>3 DEF Init, IInv, TaskHeld, Busy, Exclusive, PurgeHeld, DownloadsKept

-----------------------------------------------------------------------------
(***************************************************************************)
(* Steps that decide nothing.                                              *)
(***************************************************************************)

\* Rows are added, and expire; what was decided stays.
LEMMA RowsGrow ==
  ASSUME IInv, UNCHANGED <<facts, store, run, cleaner, clients, crashes>>,
         jobs' \in Seq(Row), Len(jobs) <= Len(jobs'), Len(jobs') <= MaxJob,
         \A j \in Jobs : /\ jobs'[j].status = jobs[j].status /\ jobs'[j].rows = jobs[j].rows
                         /\ jobs[j].over => jobs'[j].over,
         \A j \in 1..Len(jobs') : j \notin Jobs => jobs'[j].status = "queued"
  PROVE  IInv'
<1>1. Len(jobs') \in Nat /\ Jobs' = 1..Len(jobs') /\ Jobs \subseteq Jobs'
  BY LenProperties, JobsTyped DEF IInv, Jobs
<1>2. TypeOK'
  BY <1>1 DEF IInv, TypeOK, run, cleaner, clients
<1>3. ASSUME NEW w \in Worker PROVE TaskHeld(w)'
  BY <1>1 DEF IInv, TaskHeld, Busy, run
<1>4. Exclusive'
  BY DEF IInv, Exclusive, Busy, run, cleaner
<1>5. PurgeHeld'
  BY DEF IInv, TypeOK, PurgeHeld, cleaner
<1>6. ASSUME NEW j \in Jobs' PROVE FileKept(j)'
  BY <1>1, <1>6 DEF IInv, FileKept
<1>7. DownloadsKept'
  <2>1. \A c \in Client : asked[c] # 0 => asked[c] \in Jobs
    BY DEF IInv, TypeOK
  <2>2. \A s \in served : s[1] \in Jobs
    BY DEF IInv, TypeOK
  <2>3. QED
    BY <2>1, <2>2 DEF IInv, DownloadsKept, Settled, clients
<1>8. QED
  BY <1>2, <1>3, <1>4, <1>5, <1>6, <1>7 DEF IInv

LEMMA RequestExportStep ==
  ASSUME IInv, NEW t \in Table, RequestExport(t) PROVE IInv'
<1>0. 0 \in Content
  BY DEF Content
<1>1. PICK new \in Row : new = [table |-> t, status |-> "queued", rows |-> 0, over |-> FALSE]
  BY <1>0 DEF Row
<1>2. jobs \in Seq(Row) /\ Len(jobs) \in Nat /\ Jobs = 1..Len(jobs)
  BY JobsTyped DEF IInv, TypeOK, Jobs
<1>3. /\ Append(jobs, new) \in Seq(Row)
      /\ Len(Append(jobs, new)) = Len(jobs) + 1
      /\ \A j \in 1..Len(jobs) : Append(jobs, new)[j] = jobs[j]
      /\ Append(jobs, new)[Len(jobs) + 1] = new
  BY <1>2, AppendProperties
<1>4. jobs' = Append(jobs, new) /\ Len(jobs) < MaxJob /\ new.status = "queued"
      /\ UNCHANGED <<facts, store, run, cleaner, clients, crashes>>
  BY <1>1 DEF RequestExport
<1>5. \A j \in 1..Len(jobs') : j \notin Jobs => j = Len(jobs) + 1
  BY <1>2, <1>3, <1>4
<1>6. QED
  BY <1>2, <1>3, <1>4, <1>5, RowsGrow

LEMMA ExpireJobStep ==
  ASSUME IInv, NEW j \in Jobs, ExpireJob(j) PROVE IInv'
<1>1. jobs[j] \in Row /\ Len(jobs) \in Nat /\ Len(jobs) <= MaxJob
  BY JobsTyped DEF IInv, TypeOK
<1>2. PICK new \in Row : new = [jobs[j] EXCEPT !.over = TRUE]
  BY <1>1 DEF Row
<1>3. new.status = jobs[j].status /\ new.rows = jobs[j].rows /\ new.over
  BY <1>1, <1>2 DEF Row
<1>4. jobs' = [jobs EXCEPT ![j] = new]
  BY <1>2 DEF ExpireJob
<1>5. /\ jobs' \in Seq(Row) /\ Len(jobs') = Len(jobs) /\ jobs'[j] = new
      /\ \A i \in Jobs \ {j} : jobs'[i] = jobs[i]
  BY <1>4, UpdateFacts DEF IInv
<1>6. UNCHANGED <<facts, store, run, cleaner, clients, crashes>>
  BY DEF ExpireJob
<1>7. QED
  BY <1>1, <1>3, <1>5, <1>6, RowsGrow DEF Jobs

\* Rows, files and transactions stay as they are.
LEMMA QuietStep ==
  ASSUME IInv, UNCHANGED <<jobs, store, task, purging, served>>,
         facts' \in 0..MaxFacts, crashes' \in 0..MaxCrash,
         todo' \in [Worker -> SUBSET Jobs],
         sweep' \in Table \cup {"none"}, purge' \subseteq Jobs,
         asked' \in [Client -> Jobs \cup {0}],
         \A c \in Client : asked'[c] # 0 => Settled(asked'[c])
  PROVE  IInv'
<1>1. Jobs' = Jobs
  BY DEF Jobs
<1>2. TypeOK'
  BY <1>1 DEF IInv, TypeOK
<1>3. DownloadsKept'
  BY DEF IInv, DownloadsKept, Settled
<1>4. QED
  BY <1>1, <1>2, <1>3 DEF IInv, TaskHeld, Busy, Exclusive, PurgeHeld, FileKept

LEMMA QuietFacts ==
  ASSUME IInv
  PROVE  /\ facts \in 0..MaxFacts /\ crashes \in 0..MaxCrash
         /\ todo \in [Worker -> SUBSET Jobs]
         /\ sweep \in Table \cup {"none"} /\ purge \subseteq Jobs
         /\ asked \in [Client -> Jobs \cup {0}]
         /\ \A c \in Client : asked[c] # 0 => Settled(asked[c])
BY DEF IInv, TypeOK, DownloadsKept

LEMMA RecordFactStep ==
  ASSUME IInv, RecordFact PROVE IInv'
<1>1. facts' \in 0..MaxFacts
  BY QuietFacts DEF RecordFact
<1>2. QED
  BY <1>1, QuietFacts, QuietStep DEF RecordFact, run, cleaner, clients

LEMMA ReadBatchStep ==
  ASSUME IInv, NEW w \in Worker, NEW t \in Table, ReadBatch(w, t) PROVE IInv'
<1>1. Oldest({j \in JobsOf(t) : Queued(j)}, Batch) \subseteq Jobs
  BY DEF Oldest, JobsOf
<1>2. todo' \in [Worker -> SUBSET Jobs]
  BY <1>1, QuietFacts DEF ReadBatch
<1>3. QED
  BY <1>2, QuietFacts, QuietStep DEF ReadBatch, cleaner, clients

LEMMA CheckDownloadStep ==
  ASSUME IInv, NEW c \in Client, NEW j \in Jobs, CheckDownload(c, j) PROVE IInv'
<1>1. /\ asked' \in [Client -> Jobs \cup {0}]
      /\ \A d \in Client : asked'[d] # 0 => Settled(asked'[d])
  BY QuietFacts DEF CheckDownload, Settled
<1>2. QED
  BY <1>1, QuietFacts, QuietStep DEF CheckDownload, run, cleaner

\* A file that can be read is the one its row describes.
LEMMA OpenFileStep ==
  ASSUME IInv, NEW c \in Client, OpenFile(c) PROVE IInv'
<1>1. PICK j \in Jobs : j = asked[c]
  BY DEF IInv, TypeOK, OpenFile
<1>2. Settled(j) /\ FileKept(j) /\ j # 0
  BY <1>1 DEF IInv, DownloadsKept, OpenFile
<1>3. jobs[j].rows \in Content /\ j \in Job /\ None \notin Content
  BY JobsTyped DEF IInv, Row, Content, None
<1>4. store[j] # None => store[j] = jobs[j].rows
  BY <1>2 DEF FileKept, Settled
<1>5. served' = served \/ (store[j] = jobs[j].rows /\ served' = served \cup {<<j, store[j]>>})
  BY <1>1, <1>4 DEF OpenFile, Readable
<1>6. /\ asked' \in [Client -> Jobs \cup {0}]
      /\ \A d \in Client : asked'[d] # 0 => asked'[d] = asked[d]
  BY QuietFacts DEF OpenFile
<1>7. UNCHANGED <<facts, jobs, store, run, cleaner, crashes>> /\ Jobs' = Jobs
  BY DEF OpenFile, Jobs
<1>8. served' \subseteq (Jobs \X Content)
  BY <1>3, <1>5 DEF IInv, TypeOK
<1>9. TypeOK'
  BY <1>6, <1>7, <1>8 DEF IInv, TypeOK, run, cleaner
<1>10. \A s \in served' : Settled(s[1]) /\ s[2] = jobs[s[1]].rows
  BY <1>2, <1>5 DEF IInv, DownloadsKept
<1>11. DownloadsKept'
  BY <1>6, <1>7, <1>10 DEF IInv, DownloadsKept, Settled
<1>12. QED
  BY <1>7, <1>9, <1>11
     DEF IInv, TaskHeld, Busy, Exclusive, PurgeHeld, FileKept, run, cleaner
-----------------------------------------------------------------------------
(***************************************************************************)
(* Processing.                                                             *)
(***************************************************************************)

\* A run turns: of the files, only that of the row it holds may change, and
\* that row is queued.
LEMMA Turn ==
  ASSUME IInv, NEW w \in Worker,
         UNCHANGED <<facts, jobs, cleaner, clients>>, crashes' \in 0..MaxCrash,
         todo' \in [Worker -> SUBSET Jobs],
         task' \in [Worker -> Task], \A v \in Worker \ {w} : task'[v] = task[v],
         store' \in [Job -> Content \cup {None}],
         \A j \in Job : store'[j] = store[j] \/ (Busy(w) /\ j = task[w].job),
         TaskHeld(w)',
         Busy(w)' => /\ task'[w].job # purging
                     /\ \A v \in Worker \ {w} : Busy(v) => task[v].job # task'[w].job
  PROVE  IInv'
<1>1. Jobs' = Jobs /\ Jobs \subseteq Job
  BY JobsTyped DEF IInv, Jobs
<1>2. \A v \in Worker : task'[v].job \in Jobs \cup {0}
  BY <1>1 DEF IInv, TypeOK, TaskHeld
<1>3. TypeOK'
  BY <1>1, <1>2 DEF IInv, TypeOK, cleaner, clients
<1>4. ASSUME NEW v \in Worker \ {w} PROVE TaskHeld(v)'
  <2>1. TaskHeld(v) /\ (Busy(v)' <=> Busy(v)) /\ task'[v] = task[v]
    BY DEF IInv, Busy
  <2>2. Busy(v) => store'[task[v].job] = store[task[v].job]
    BY <1>1, <2>1 DEF IInv, TaskHeld, Exclusive
  <2>3. QED
    BY <1>1, <2>1, <2>2 DEF TaskHeld
<1>5. Exclusive'
  <2>1. \A v \in Worker \ {w} : Busy(v)' <=> Busy(v)
    BY DEF Busy
  <2>2. QED
    BY <2>1 DEF IInv, Exclusive, cleaner
<1>6. PurgeHeld'
  <2>1. purging # 0 => purging \in Job /\ store'[purging] = store[purging]
    BY <1>1 DEF IInv, TypeOK, Exclusive
  <2>2. QED
    BY <2>1 DEF IInv, PurgeHeld, cleaner
<1>7. ASSUME NEW j \in Jobs PROVE FileKept(j)'
  <2>1. FileKept(j) /\ j \in Job
    BY <1>1 DEF IInv
  <2>2. CASE store'[j] = store[j]
    BY <2>1, <2>2 DEF FileKept
  <2>3. CASE Busy(w) /\ j = task[w].job
    BY <2>3 DEF IInv, TaskHeld, FileKept
  <2>4. QED
    BY <2>1, <2>2, <2>3
<1>8. DownloadsKept'
  BY DEF IInv, DownloadsKept, Settled, clients
<1>9. QED
  BY <1>1, <1>3, <1>4, <1>5, <1>6, <1>7, <1>8 DEF IInv

LEMMA TaskTyped ==
  ASSUME IInv, NEW w \in Worker
  PROVE  /\ task[w] \in Task /\ TaskHeld(w) /\ NoTask \in Task
         /\ NoTask.stage = "reading" /\ NoTask.job = 0
         /\ Busy(w) => task[w].job \in Jobs /\ task[w].job \in Job
BY JobsTyped DEF IInv, TypeOK, TaskHeld, NoTask, Task, Stage, Content

LEMMA SameStore ==
  ASSUME IInv, store' = store
  PROVE  store' \in [Job -> Content \cup {None}] /\ \A j \in Job : store'[j] = store[j]
BY DEF IInv, TypeOK

LEMMA ClaimStep ==
  ASSUME IInv, NEW w \in Worker, NEW j \in Jobs, Claim(w, j) PROVE IInv'
<1>1. /\ todo' \in [Worker -> SUBSET Jobs]
      /\ UNCHANGED <<facts, jobs, store, cleaner, clients, crashes>>
  BY QuietFacts DEF Claim
<1>2. CASE ~StillQueued(j)
  BY <1>1, <1>2, QuietFacts, QuietStep DEF Claim, cleaner, clients
<1>3. CASE StillQueued(j)
  <2>1. j \in 0..MaxJob /\ 0 \in Content /\ j # 0
    BY JobsTyped DEF IInv, Content
  <2>2. PICK new \in Task : new = [stage |-> "building", job |-> j, content |-> 0]
    BY <2>1 DEF Task, Stage
  <2>3. task' = [task EXCEPT ![w] = new] /\ new.stage = "building" /\ new.job = j
    BY <1>3, <2>2 DEF Claim
  <2>4. /\ task' \in [Worker -> Task] /\ task'[w] = new
        /\ \A v \in Worker \ {w} : task'[v] = task[v]
    BY <2>3 DEF IInv, TypeOK
  <2>5. TaskHeld(w)'
    BY <1>1, <1>3, <2>3, <2>4 DEF TaskHeld, Busy, StillQueued, Queued, Jobs
  <2>6. j # purging /\ \A v \in Worker : task[v].job # j
    BY DEF Claim, JobFree
  <2>7. crashes' \in 0..MaxCrash
    BY <1>1, QuietFacts
  <2>8. QED
    BY <1>1, <2>3, <2>4, <2>5, <2>6, <2>7, SameStore, Turn
<1>4. QED
  BY <1>2, <1>3

\* The run holds the row it held, at another stage.
LEMMA StageStep ==
  ASSUME IInv, NEW w \in Worker, Busy(w), NEW new \in Task, task' = [task EXCEPT ![w] = new],
         new.stage # "reading", new.job = task[w].job,
         UNCHANGED <<facts, jobs, todo, cleaner, clients, crashes>>,
         store' \in [Job -> Content \cup {None}],
         \A j \in Job : store'[j] = store[j] \/ j = task[w].job,
         new.stage = "stored" => store'[new.job] = new.content
  PROVE  IInv'
<1>1. /\ task' \in [Worker -> Task] /\ task'[w] = new
      /\ \A v \in Worker \ {w} : task'[v] = task[v]
  BY DEF IInv, TypeOK
<1>2. TaskHeld(w)'
  BY <1>1 DEF IInv, TaskHeld, Busy, Jobs
<1>3. /\ task'[w].job # purging
      /\ \A v \in Worker \ {w} : Busy(v) => task[v].job # task'[w].job
  BY <1>1 DEF IInv, Exclusive
<1>4. QED
  BY <1>1, <1>2, <1>3, QuietFacts, Turn

LEMMA BuildStep ==
  ASSUME IInv, NEW w \in Worker, Build(w) PROVE IInv'
<1>1. Busy(w) /\ task[w] \in Task /\ facts \in Content
  BY TaskTyped, QuietFacts DEF Build, Busy, Content
<1>2. PICK s \in {"failing", "built"} : s = IF facts > MaxRows THEN "failing" ELSE "built"
  OBVIOUS
<1>3. PICK new \in Task : new = [task[w] EXCEPT !.content = facts, !.stage = s]
  BY <1>1 DEF Task, Stage
<1>4. new.stage = s /\ new.job = task[w].job
  BY <1>1, <1>3 DEF Task
<1>5. task' = [task EXCEPT ![w] = new]
  BY <1>2, <1>3 DEF Build
<1>6. UNCHANGED <<facts, jobs, store, todo, cleaner, clients, crashes>>
  BY DEF Build
<1>7. QED
  BY <1>1, <1>4, <1>5, <1>6, SameStore, StageStep

LEMMA StoreStep ==
  ASSUME IInv, NEW w \in Worker, Store(w) \/ StoreFails(w) PROVE IInv'
<1>1. /\ Busy(w) /\ task[w] \in Task /\ task[w].job \in Job
      /\ task[w].content \in Content
  BY TaskTyped DEF Store, StoreFails, Busy, Task
<1>2. PICK s \in {"stored", "failing"} :
        /\ task' = [task EXCEPT ![w].stage = s]
        /\ store' = [store EXCEPT ![task[w].job] = task[w].content] \/ store' = store
        /\ s = "stored" => store' = [store EXCEPT ![task[w].job] = task[w].content]
  BY DEF Store, StoreFails
<1>3. PICK new \in Task : new = [task[w] EXCEPT !.stage = s]
  BY <1>1 DEF Task, Stage
<1>4. new.stage = s /\ new.job = task[w].job /\ new.content = task[w].content
  BY <1>1, <1>3 DEF Task
<1>5. task' = [task EXCEPT ![w] = new]
  BY <1>2, <1>3
<1>6. store \in [Job -> Content \cup {None}]
  BY DEF IInv, TypeOK
<1>7. PICK j \in Job : j = task[w].job
  BY <1>1
<1>8. PICK x \in Content : x = task[w].content
  BY <1>1
<1>9. /\ store' = [store EXCEPT ![j] = x] \/ store' = store
      /\ s = "stored" => store' = [store EXCEPT ![j] = x]
  BY <1>2, <1>7, <1>8
<1>10. /\ store' \in [Job -> Content \cup {None}]
       /\ \A i \in Job : store'[i] = store[i] \/ i = j
       /\ s = "stored" => store'[j] = x
  BY <1>6, <1>9
<1>11. UNCHANGED <<facts, jobs, todo, cleaner, clients, crashes>>
  BY DEF Store, StoreFails
<1>12. QED
  BY <1>1, <1>4, <1>5, <1>7, <1>8, <1>10, <1>11, StageStep

LEMMA LoseStep ==
  ASSUME IInv, NEW w \in Worker, Lose(w), crashes' \in 0..MaxCrash PROVE IInv'
<1>1. /\ task' \in [Worker -> Task] /\ task'[w] = NoTask
      /\ \A v \in Worker \ {w} : task'[v] = task[v]
      /\ todo' \in [Worker -> SUBSET Jobs]
      /\ UNCHANGED <<facts, jobs, store, cleaner, clients>>
  BY TaskTyped, QuietFacts DEF IInv, TypeOK, Lose
<1>2. ~Busy(w)' /\ TaskHeld(w)'
  BY <1>1, TaskTyped DEF TaskHeld, Busy
<1>3. QED
  BY <1>1, <1>2, SameStore, Turn

\* What a Save writes, and to which row.
LEMMA SaveWrites ==
  ASSUME IInv, NEW w \in Worker, Save(w)
  PROVE  \E new \in Row :
           /\ task[w].job \in Jobs /\ Busy(w)
           /\ jobs[task[w].job].status = "queued"
           /\ jobs' = [jobs EXCEPT ![task[w].job] = new]
           /\ new.status \in {"ready", "failed"}
           /\ new.status = "ready" => store[task[w].job] = new.rows
<1>1. /\ Busy(w) /\ task[w].job \in Jobs /\ TaskHeld(w) /\ task[w].content \in Content
      /\ task[w].stage \in {"stored", "failing"}
  BY TaskTyped DEF Save, Finished, Busy, Task
<1>2. PICK j \in Jobs : j = task[w].job
  BY <1>1
<1>3. PICK x \in Content : x = task[w].content
  BY <1>1
<1>4. jobs[j] \in Row /\ jobs[j].status = "queued"
  BY <1>1, <1>2, JobsTyped DEF IInv, TaskHeld
<1>5. CASE task[w].stage = "stored"
  <2>1. PICK new \in Row : new = [jobs[j] EXCEPT !.status = "ready", !.rows = x]
    BY <1>4 DEF Row
  <2>2. new.status = "ready" /\ new.rows = x
    BY <1>4, <2>1 DEF Row
  <2>3. jobs' = [jobs EXCEPT ![j] = new]
    BY <1>2, <1>3, <1>5, <2>1 DEF Save, Finished
  <2>4. store[j] = x
    BY <1>1, <1>2, <1>3, <1>5 DEF TaskHeld
  <2>5. QED
    BY <1>1, <1>2, <1>4, <2>2, <2>3, <2>4
<1>6. CASE task[w].stage = "failing"
  <2>1. PICK new \in Row : new = [jobs[j] EXCEPT !.status = "failed"]
    BY <1>4 DEF Row
  <2>2. new.status = "failed"
    BY <1>4, <2>1 DEF Row
  <2>3. jobs' = [jobs EXCEPT ![j] = new]
    BY <1>2, <1>6, <2>1 DEF Save, Finished
  <2>4. QED
    BY <1>1, <1>2, <1>4, <2>2, <2>3
<1>7. QED
  BY <1>1, <1>5, <1>6

LEMMA SaveStep ==
  ASSUME IInv, NEW w \in Worker, Save(w) PROVE IInv'
<1>1. PICK j \in Jobs : j = task[w].job
  BY SaveWrites
<1>2. PICK new \in Row :
        /\ Busy(w) /\ jobs[j].status = "queued" /\ jobs' = [jobs EXCEPT ![j] = new]
        /\ new.status \in {"ready", "failed"}
        /\ new.status = "ready" => store[j] = new.rows
  BY <1>1, SaveWrites
<1>3. /\ jobs' \in Seq(Row) /\ Len(jobs') = Len(jobs) /\ jobs'[j] = new
      /\ \A i \in Jobs \ {j} : jobs'[i] = jobs[i]
      /\ Jobs' = Jobs
  BY <1>2, UpdateFacts DEF IInv, Jobs
<1>4. /\ task' = [task EXCEPT ![w] = NoTask]
      /\ UNCHANGED <<facts, store, todo, cleaner, clients, crashes>>
  BY DEF Save
<1>5. /\ task' \in [Worker -> Task] /\ task'[w].job = 0 /\ ~Busy(w)'
      /\ \A v \in Worker \ {w} : task'[v] = task[v] /\ (Busy(v)' <=> Busy(v))
  BY <1>4, TaskTyped DEF IInv, TypeOK, Busy
<1>6. TypeOK'
  <2>1. \A v \in Worker : task'[v].job \in Jobs' \cup {0}
    BY <1>3, <1>5 DEF IInv, TypeOK
  <2>2. QED
    BY <1>3, <1>4, <1>5, <2>1 DEF IInv, TypeOK, cleaner, clients
<1>7. ASSUME NEW v \in Worker PROVE TaskHeld(v)'
  <2>1. CASE v = w
    BY <1>5, <2>1 DEF TaskHeld
  <2>2. CASE v # w
    <3>1. TaskHeld(v) /\ (Busy(v) => task[v].job # j)
      BY <1>1, <1>2, <2>2 DEF IInv, Exclusive
    <3>2. QED
      BY <1>3, <1>4, <1>5, <2>2, <3>1 DEF TaskHeld
  <2>3. QED
    BY <2>1, <2>2
<1>8. Exclusive'
  BY <1>4, <1>5 DEF IInv, Exclusive, cleaner
<1>9. PurgeHeld'
  <2>1. purging # j /\ purging \in Jobs \cup {0}
    BY <1>1, <1>2 DEF IInv, Exclusive, TypeOK
  <2>2. QED
    BY <1>3, <1>4, <2>1 DEF IInv, PurgeHeld, cleaner
<1>10. ASSUME NEW i \in Jobs PROVE FileKept(i)'
  BY <1>2, <1>3, <1>4 DEF IInv, FileKept
<1>11. ASSUME NEW i \in Jobs, Settled(i) PROVE Settled(i)' /\ jobs'[i].rows = jobs[i].rows
  BY <1>2, <1>3, <1>11 DEF Settled
<1>12. DownloadsKept'
  <2>1. /\ \A c \in Client : asked[c] # 0 => asked[c] \in Jobs
        /\ \A s \in served : s[1] \in Jobs
    BY DEF IInv, TypeOK
  <2>2. QED
    BY <1>4, <1>11, <2>1 DEF IInv, DownloadsKept, clients
<1>13. QED
  BY <1>3, <1>6, <1>7, <1>8, <1>9, <1>10, <1>12 DEF IInv

-----------------------------------------------------------------------------
(***************************************************************************)
(* The clean-up.                                                           *)
(***************************************************************************)

LEMMA PurgeQuiet ==
  ASSUME IInv,
         \/ \E t \in Table : ReadExpired(t)
         \/ EndCleanUp
         \/ \E j \in Jobs : DeletionFails(j)
  PROVE  IInv'
<1>1. \A t : Oldest({j \in JobsOf(t) : Expired(j)}, Limit) \subseteq Jobs
  BY DEF Oldest, JobsOf
<1>2. /\ sweep' \in Table \cup {"none"} /\ purge' \subseteq Jobs
      /\ UNCHANGED <<facts, jobs, store, run, purging, clients, crashes>>
  BY <1>1, QuietFacts DEF ReadExpired, EndCleanUp, DeletionFails
<1>3. QED
  BY <1>2, QuietFacts, QuietStep DEF run, clients

\* The clean-up takes or gives back a row; the file of a row that is over, and
\* that no run holds, may go.
LEMMA PurgeTurn ==
  ASSUME IInv, UNCHANGED <<facts, jobs, run, clients>>, crashes' \in 0..MaxCrash,
         sweep' \in Table \cup {"none"}, purge' \subseteq Jobs, purging' \in Jobs \cup {0},
         store' \in [Job -> Content \cup {None}],
         \A i \in Job : store'[i] = store[i] \/ (i = purging' /\ store'[i] = None),
         purging' # 0 => /\ store'[purging'] = None /\ jobs[purging'].over
                         /\ \A w \in Worker : task[w].job # purging'
  PROVE  IInv'
<1>1. Jobs' = Jobs /\ Jobs \subseteq Job
  BY JobsTyped DEF IInv, Jobs
<1>2. TypeOK'
  BY <1>1 DEF IInv, TypeOK, run, clients
<1>3. ASSUME NEW w \in Worker PROVE TaskHeld(w)'
  <2>1. TaskHeld(w) /\ (Busy(w)' <=> Busy(w)) /\ task' = task
    BY DEF IInv, Busy, run
  <2>2. Busy(w) => task[w].job \in Job /\ task[w].job # 0
    BY <2>1, JobsTyped DEF IInv, TaskHeld
  <2>3. Busy(w) => store'[task[w].job] = store[task[w].job]
    BY <2>2
  <2>4. QED
    BY <1>1, <2>1, <2>3 DEF TaskHeld
<1>4. Exclusive'
  <2>1. task' = task /\ \A w \in Worker : (Busy(w)' <=> Busy(w)) /\ (Busy(w) => task[w].job # 0)
    BY JobsTyped DEF IInv, Busy, run, TaskHeld
  <2>2. QED
    BY <2>1 DEF IInv, Exclusive
<1>5. PurgeHeld'
  BY DEF PurgeHeld
<1>6. ASSUME NEW i \in Jobs PROVE FileKept(i)'
  <2>1. FileKept(i) /\ i \in Job /\ i # 0
    BY <1>1, JobsTyped DEF IInv
  <2>2. CASE store'[i] = store[i]
    BY <2>1, <2>2 DEF FileKept
  <2>3. CASE i = purging' /\ store'[i] = None
    BY <2>1, <2>3 DEF FileKept
  <2>4. QED
    BY <2>1, <2>2, <2>3
<1>7. DownloadsKept'
  BY DEF IInv, DownloadsKept, Settled, clients
<1>8. QED
  BY <1>1, <1>2, <1>3, <1>4, <1>5, <1>6, <1>7 DEF IInv

LEMMA DeleteFileStep ==
  ASSUME IInv, NEW j \in Jobs, DeleteFile(j) PROVE IInv'
<1>1. /\ sweep' \in Table \cup {"none"} /\ purge' \subseteq Jobs /\ purging = 0
      /\ UNCHANGED <<facts, jobs, run, clients, crashes>>
      /\ \A w \in Worker : task[w].job # j
  BY QuietFacts DEF DeleteFile, JobFree
<1>2. store \in [Job -> Content \cup {None}] /\ j \in Job
  BY JobsTyped DEF IInv, TypeOK
<1>3. CASE Expired(j)
  <2>1. store' = [store EXCEPT ![j] = None] /\ purging' = j
    BY <1>3 DEF DeleteFile
  <2>2. QED
    BY <1>1, <1>2, <1>3, <2>1, QuietFacts, PurgeTurn DEF Expired
<1>4. CASE ~Expired(j)
  <2>1. store' = store /\ purging' = purging
    BY <1>4 DEF DeleteFile
  <2>2. QED
    BY <1>1, <1>2, <2>1, QuietFacts, PurgeTurn
<1>5. QED
  BY <1>3, <1>4

LEMMA CrashCleanerStep ==
  ASSUME IInv, CrashCleaner PROVE IInv'
<1>1. /\ crashes' \in 0..MaxCrash /\ sweep' \in Table \cup {"none"}
      /\ purge' \subseteq Jobs /\ purging' = 0
      /\ UNCHANGED <<facts, jobs, store, run, clients>>
  BY QuietFacts DEF CrashCleaner
<1>2. QED
  BY <1>1, SameStore, PurgeTurn

LEMMA SaveExpiredStep ==
  ASSUME IInv, SaveExpired PROVE IInv'
<1>1. PICK j \in Jobs : j = purging
  BY DEF IInv, TypeOK, SaveExpired
<1>2. jobs[j] \in Row /\ j # 0
  BY JobsTyped DEF IInv
<1>3. PICK new \in Row : new = [jobs[j] EXCEPT !.status = "expired"]
  BY <1>2 DEF Row
<1>4. new.status = "expired" /\ new.rows = jobs[j].rows
  BY <1>2, <1>3 DEF Row
<1>5. /\ jobs' = [jobs EXCEPT ![j] = new] /\ purging' = 0
      /\ UNCHANGED <<facts, store, run, sweep, purge, clients, crashes>>
  BY <1>1, <1>3 DEF SaveExpired, Purged
<1>6. /\ jobs' \in Seq(Row) /\ Len(jobs') = Len(jobs) /\ jobs'[j] = new
      /\ \A i \in Jobs \ {j} : jobs'[i] = jobs[i]
      /\ Jobs' = Jobs
  BY <1>5, UpdateFacts DEF IInv, Jobs
<1>7. TypeOK'
  BY <1>5, <1>6 DEF IInv, TypeOK, run, clients
<1>8. ASSUME NEW w \in Worker PROVE TaskHeld(w)'
  <2>1. TaskHeld(w) /\ (Busy(w) => task[w].job # j) /\ task' = task
    BY <1>1, <1>5 DEF IInv, Exclusive, run
  <2>2. QED
    BY <1>5, <1>6, <2>1 DEF TaskHeld, Busy
<1>9. Exclusive'
  <2>1. task' = task /\ \A w \in Worker : Busy(w) => task[w].job # 0
    BY <1>5, JobsTyped DEF IInv, TaskHeld, run
  <2>2. QED
    BY <1>5, <2>1 DEF IInv, Exclusive, Busy
<1>10. PurgeHeld'
  BY <1>5 DEF PurgeHeld
<1>11. store[j] = None
  BY <1>1, <1>2 DEF IInv, PurgeHeld
<1>12. ASSUME NEW i \in Jobs PROVE FileKept(i)'
  BY <1>4, <1>5, <1>6, <1>11 DEF IInv, FileKept
<1>13. ASSUME NEW i \in Jobs, Settled(i) PROVE Settled(i)' /\ jobs'[i].rows = jobs[i].rows
  BY <1>4, <1>6, <1>13 DEF Settled
<1>14. DownloadsKept'
  <2>1. /\ \A c \in Client : asked[c] # 0 => asked[c] \in Jobs
        /\ \A s \in served : s[1] \in Jobs
    BY DEF IInv, TypeOK
  <2>2. QED
    BY <1>5, <1>13, <2>1 DEF IInv, DownloadsKept, clients
<1>15. QED
  BY <1>6, <1>7, <1>8, <1>9, <1>10, <1>12, <1>14 DEF IInv

-----------------------------------------------------------------------------

LEMMA StepIInv == IInv /\ [Next]_vars => IInv'
<1> SUFFICES ASSUME IInv, [Next]_vars PROVE IInv'
  OBVIOUS
<1>1. CASE RecordFact \/ \E t \in Table : RequestExport(t)
  BY <1>1, RequestExportStep, RecordFactStep
<1>2. ASSUME NEW j \in Jobs, ExpireJob(j) PROVE IInv'
  BY <1>2, ExpireJobStep
<1>3. ASSUME NEW w \in Worker, Proceed(w) \/ \E t \in Table : ReadBatch(w, t) PROVE IInv'
  <2>1. QueryFails(w) => IInv'
    BY LoseStep, QuietFacts DEF QueryFails
  <2>2. QED
    BY <1>3, <2>1, ReadBatchStep, ClaimStep, BuildStep, StoreStep, SaveStep DEF Proceed
<1>4. ASSUME NEW w \in Worker, Crash(w) PROVE IInv'
  <2>1. crashes' \in 0..MaxCrash
    BY <1>4, QuietFacts DEF Crash
  <2>2. QED
    BY <1>4, <2>1, LoseStep DEF Crash
<1>5. CASE CleanUp \/ CrashCleaner
  BY <1>5, PurgeQuiet, DeleteFileStep, SaveExpiredStep, CrashCleanerStep DEF CleanUp
<1>6. ASSUME NEW c \in Client, OpenFile(c) \/ \E j \in Jobs : CheckDownload(c, j)
      PROVE  IInv'
  BY <1>6, OpenFileStep, CheckDownloadStep
<1>7. CASE UNCHANGED vars
  BY <1>7, QuietFacts, QuietStep DEF vars, run, cleaner, clients
<1>8. QED
  BY <1>1, <1>2, <1>3, <1>4, <1>5, <1>6, <1>7 DEF Next

\* The row locks hold between the file store and the rows.
THEOREM RowLocksHold == Spec => []IInv
BY InitIInv, StepIInv, PTL DEF Spec

\* Types, for every number of workers, jobs and facts.
THEOREM TypeCorrect == Spec => []TypeOK
<1>1. IInv => TypeOK
  BY DEF IInv
<1>2. QED
  BY <1>1, RowLocksHold, PTL

\* process_export: a job that is ready has the file its row describes.
THEOREM ReadyFiles == Spec => []ReadyHasFile
<1>1. IInv => ReadyHasFile
  BY DEF IInv, FileKept, ReadyHasFile
<1>2. QED
  BY <1>1, RowLocksHold, PTL

\* cleanup_exports: a job that counts as expired has no file any more.
THEOREM ExpiredFiles == Spec => []ExpiredHasNoFile
<1>1. IInv => ExpiredHasNoFile
  BY DEF IInv, FileKept, ExpiredHasNoFile
<1>2. QED
  BY <1>1, RowLocksHold, PTL

\* ExportView.get serves the file the row describes, or none.
THEOREM ServedFiles == Spec => []ServedAsDescribed
<1>1. IInv => ServedAsDescribed
  BY DEF IInv, DownloadsKept, ServedAsDescribed
<1>2. QED
  BY <1>1, RowLocksHold, PTL
LEMMA DecisionKept ==
  ASSUME IInv, [Next]_vars, NEW j \in Jobs, jobs[j].status # "queued"
  PROVE  /\ jobs'[j].status \in {jobs[j].status, "expired"}
         /\ jobs'[j].rows = jobs[j].rows
<1>1. CASE jobs' = jobs
  BY <1>1
<1>2. jobs \in Seq(Row) /\ jobs[j] \in Row /\ j \in 1..Len(jobs)
  BY JobsTyped DEF IInv, TypeOK, Jobs
<1>3. ASSUME NEW t \in Table, RequestExport(t) PROVE jobs'[j] = jobs[j]
  <2>1. PICK new \in Row : new = [table |-> t, status |-> "queued", rows |-> 0, over |-> FALSE]
    <3>1. 0 \in Content
      BY DEF Content
    <3>2. QED
      BY <3>1 DEF Row
  <2>2. jobs' = Append(jobs, new)
    BY <1>3, <2>1 DEF RequestExport
  <2>3. jobs'[j] = jobs[j]
    BY <1>2, <2>2, AppendProperties
  <2>4. QED
    BY <2>3
<1>4. ASSUME NEW i \in Jobs, ExpireJob(i)
      PROVE  jobs'[j].status = jobs[j].status /\ jobs'[j].rows = jobs[j].rows
  <2>1. PICK new \in Row : new = [jobs[i] EXCEPT !.over = TRUE]
    BY JobsTyped DEF IInv, Row
  <2>2. new.status = jobs[i].status /\ new.rows = jobs[i].rows
    BY <2>1, JobsTyped DEF IInv, Row
  <2>3. jobs' = [jobs EXCEPT ![i] = new]
    BY <1>4, <2>1 DEF ExpireJob
  <2>4. jobs'[i] = new /\ (j # i => jobs'[j] = jobs[j])
    BY <2>3, UpdateFacts DEF IInv
  <2>5. QED
    BY <2>2, <2>4
<1>5. ASSUME NEW w \in Worker, Save(w) PROVE jobs'[j] = jobs[j]
  <2>1. PICK i \in Jobs : i = task[w].job
    BY <1>5, SaveWrites
  <2>2. PICK new \in Row : jobs[i].status = "queued" /\ jobs' = [jobs EXCEPT ![i] = new]
    BY <1>5, <2>1, SaveWrites
  <2>3. QED
    BY <2>2, UpdateFacts DEF IInv
<1>6. ASSUME SaveExpired
      PROVE  jobs'[j].status \in {jobs[j].status, "expired"} /\ jobs'[j].rows = jobs[j].rows
  <2>1. PICK i \in Jobs : i = purging
    BY <1>6 DEF IInv, TypeOK, SaveExpired
  <2>2. PICK new \in Row : new = [jobs[i] EXCEPT !.status = "expired"]
    BY JobsTyped DEF IInv, Row
  <2>3. new.status = "expired" /\ new.rows = jobs[i].rows
    BY <2>2, JobsTyped DEF IInv, Row
  <2>4. jobs' = [jobs EXCEPT ![i] = new]
    BY <1>6, <2>1, <2>2 DEF SaveExpired, Purged
  <2>5. jobs'[i] = new /\ (j # i => jobs'[j] = jobs[j])
    BY <2>4, UpdateFacts DEF IInv
  <2>6. QED
    BY <2>3, <2>5
<1>7. ASSUME NEW w \in Worker, ~Save(w),
             Proceed(w) \/ Crash(w) \/ \E t \in Table : ReadBatch(w, t)
      PROVE  jobs' = jobs
  BY <1>7 DEF ReadBatch, Proceed, Claim, Build, Store, StoreFails, QueryFails, Crash, Lose
<1>8. ASSUME CleanUp \/ CrashCleaner, ~SaveExpired PROVE jobs' = jobs
  BY <1>8 DEF CleanUp, ReadExpired, EndCleanUp, DeleteFile, DeletionFails, CrashCleaner
<1>9. CASE RecordFact \/ (\E c \in Client : OpenFile(c) \/ \E i \in Jobs : CheckDownload(c, i))
           \/ UNCHANGED vars
  BY <1>9, <1>1 DEF RecordFact, OpenFile, CheckDownload, vars
<1>10. QED
  BY <1>1, <1>3, <1>4, <1>5, <1>6, <1>7, <1>8, <1>9 DEF Next

\* A job is decided once, and only expires afterwards.
THEOREM DecidedOnce == Spec => DecisionsAreFinal
<1>1. IInv /\ [Next]_vars =>
        \A j \in Jobs :
          jobs[j].status # "queued" =>
              /\ jobs'[j].status \in {jobs[j].status, "expired"}
              /\ jobs'[j].rows = jobs[j].rows
  BY DecisionKept
<1>2. QED
  BY <1>1, RowLocksHold, PTL DEF Spec, DecisionsAreFinal

-----------------------------------------------------------------------------
HIDE ExportsAssumption DEF Job

(***************************************************************************)
(* RateLimiter: arithmetic of windows, refills and whole seconds.          *)
(***************************************************************************)

LEMMA DivBounds ==
  ASSUME NEW a \in Int, NEW b \in Nat, b > 0
  PROVE  /\ a \div b \in Int
         /\ (a \div b) * b <= a
         /\ a < ((a \div b) + 1) * b
OBVIOUS

LEMMA CeilingBounds ==
  ASSUME NEW a \in Int, NEW b \in Nat, b > 0
  PROVE  /\ Ceiling(a, b) \in Int
         /\ a <= Ceiling(a, b) * b
         /\ (Ceiling(a, b) - 1) * b < a
BY DivBounds DEF Ceiling

LEMMA TimesMonotonic ==
  ASSUME NEW a \in Int, NEW b \in Int, NEW w \in Nat
  PROVE  /\ a * w \in Int /\ b * w \in Int
         /\ a <= b => a * w <= b * w
         /\ a * w < b * w => a < b
OBVIOUS

LEMMA Distribute ==
  ASSUME NEW x \in Int, NEW y \in Int, NEW r \in Int
  PROVE  /\ x * r \in Int /\ y * r \in Int /\ (x + y) * r \in Int
         /\ (x + y) * r = x * r + y * r
OBVIOUS

LEMMA Associate ==
  ASSUME NEW x \in Int, NEW y \in Int, NEW z \in Int
  PROVE  /\ x * y \in Int /\ (x * y) * z \in Int /\ y * z \in Int
         /\ (x * y) * z = x * (y * z)
         /\ x * y = y * x
OBVIOUS

LEMMA ProductType ==
  ASSUME NEW a \in Int, NEW b \in Int
  PROVE  a * b \in Int
OBVIOUS

LEMMA DayType == Day \in Nat
BY DEF Day

\* What validate_policy_config guarantees of a configuration, as numbers.
LEMMA ConfigFacts ==
  ASSUME NEW c \in Config
  PROVE  /\ c \in FixedWindow => /\ c.limit \in Nat /\ c.limit > 0
                                 /\ c.window_seconds \in Nat /\ c.window_seconds > 0
                                 /\ c.window_seconds <= Day
         /\ c \notin FixedWindow => /\ c.capacity \in Nat /\ c.capacity > 0
                                    /\ c.refill_tokens \in Nat /\ c.refill_tokens > 0
                                    /\ c.refill_seconds \in Nat /\ c.refill_seconds > 0
                                    /\ c.refill_seconds <= Day
                                    /\ c \in TokenBucket
         /\ Second \in Nat /\ Second > 0
<1>1. Valid(c) /\ Second \in Nat /\ Second > 0
  BY RateAssumption
<1>2. Day \in Nat /\ Most \in Nat
  BY DEF Day, Most
<1>3. CASE c.algorithm = "fixed_window"
  BY <1>1, <1>2, <1>3 DEF Valid, FixedWindow
<1>4. CASE c.algorithm = "token_bucket"
  BY <1>1, <1>2, <1>4 DEF Valid, FixedWindow, TokenBucket
<1>5. QED
  BY <1>1, <1>3, <1>4 DEF Valid

\* A bucket holds one whole token at least.
LEMMA BucketFacts ==
  ASSUME NEW c \in Config, c \notin FixedWindow
  PROVE  /\ Part(c) \in Nat /\ Part(c) > 0 /\ Full(c) \in Nat /\ Part(c) <= Full(c)
         /\ c.refill_tokens \in Nat /\ c.refill_tokens > 0
<1>1. /\ c.capacity \in Nat /\ c.capacity > 0
      /\ c.refill_seconds \in Nat /\ c.refill_seconds > 0
      /\ Second \in Nat /\ Second > 0
      /\ c.refill_tokens \in Nat /\ c.refill_tokens > 0
  BY ConfigFacts
<1>2. PICK part \in Nat : part = c.refill_seconds * Second /\ part > 0
  BY <1>1
<1>3. c.capacity * part \in Nat /\ part <= c.capacity * part
  BY <1>1, <1>2
<1>4. QED
  BY <1>1, <1>2, <1>3 DEF Part, Full

\* The end of the window with number w.
End(c, w) == (w + 1) * c.window_seconds * Second

\* A time lies in its window, which ends at WindowEnd.
LEMMA WindowFacts ==
  ASSUME NEW c \in Config, c \in FixedWindow, NEW t \in Nat
  PROVE  /\ WindowOf(c, t) \in Nat /\ WindowOf(c, t) <= t
         /\ WindowEnd(c, t) = End(c, WindowOf(c, t))
         /\ WindowEnd(c, t) \in Nat /\ t < WindowEnd(c, t)
         /\ WindowEnd(c, t) - t <= c.window_seconds * Second
<1>1. PICK L \in Nat : L = c.window_seconds * Second /\ L > 0
  BY ConfigFacts
<1>2. PICK w \in Int : w = t \div L /\ w * L <= t /\ t < (w + 1) * L
  BY <1>1, DivBounds
<1>3. w >= 0 /\ w <= t
  BY <1>1, <1>2
<1>4. WindowOf(c, t) = w
  BY <1>1, <1>2 DEF WindowOf
<1>5. (w + 1) * c.window_seconds * Second = (w + 1) * L /\ (w + 1) * L = w * L + L
  BY <1>1, <1>2, ConfigFacts
<1>6. QED
  BY <1>1, <1>2, <1>3, <1>4, <1>5 DEF WindowEnd, End

\* Time and windows go forward together.
LEMMA WindowOrder ==
  ASSUME NEW c \in Config, c \in FixedWindow,
         NEW t \in Nat, NEW u \in Nat, t <= u
  PROVE  /\ WindowOf(c, t) <= WindowOf(c, u)
         /\ WindowOf(c, u) = WindowOf(c, t) <=> u < End(c, WindowOf(c, t))
<1>1. PICK L \in Nat : L = c.window_seconds * Second /\ L > 0
  BY ConfigFacts
<1>2. PICK w \in Int : w = t \div L /\ w * L <= t /\ t < (w + 1) * L
  BY <1>1, DivBounds
<1>3. PICK v \in Int : v = u \div L /\ v * L <= u /\ u < (v + 1) * L
  BY <1>1, DivBounds
<1>4. WindowOf(c, t) = w /\ WindowOf(c, u) = v
  BY <1>1, <1>2, <1>3 DEF WindowOf
<1>5. End(c, w) = (w + 1) * L
  BY <1>1, <1>2, ConfigFacts DEF End
<1>6. w <= v
  <2>1. w * L < (v + 1) * L
    BY <1>1, <1>2, <1>3
  <2>2. QED
    BY <1>1, <2>1, TimesMonotonic
<1>7. v = w <=> u < (w + 1) * L
  <2>1. v > w => (w + 1) * L <= v * L
    BY <1>1, TimesMonotonic
  <2>2. QED
    BY <1>1, <1>3, <1>6, <2>1
<1>8. QED
  BY <1>4, <1>5, <1>6, <1>7

-----------------------------------------------------------------------------
(***************************************************************************)
(* What is left in a bucket.                                               *)
(***************************************************************************)

\* The n-th grant, from x.
Spent(c, g, n, x) ==
    Smaller(Full(c), x + (g[n] - (IF n = 1 THEN 0 ELSE g[n - 1])) * c.refill_tokens) - Part(c)

LeftAfter(c, g, left) ==
    /\ left \in [0..Len(g) -> Int]
    /\ left[0] = Full(c)
    /\ \A n \in 1..Len(g) : left[n] = Spent(c, g, n, left[n - 1])

LEMMA SpentType ==
  ASSUME NEW c \in Config, c \notin FixedWindow, NEW g \in Seq(Nat), NEW n \in 1..Len(g),
         NEW x \in Int
  PROVE  Spent(c, g, n, x) \in Int
<1>1. /\ Full(c) \in Int /\ Part(c) \in Int /\ c.refill_tokens \in Int
  BY BucketFacts
<1>2. PICK d \in Int : d = g[n] - (IF n = 1 THEN 0 ELSE g[n - 1])
  OBVIOUS
<1>3. d * c.refill_tokens \in Int
  BY <1>1, <1>2
<1>4. QED
  BY <1>1, <1>2, <1>3 DEF Spent, Smaller

\* Left is what the last grant left, each from what the one before it left.
LEMMA LeftUnfolds ==
  ASSUME NEW c \in Config, c \notin FixedWindow, NEW g \in Seq(Nat)
  PROVE  \E left : LeftAfter(c, g, left) /\ Left(c, g) = left[Len(g)]
<1> DEFINE N == Len(g)
           Recursive(f) == f = [n \in 0..N |-> IF n = 0 THEN Full(c) ELSE Spent(c, g, n, f[n - 1])]
           h == CHOOSE f : Recursive(f)
<1>1. N \in Nat /\ Full(c) \in Int
  BY LenProperties, BucketFacts
<1>2. Left(c, g) = h[N]
  BY DEF Left, Spent
<1>3. \E f : Recursive(f)
  <2> DEFINE step == [z \in Int \X (1..N) |-> Spent(c, g, z[2], z[1])]
  <2>1. step \in [Int \X (1..N) -> Int]
    BY SpentType
  <2> HIDE DEF step, N
  <2>2. PICK f \in [0..N -> Int] :
            f[0] = Full(c) /\ \A n \in 1..N : f[n] = step[<<f[n - 1], n>>]
    <3>1. Histories(N, Int, Full(c), step) # {}
      BY <1>1, <2>1, Iteration
    <3>2. QED
      BY <3>1 DEF Histories
  <2>3. ASSUME NEW n \in 1..N PROVE f[n] = Spent(c, g, n, f[n - 1])
    <3>1. n - 1 \in 0..N
      BY <1>1
    <3>2. <<f[n - 1], n>> \in Int \X (1..N)
      BY <2>2, <3>1
    <3>3. QED
      BY <2>2, <3>2 DEF step
  <2>4. \A n \in 0..N : n = 0 \/ n \in 1..N
    BY <1>1
  <2>5. Recursive(f)
    BY <2>2, <2>3, <2>4
  <2>6. QED
    BY <2>5
<1>4. Recursive(h)
  BY <1>3
<1> HIDE DEF h, N
<1>5. h[0] = Full(c) /\ \A n \in 1..N : h[n] = Spent(c, g, n, h[n - 1])
  <2>1. 0 \in 0..N /\ \A n \in 1..N : n \in 0..N /\ n # 0
    BY <1>1
  <2>2. QED
    BY <1>4, <2>1
<1>6. \A n \in 0..N : h[n] \in Int
  <2> DEFINE Bad == {n \in 0..N : h[n] \notin Int}
  <2>1. SUFFICES ASSUME Bad # {} PROVE FALSE
    OBVIOUS
  <2>2. PICK n \in Bad : \A m \in Nat : m < n => m \notin Bad
    <3>1. Bad \in SUBSET Nat
      BY <1>1
    <3> HIDE DEF Bad
    <3>2. QED
      BY <2>1, <3>1, LeastNumber
  <2>3. n # 0
    BY <1>1, <1>5, <2>2
  <2>4. n \in 1..N /\ n - 1 \in 0..N /\ n - 1 \in Nat /\ n - 1 < n
    BY <1>1, <2>2, <2>3
  <2>5. h[n - 1] \in Int
    BY <2>2, <2>4
  <2>6. h[n] \in Int
    <3>1. h[n] = Spent(c, g, n, h[n - 1])
      BY <1>5, <2>4
    <3>2. n \in 1..Len(g)
      BY <2>4 DEF N
    <3>3. QED
      BY <2>5, <3>1, <3>2, SpentType
  <2>7. QED
    BY <2>2, <2>6
<1>7. h \in [0..N -> Int]
  BY <1>4, <1>6
<1>8. LeftAfter(c, g, h)
  BY <1>5, <1>7 DEF LeftAfter, N
<1>9. QED
  BY <1>2, <1>8 DEF N

LEMMA LeftEmpty ==
  ASSUME NEW c \in Config, c \notin FixedWindow
  PROVE  Left(c, <<>>) = Full(c)
<1>1. PICK left : LeftAfter(c, <<>>, left) /\ Left(c, <<>>) = left[0]
  BY LeftUnfolds, EmptySeq
<1>2. QED
  BY <1>1 DEF LeftAfter

\* One more grant.
LEMMA LeftAppend ==
  ASSUME NEW c \in Config, c \notin FixedWindow, NEW g \in Seq(Nat), NEW t \in Nat
  PROVE  /\ Left(c, g) \in Int
         /\ Left(c, Append(g, t)) =
              Smaller(Full(c), Left(c, g) + (t - (IF g = <<>> THEN 0 ELSE g[Len(g)])) * c.refill_tokens)
                - Part(c)
<1> DEFINE G == Append(g, t)
           N == Len(g)
<1>1. /\ N \in Nat /\ G \in Seq(Nat) /\ Len(G) = N + 1 /\ G[N + 1] = t
      /\ \A n \in 1..N : G[n] = g[n]
      /\ g = <<>> <=> N = 0
  BY AppendProperties, LenProperties, EmptySeq
<1>2. PICK a : LeftAfter(c, g, a) /\ Left(c, g) = a[N]
  BY LeftUnfolds
<1> HIDE DEF G
<1>3. PICK b : LeftAfter(c, G, b) /\ Left(c, G) = b[N + 1]
  BY <1>1, LeftUnfolds
<1> HIDE DEF N
<1>4. /\ a \in [0..N -> Int] /\ a[0] = b[0]
      /\ \A n \in 1..N : a[n] = Spent(c, g, n, a[n - 1])
      /\ \A n \in 1..(N + 1) : b[n] = Spent(c, G, n, b[n - 1])
  BY <1>1, <1>2, <1>3 DEF LeftAfter, N
<1>5. ASSUME NEW n \in 1..N, NEW x PROVE Spent(c, G, n, x) = Spent(c, g, n, x)
  <2>1. n # 1 => n - 1 \in 1..N
    BY <1>1
  <2>2. QED
    BY <1>1, <2>1 DEF Spent
<1>6. \A n \in 0..N : a[n] = b[n]
  <2> DEFINE Bad == {n \in 0..N : a[n] # b[n]}
  <2>1. SUFFICES ASSUME Bad # {} PROVE FALSE
    OBVIOUS
  <2>2. PICK n \in Bad : \A m \in Nat : m < n => m \notin Bad
    <3>1. Bad \in SUBSET Nat
      BY <1>1
    <3> HIDE DEF Bad
    <3>2. QED
      BY <2>1, <3>1, LeastNumber
  <2>3. n # 0
    BY <1>4, <2>2
  <2>4. n \in 1..N /\ n \in 1..(N + 1) /\ n - 1 \in 0..N /\ n - 1 \in Nat /\ n - 1 < n
    BY <1>1, <2>2, <2>3
  <2>5. a[n - 1] = b[n - 1]
    BY <2>2, <2>4
  <2>6. a[n] = b[n]
    BY <1>4, <1>5, <2>4, <2>5
  <2>7. QED
    BY <2>2, <2>6
<1>7. N \in 0..N /\ N + 1 \in 1..(N + 1) /\ (N + 1) - 1 = N
  BY <1>1
<1>8. b[N + 1] = Spent(c, G, N + 1, a[N])
  BY <1>4, <1>6, <1>7
<1>9. (IF N + 1 = 1 THEN 0 ELSE G[(N + 1) - 1]) = IF g = <<>> THEN 0 ELSE g[N]
  <2>1. N # 0 => N \in 1..N
    BY <1>1
  <2>2. QED
    BY <1>1, <1>7, <2>1
<1>10. Spent(c, G, N + 1, a[N]) =
         Smaller(Full(c), a[N] + (t - (IF g = <<>> THEN 0 ELSE g[N])) * c.refill_tokens) - Part(c)
  BY <1>1, <1>9 DEF Spent
<1>11. QED
  BY <1>2, <1>3, <1>4, <1>7, <1>8, <1>10 DEF G, N

-----------------------------------------------------------------------------
(***************************************************************************)
(* The inductive invariant, key by key: what a hash says is what the       *)
(* grants of its key amount to, and it is not forgotten before it says no  *)
(* more than a key that was never written.                                 *)
(***************************************************************************)

InWindow(c, g, w) == Cardinality({j \in DOMAIN g : WindowOf(c, g[j]) = w})

KeptWindow(c, g, h) ==
    /\ h \in [window : Nat, count : Nat, expires : Nat]
    /\ h.window = WindowOf(c, g[Len(g)])
    /\ h.count = InWindow(c, g, h.window)
    /\ \A w \in Nat : InWindow(c, g, w) <= c.limit
    /\ End(c, h.window) <= h.expires

KeptTokens(c, g, h) ==
    /\ h \in [tokens : Nat, at : Nat, expires : Nat]
    /\ h.at = g[Len(g)]
    /\ h.tokens = Left(c, g) /\ h.tokens <= Full(c)
    /\ \A i \in DOMAIN g :
          h.tokens + (Len(g) - i + 1) * Part(c) <= Full(c) + (h.at - g[i]) * c.refill_tokens
    /\ \A i, j \in DOMAIN g :
          i <= j => (j - i + 1) * Part(c) <= Full(c) + (g[j] - g[i]) * c.refill_tokens
    /\ Full(c) <= h.tokens + (h.expires - h.at) * c.refill_tokens

Kept(c, g, h, t) ==
    /\ g # <<>>
    /\ \A j \in DOMAIN g : g[j] <= g[Len(g)]
    /\ g[Len(g)] <= t
    /\ IF c \in FixedWindow THEN KeptWindow(c, g, h) ELSE KeptTokens(c, g, h)

Tracked(c, k) ==
    /\ grants[k] \in Seq(Nat)
    /\ IF bucket[k] = NoBucket THEN grants[k] = <<>> ELSE Kept(c, grants[k], bucket[k], now)

\* The last of a sequence of grants.
LEMMA LastGrant ==
  ASSUME NEW g \in Seq(Nat), g # <<>>
  PROVE  Len(g) \in Nat /\ Len(g) \in DOMAIN g /\ DOMAIN g = 1..Len(g) /\ g[Len(g)] \in Nat
BY LenProperties, EmptySeq

LEMMA InWindowType ==
  ASSUME NEW c, NEW g \in Seq(Nat), NEW w
  PROVE  InWindow(c, g, w) \in Nat /\ IsFiniteSet({j \in DOMAIN g : WindowOf(c, g[j]) = w})
<1>1. IsFiniteSet(1..Len(g)) /\ DOMAIN g = 1..Len(g)
  BY FS_Interval, LenProperties
<1>2. QED
  BY <1>1, FS_Subset, FS_CardinalityType DEF InWindow

LEMMA InWindowOccupied ==
  ASSUME NEW c, NEW g \in Seq(Nat), NEW i \in DOMAIN g, NEW w, w = WindowOf(c, g[i])
  PROVE  InWindow(c, g, w) # 0
<1> DEFINE S == {j \in DOMAIN g : WindowOf(c, g[j]) = w}
<1>1. i \in S
  OBVIOUS
<1>2. IsFiniteSet(S)
  <2>1. IsFiniteSet(1..Len(g)) /\ DOMAIN g = 1..Len(g)
    BY FS_Interval, LenProperties
  <2>2. QED
    BY <2>1, FS_Subset
<1> HIDE DEF S
<1>3. Cardinality(S) # 0
  BY <1>1, <1>2, FS_EmptySet
<1>4. QED
  BY <1>3 DEF InWindow, S

LEMMA InWindowEmpty == \A c, w : InWindow(c, <<>>, w) = 0
<1>1. \A c, w : {j \in DOMAIN <<>> : WindowOf(c, <<>>[j]) = w} = {}
  OBVIOUS
<1>2. QED
  BY <1>1, FS_EmptySet, Zenon DEF InWindow

\* A grant counts in its own window and in no other.
LEMMA InWindowAppend ==
  ASSUME NEW c, NEW g \in Seq(Nat), NEW t \in Nat, NEW w
  PROVE  InWindow(c, Append(g, t), w) =
           InWindow(c, g, w) + (IF WindowOf(c, t) = w THEN 1 ELSE 0)
<1> DEFINE G == Append(g, t)
           n == Len(g) + 1
           S == {j \in DOMAIN g : WindowOf(c, g[j]) = w}
           T == {j \in DOMAIN G : WindowOf(c, G[j]) = w}
<1>1. /\ DOMAIN g = 1..Len(g) /\ DOMAIN G = DOMAIN g \cup {n} /\ n \notin DOMAIN g
      /\ G[n] = t /\ \A j \in DOMAIN g : G[j] = g[j]
  BY AppendProperties, LenProperties
<1> HIDE DEF G, n
<1>2. /\ InWindow(c, g, w) = Cardinality(S) /\ InWindow(c, G, w) = Cardinality(T)
      /\ IsFiniteSet(S)
  <2>1. IsFiniteSet(DOMAIN g) /\ S \subseteq DOMAIN g
    BY <1>1, FS_Interval, LenProperties
  <2>2. IsFiniteSet(S)
    BY <2>1, FS_Subset
  <2>3. QED
    BY <2>2, Zenon DEF InWindow
<1>3. CASE WindowOf(c, t) = w
  <2>1. T = S \cup {n} /\ n \notin S
    BY <1>1, <1>3
  <2> HIDE DEF S, T
  <2>2. Cardinality(T) = Cardinality(S) + 1
    BY <1>2, <2>1, FS_AddElement
  <2>3. QED
    BY <1>2, <1>3, <2>2 DEF G
<1>4. CASE WindowOf(c, t) # w
  <2>1. T = S
    BY <1>1, <1>4
  <2> HIDE DEF S, T
  <2>2. Cardinality(S) \in Nat
    BY <1>2, FS_CardinalityType
  <2>3. QED
    BY <1>2, <1>4, <2>1, <2>2 DEF G
<1>5. QED
  BY <1>3, <1>4

\* A window nobody has reached yet.
LEMMA InWindowLater ==
  ASSUME NEW c \in Config, c \in FixedWindow, NEW g \in Seq(Nat), g # <<>>,
         \A j \in DOMAIN g : g[j] <= g[Len(g)],
         NEW w \in Nat, WindowOf(c, g[Len(g)]) < w
  PROVE  InWindow(c, g, w) = 0
<1>1. ASSUME NEW j \in DOMAIN g PROVE WindowOf(c, g[j]) # w
  <2>1. g[j] \in Nat /\ g[Len(g)] \in Nat /\ g[j] <= g[Len(g)]
    BY LastGrant
  <2>2. /\ WindowOf(c, g[j]) <= WindowOf(c, g[Len(g)])
        /\ WindowOf(c, g[j]) \in Nat /\ WindowOf(c, g[Len(g)]) \in Nat
    BY <2>1, WindowOrder, WindowFacts
  <2>3. QED
    BY <2>2
<1>2. {j \in DOMAIN g : WindowOf(c, g[j]) = w} = {}
  BY <1>1
<1>3. QED
  BY <1>2, FS_EmptySet DEF InWindow

-----------------------------------------------------------------------------
(***************************************************************************)
(* What the script reads.                                                  *)
(***************************************************************************)

\* A window reads as full exactly when its grants have filled it.
LEMMA CountRead ==
  ASSUME NEW c \in Config, c \in FixedWindow, NEW k, Tracked(c, k), now \in Nat
  PROVE  /\ Count(c, k) = InWindow(c, grants[k], WindowOf(c, now))
         /\ Denies(c, k) <=> /\ bucket[k] # NoBucket
                             /\ bucket[k].count >= c.limit
                             /\ now < End(c, bucket[k].window)
<1>0. c.limit \in Nat /\ c.limit > 0
  BY ConfigFacts
<1>1. CASE bucket[k] = NoBucket
  <2>1. Count(c, k) = 0
    BY <1>1 DEF Count, Stored
  <2>2. QED
    BY <1>0, <1>1, <2>1, InWindowEmpty DEF Tracked, Denies
<1>2. CASE bucket[k] # NoBucket
  <2>1. /\ grants[k] \in Seq(Nat) /\ grants[k] # <<>>
        /\ Kept(c, grants[k], bucket[k], now)
    BY <1>2 DEF Tracked, Kept
  <2>2. PICK g \in Seq(Nat), u \in Nat, w \in Nat :
           /\ g = grants[k] /\ g # <<>> /\ u = g[Len(g)] /\ u <= now
           /\ w = WindowOf(c, u)
    BY <2>1, LastGrant, WindowFacts DEF Kept
  <2>3. /\ bucket[k].window = w
        /\ bucket[k].count = InWindow(c, g, w) /\ bucket[k].count \in Nat
        /\ End(c, w) <= bucket[k].expires /\ bucket[k].expires \in Nat
    BY <2>1, <2>2 DEF Kept, KeptWindow
  <2>4. /\ WindowOf(c, now) \in Nat /\ w <= WindowOf(c, now)
        /\ WindowOf(c, now) = w <=> now < End(c, w)
        /\ End(c, w) \in Nat
    <3>1. PICK m \in Nat : m = now
      OBVIOUS
    <3>2. w <= WindowOf(c, m) /\ (WindowOf(c, m) = w <=> m < End(c, w))
      BY <2>2, <3>1, WindowOrder
    <3>3. WindowOf(c, m) \in Nat /\ End(c, w) \in Nat
      BY <2>2, WindowFacts
    <3>4. QED
      BY <3>1, <3>2, <3>3
  <2>5. CASE now < End(c, w)
    <3>1. Count(c, k) = bucket[k].count
      BY <1>2, <2>3, <2>4, <2>5 DEF Count, Stored
    <3>2. QED
      BY <1>2, <2>2, <2>3, <2>4, <2>5, <3>1 DEF Denies
  <2>6. CASE ~(now < End(c, w))
    <3>1. Count(c, k) = 0
      <4>1. bucket[k].window # WindowOf(c, now)
        BY <2>3, <2>4, <2>6
      <4>2. QED
        BY <4>1 DEF Count
    <3>2. InWindow(c, g, WindowOf(c, now)) = 0
      BY <2>1, <2>2, <2>4, <2>6, InWindowLater DEF Kept
    <3>3. QED
      BY <1>0, <2>2, <2>3, <2>6, <3>1, <3>2 DEF Denies
  <2>7. QED
    BY <2>5, <2>6
<1>3. QED
  BY <1>1, <1>2

\* A bucket that has expired is full.
LEMMA TokensRead ==
  ASSUME NEW c \in Config, c \notin FixedWindow, NEW k, Tracked(c, k), now \in Nat
  PROVE  /\ Tokens(c, k) \in Nat /\ Tokens(c, k) <= Full(c)
         /\ bucket[k] = NoBucket => Tokens(c, k) = Full(c)
         /\ bucket[k] # NoBucket =>
              /\ bucket[k].tokens \in Nat /\ bucket[k].at \in Nat /\ bucket[k].at <= now
              /\ Tokens(c, k) =
                   Smaller(Full(c), bucket[k].tokens + (now - bucket[k].at) * c.refill_tokens)
<1>1. /\ Full(c) \in Nat /\ c.refill_tokens \in Nat /\ c.refill_tokens > 0
  BY BucketFacts
<1>2. CASE bucket[k] = NoBucket
  BY <1>1, <1>2 DEF Tokens, Stored
<1>3. CASE bucket[k] # NoBucket
  <2>1. /\ grants[k] \in Seq(Nat) /\ grants[k] # <<>>
        /\ Kept(c, grants[k], bucket[k], now)
    BY <1>3 DEF Tracked, Kept
  <2>2. PICK x \in Nat, u \in Nat, e \in Nat :
           /\ x = bucket[k].tokens /\ u = bucket[k].at /\ e = bucket[k].expires
           /\ u <= now /\ Full(c) <= x + (e - u) * c.refill_tokens
    BY <2>1 DEF Kept, KeptTokens
  <2>3. PICK r \in Nat, full \in Nat : r = c.refill_tokens /\ full = Full(c)
    BY <1>1
  <2>4. PICK y \in Nat : y = (now - u) * r
    BY <2>2, <2>3
  <2>5. Larger(0, now - u) = now - u
    BY <2>2 DEF Larger
  <2>6. CASE now < e
    <3>1. Tokens(c, k) = Smaller(full, x + y)
      BY <1>3, <2>2, <2>3, <2>4, <2>5, <2>6 DEF Tokens, Stored
    <3>2. QED
      BY <1>3, <2>2, <2>3, <2>4, <3>1 DEF Smaller
  <2>7. CASE ~(now < e)
    <3>1. Tokens(c, k) = full
      BY <2>2, <2>3, <2>7 DEF Tokens, Stored
    <3>2. (e - u) * r <= y
      BY <2>2, <2>3, <2>4, <2>7, TimesMonotonic
    <3>3. (e - u) * r \in Int
      BY <2>2, <2>3
    <3>4. full <= x + y
      BY <2>2, <2>3, <2>4, <3>2, <3>3
    <3>5. Smaller(full, x + y) = full
      BY <2>2, <2>3, <2>4, <3>4 DEF Smaller
    <3>6. QED
      BY <1>3, <2>2, <2>3, <2>4, <3>1, <3>5
  <2>8. QED
    BY <2>6, <2>7
<1>4. QED
  BY <1>2, <1>3

-----------------------------------------------------------------------------
(***************************************************************************)
(* What the script writes.                                                 *)
(***************************************************************************)

\* The count of a window is kept until the window is over.
LEMMA WindowIsKept ==
  ASSUME NEW c \in Config, c \in FixedWindow, now \in Nat
  PROVE  TimeToLive(c) \in Nat /\ WindowEnd(c, now) <= now + TimeToLive(c) * Second
<1>1. PICK m \in Nat : m = now
  OBVIOUS
<1>2. PICK e \in Nat : e = WindowEnd(c, m) /\ m < e
  BY WindowFacts
<1>3. PICK s \in Nat : s = Second /\ s > 0
  BY ConfigFacts
<1>4. PICK w \in Int : w = Ceiling(e - m, s) /\ e - m <= w * s /\ (w - 1) * s < e - m
  <2>1. PICK a \in Int : a = e - m
    BY <1>2
  <2>2. /\ Ceiling(a, s) \in Int
        /\ a <= Ceiling(a, s) * s
        /\ (Ceiling(a, s) - 1) * s < a
    BY <1>3, CeilingBounds
  <2>3. QED
    BY <2>1, <2>2
<1>5. w >= 0
  BY <1>2, <1>3, <1>4
<1>6. TimeToLive(c) = w + 1
  BY <1>1, <1>2, <1>3, <1>4 DEF TimeToLive
<1>7. e - m <= (w + 1) * s /\ (w + 1) * s \in Int
  <2>1. (w + 1) * s = w * s + 1 * s /\ w * s \in Int /\ (w + 1) * s \in Int
    BY <1>3, <1>4, Distribute
  <2>2. QED
    BY <1>2, <1>3, <1>4, <2>1
<1>8. TimeToLive(c) * Second = (w + 1) * s
  BY <1>3, <1>6
<1>9. QED
  BY <1>1, <1>2, <1>4, <1>5, <1>6, <1>7, <1>8

\* A bucket is kept until it would be full again.
LEMMA BucketIsKept ==
  ASSUME NEW c \in Config, c \notin FixedWindow
  PROVE  TimeToLive(c) \in Nat /\ Full(c) <= (TimeToLive(c) * Second) * c.refill_tokens
<1>1. PICK n \in Nat, d \in Nat, r \in Nat, s \in Nat :
         /\ n = c.capacity /\ d = c.refill_seconds /\ r = c.refill_tokens /\ s = Second
         /\ r > 0 /\ s > 0
  BY ConfigFacts
<1>2. PICK a \in Nat : a = n * d
  BY <1>1
<1>3. PICK w \in Int : w = Ceiling(a, r) /\ a <= w * r
  <2>1. Ceiling(a, r) \in Int /\ a <= Ceiling(a, r) * r
    BY <1>1, CeilingBounds
  <2>2. QED
    BY <2>1
<1>4. w >= 0
  BY <1>1, <1>2, <1>3
<1>5. TimeToLive(c) = w + 1
  BY <1>1, <1>2, <1>3, <1>4 DEF TimeToLive, Larger
<1>6. Full(c) = a * s
  <2>1. Full(c) = n * (d * s)
    BY <1>1 DEF Full, Part
  <2>2. QED
    BY <1>2, <2>1, Associate
<1>7. PICK b \in Int : b = w * r /\ a <= b
  BY <1>1, <1>3
<1>8. a * s <= b * s /\ a * s \in Int /\ b * s \in Int
  BY <1>1, <1>2, <1>7, TimesMonotonic
<1>9. b * s <= ((w + 1) * s) * r /\ ((w + 1) * s) * r \in Int
  <2>1. ((w + 1) * s) * r = (w + 1) * (r * s)
    BY <1>1, <1>3, Associate
  <2>2. PICK z \in Nat : z = r * s
    BY <1>1
  <2>3. b * s = w * z
    BY <1>1, <1>3, <1>7, <2>2, Associate
  <2>4. (w + 1) * z = w * z + 1 * z /\ w * z \in Int
    BY <1>3, <2>2, Distribute
  <2>5. QED
    BY <2>1, <2>2, <2>3, <2>4
<1>10. (TimeToLive(c) * Second) * c.refill_tokens = ((w + 1) * s) * r
  BY <1>1, <1>5
<1>11. QED
  BY <1>3, <1>4, <1>5, <1>6, <1>8, <1>9, <1>10

\* Appending keeps the last grant the latest.
LEMMA LatestIsLast ==
  ASSUME NEW g \in Seq(Nat), NEW t \in Nat,
         g # <<>> => g[Len(g)] <= t /\ \A j \in DOMAIN g : g[j] <= g[Len(g)]
  PROVE  /\ Append(g, t) \in Seq(Nat) /\ Append(g, t) # <<>>
         /\ Len(Append(g, t)) = Len(g) + 1 /\ Append(g, t)[Len(g) + 1] = t
         /\ \A j \in DOMAIN g : Append(g, t)[j] = g[j] /\ g[j] \in Nat /\ g[j] <= t
         /\ DOMAIN g = 1..Len(g) /\ DOMAIN Append(g, t) = 1..(Len(g) + 1) /\ Len(g) \in Nat
<1> DEFINE G == Append(g, t)
<1>1. /\ G \in Seq(Nat) /\ Len(G) = Len(g) + 1 /\ G[Len(g) + 1] = t
      /\ \A j \in 1..Len(g) : G[j] = g[j]
      /\ DOMAIN g = 1..Len(g) /\ DOMAIN G = 1..Len(G) /\ Len(g) \in Nat
  BY AppendProperties, LenProperties
<1> HIDE DEF G
<1>2. G # <<>>
  BY <1>1, EmptySeq
<1>3. ASSUME NEW j \in DOMAIN g PROVE g[j] \in Nat /\ g[j] <= t
  <2>1. g # <<>>
    BY <1>1, EmptySeq
  <2>2. g[j] \in Nat /\ g[Len(g)] \in Nat /\ g[j] <= g[Len(g)] /\ g[Len(g)] <= t
    BY <2>1, LastGrant
  <2>3. QED
    BY <2>2
<1>4. QED
  BY <1>1, <1>2, <1>3 DEF G

\* Counting a call keeps a window.
LEMMA ConsumedWindow ==
  ASSUME NEW c \in Config, c \in FixedWindow, NEW k, Tracked(c, k), now \in Nat, ~Denies(c, k)
  PROVE  Kept(c, Append(grants[k], now), Consumed(c, k), now)
<1>1. PICK g \in Seq(Nat), m \in Nat : g = grants[k] /\ m = now
  BY DEF Tracked
<1>2. g # <<>> => g[Len(g)] <= m /\ \A j \in DOMAIN g : g[j] <= g[Len(g)]
  BY <1>1 DEF Tracked, Kept
<1> DEFINE G == Append(g, m)
<1>3. /\ G \in Seq(Nat) /\ G # <<>> /\ Len(G) = Len(g) + 1 /\ G[Len(g) + 1] = m
      /\ \A j \in DOMAIN g : G[j] = g[j] /\ g[j] \in Nat /\ g[j] <= m
      /\ DOMAIN g = 1..Len(g) /\ DOMAIN G = 1..(Len(g) + 1) /\ Len(g) \in Nat
  BY <1>2, LatestIsLast
<1>4. PICK w \in Nat : w = WindowOf(c, m)
  BY WindowFacts
<1>5. PICK n \in Nat : n = InWindow(c, g, w)
  BY InWindowType
<1>6. Count(c, k) = n /\ n < c.limit /\ c.limit \in Nat
  <2>1. Count(c, k) = n
    BY <1>1, <1>4, <1>5, CountRead
  <2>2. c.limit \in Nat
    BY ConfigFacts
  <2>3. QED
    BY <2>1, <2>2 DEF Denies
<1>7. \A v : InWindow(c, G, v) = InWindow(c, g, v) + (IF w = v THEN 1 ELSE 0)
  BY <1>4, InWindowAppend
<1>8. PICK l \in Nat : l = TimeToLive(c) * Second /\ WindowEnd(c, m) <= m + l
  <2>1. TimeToLive(c) \in Nat /\ Second \in Nat
    BY <1>1, WindowIsKept, ConfigFacts
  <2>2. QED
    BY <1>1, <2>1, WindowIsKept
<1>9. Consumed(c, k) = [window |-> w, count |-> n + 1, expires |-> m + l]
  BY <1>1, <1>4, <1>6, <1>8 DEF Consumed
<1>10. End(c, w) <= m + l
  BY <1>4, <1>8, WindowFacts
<1>11. ASSUME NEW v \in Nat PROVE InWindow(c, G, v) <= c.limit
  <2>1. CASE v = w
    BY <1>5, <1>6, <1>7, <2>1
  <2>2. CASE v # w
    <3>1. InWindow(c, g, v) \in Nat
      BY InWindowType
    <3>2. InWindow(c, g, v) <= c.limit
      <4>1. CASE bucket[k] = NoBucket
        BY <1>1, <1>6, <4>1, InWindowEmpty DEF Tracked
      <4>2. CASE bucket[k] # NoBucket
        BY <1>1, <4>2 DEF Tracked, Kept, KeptWindow
      <4>3. QED
        BY <4>1, <4>2
    <3>3. QED
      BY <1>6, <1>7, <2>2, <3>1, <3>2
  <2>3. QED
    BY <2>1, <2>2
<1> HIDE DEF G
<1>12. KeptWindow(c, G, Consumed(c, k))
  <2>1. WindowOf(c, G[Len(G)]) = w /\ InWindow(c, G, w) = n + 1
    BY <1>3, <1>4, <1>5, <1>7
  <2>2. QED
    BY <1>9, <1>10, <1>11, <2>1 DEF KeptWindow
<1>13. \A j \in DOMAIN G : G[j] <= G[Len(G)]
  BY <1>3
<1>14. QED
  BY <1>1, <1>3, <1>12, <1>13 DEF Kept, G

\* Taking a token keeps a bucket.
LEMMA ConsumedTokens ==
  ASSUME NEW c \in Config, c \notin FixedWindow, NEW k, Tracked(c, k), now \in Nat, ~Denies(c, k)
  PROVE  Kept(c, Append(grants[k], now), Consumed(c, k), now)
<1>1. PICK g \in Seq(Nat), m \in Nat : g = grants[k] /\ m = now
  BY DEF Tracked
<1>2. g # <<>> => g[Len(g)] <= m /\ \A j \in DOMAIN g : g[j] <= g[Len(g)]
  BY <1>1 DEF Tracked, Kept
<1> DEFINE G == Append(g, m)
<1>3. /\ G \in Seq(Nat) /\ G # <<>> /\ Len(G) = Len(g) + 1 /\ G[Len(g) + 1] = m
      /\ \A j \in DOMAIN g : G[j] = g[j] /\ g[j] \in Nat /\ g[j] <= m
      /\ DOMAIN g = 1..Len(g) /\ DOMAIN G = 1..(Len(g) + 1) /\ Len(g) \in Nat
  BY <1>2, LatestIsLast
<1>4. PICK p \in Nat, full \in Nat, r \in Nat :
         p = Part(c) /\ full = Full(c) /\ r = c.refill_tokens /\ 0 < p /\ p <= full
  BY BucketFacts
<1>5. PICK x \in Nat : x = Tokens(c, k) /\ x <= full /\ p <= x
  <2>1. Tokens(c, k) \in Nat /\ Tokens(c, k) <= Full(c)
    BY TokensRead
  <2>2. QED
    BY <1>4, <2>1 DEF Denies
<1>6. PICK l \in Nat : l = TimeToLive(c) * Second /\ full <= l * r
  <2>1. TimeToLive(c) \in Nat /\ Second \in Nat
    BY BucketIsKept, ConfigFacts
  <2>2. QED
    BY <1>4, <2>1, BucketIsKept
<1>7. Consumed(c, k) = [tokens |-> x - p, at |-> m, expires |-> m + l]
  BY <1>1, <1>4, <1>5, <1>6 DEF Consumed, Larger
\* What the earlier grants had left.
<1>8. /\ g = <<>> => x = full
      /\ g # <<>> =>
           /\ x = Smaller(full, Left(c, g) + (m - g[Len(g)]) * r)
           /\ \A i \in DOMAIN g : x + (Len(g) - i + 1) * p <= full + (m - g[i]) * r
           /\ \A i, j \in DOMAIN g : i <= j => (j - i + 1) * p <= full + (g[j] - g[i]) * r
  <2>1. CASE bucket[k] = NoBucket
    BY <1>1, <1>4, <1>5, <2>1, TokensRead DEF Tracked
  <2>2. CASE bucket[k] # NoBucket
    <3>1. Kept(c, g, bucket[k], m) /\ g # <<>> /\ KeptTokens(c, g, bucket[k])
      BY <1>1, <2>2 DEF Tracked, Kept
    <3>2. PICK y \in Nat, u \in Nat :
             /\ y = bucket[k].tokens /\ u = bucket[k].at /\ u = g[Len(g)] /\ u <= m
             /\ y = Left(c, g)
             /\ x = Smaller(full, y + (m - u) * r)
      BY <1>1, <1>4, <1>5, <2>2, <3>1, TokensRead DEF KeptTokens
    <3>3. PICK d \in Int : d = (m - u) * r
      BY <1>4, <3>2
    <3>4. x <= y + d
      <4>1. x = Smaller(full, y + d)
        BY <3>2, <3>3
      <4>2. QED
        BY <3>3, <4>1 DEF Smaller
    <3>5. ASSUME NEW i \in DOMAIN g PROVE x + (Len(g) - i + 1) * p <= full + (m - g[i]) * r
      <4>1. PICK v \in Nat : v = g[i] /\ v <= m
        BY <1>3
      <4>2. y + (Len(g) - i + 1) * p <= full + (u - v) * r
        BY <1>4, <3>1, <3>2, <4>1 DEF KeptTokens
      <4>3. PICK q \in Int : q = (Len(g) - i + 1) * p
        BY <1>3, <1>4
      <4>4. PICK b \in Int : b = (u - v) * r
        BY ProductType
      <4>5. (m - v) * r = d + b
        <5>1. ((m - u) + (u - v)) * r = (m - u) * r + (u - v) * r
          BY <4>1, Distribute
        <5>2. (m - u) + (u - v) = m - v
          BY <4>1
        <5>3. QED
          BY <3>3, <4>4, <5>1, <5>2
      <4>6. x + q <= full + (d + b)
        BY <3>4, <4>2, <4>3, <4>4
      <4>7. QED
        BY <4>1, <4>3, <4>5, <4>6
    <3>6. \A i, j \in DOMAIN g : i <= j => (j - i + 1) * p <= full + (g[j] - g[i]) * r
      BY <1>4, <3>1 DEF KeptTokens
    <3>7. QED
      BY <3>1, <3>2, <3>5, <3>6
  <2>3. QED
    BY <2>1, <2>2
<1>9. Left(c, G) = x - p
  <2>1. Left(c, G) = Smaller(full, Left(c, g) + (m - (IF g = <<>> THEN 0 ELSE g[Len(g)])) * r) - p
    BY <1>4, LeftAppend
  <2>2. CASE g = <<>>
    <3>1. Left(c, g) = full
      BY <1>4, <2>2, LeftEmpty
    <3>2. m * r \in Nat /\ m - 0 = m
      BY <1>4
    <3>3. Smaller(full, full + m * r) = full
      BY <1>4, <3>2 DEF Smaller
    <3>4. QED
      BY <1>8, <2>1, <2>2, <3>1, <3>2, <3>3
  <2>3. CASE g # <<>>
    BY <1>8, <2>1, <2>3
  <2>4. QED
    BY <2>2, <2>3
<1> HIDE DEF G
<1> DEFINE N == Len(g)
<1>10. N \in Nat
  BY <1>3
<1>11. ASSUME NEW i \in DOMAIN G
       PROVE  (x - p) + ((N + 1) - i + 1) * p <= full + (m - G[i]) * r
  <2>1. CASE i = N + 1
    <3>1. G[i] = m /\ (m - m) * r = 0 /\ ((N + 1) - i + 1) * p = p
      BY <1>3, <1>4, <2>1
    <3>2. QED
      BY <1>4, <1>5, <3>1
  <2>2. CASE i # N + 1
    <3>1. i \in DOMAIN g /\ i \in Nat /\ G[i] = g[i] /\ g # <<>>
      BY <1>3, <2>2, EmptySeq
    <3>2. x + (N - i + 1) * p <= full + (m - g[i]) * r
      BY <1>8, <3>1
    <3>3. ((N + 1) - i + 1) * p = (N - i + 1) * p + p /\ (N - i + 1) * p \in Int
      BY <1>4, <1>10, <3>1
    <3>4. PICK v \in Nat : v = g[i]
      BY <1>3, <3>1
    <3>5. PICK a \in Int, b \in Int : a = (N - i + 1) * p /\ b = (m - v) * r
      BY <1>4, <3>3, ProductType
    <3>6. x + a <= full + b
      BY <3>2, <3>4, <3>5
    <3>7. (x - p) + (a + p) <= full + b
      BY <1>4, <1>5, <3>6
    <3>8. QED
      BY <3>1, <3>3, <3>4, <3>5, <3>7
  <2>3. QED
    BY <2>1, <2>2
<1>12. ASSUME NEW i \in DOMAIN G, NEW j \in DOMAIN G, i <= j
       PROVE  (j - i + 1) * p <= full + (G[j] - G[i]) * r
  <2>1. i \in Nat /\ j \in Nat
    BY <1>3
  <2>2. CASE j = N + 1
    <3>1. G[j] = m /\ G[i] \in Nat
      BY <1>3, <2>2
    <3>2. PICK v \in Nat : v = G[i]
      BY <3>1
    <3>3. PICK a \in Int, b \in Int : a = (j - i + 1) * p /\ b = (m - v) * r
      BY <1>4, <2>1, ProductType
    <3>4. (x - p) + a <= full + b
      <4>1. ((N + 1) - i + 1) * p = a /\ (m - G[i]) * r = b
        BY <2>2, <3>2, <3>3
      <4>2. (x - p) + ((N + 1) - i + 1) * p <= full + (m - G[i]) * r
        BY <1>11
      <4>3. QED
        BY <4>1, <4>2
    <3>5. a <= full + b
      BY <1>4, <1>5, <3>4
    <3>6. QED
      BY <3>1, <3>2, <3>3, <3>5
  <2>3. CASE j # N + 1
    <3>1. i \in DOMAIN g /\ j \in DOMAIN g
      BY <1>3, <1>10, <1>12, <2>1, <2>3
    <3>2. G[i] = g[i] /\ G[j] = g[j] /\ g # <<>>
      BY <1>3, <3>1, EmptySeq
    <3>3. (j - i + 1) * p <= full + (g[j] - g[i]) * r
      BY <1>8, <1>12, <3>1, <3>2
    <3>4. QED
      BY <3>2, <3>3
  <2>4. QED
    BY <2>2, <2>3
<1>13. full <= (x - p) + ((m + l) - m) * r
  <2>1. (m + l) - m = l
    BY <1>4, <1>6
  <2>2. PICK b \in Int : b = l * r
    BY <1>4, <1>6, ProductType
  <2>3. full <= (x - p) + b
    BY <1>4, <1>5, <1>6, <2>2
  <2>4. QED
    BY <2>1, <2>2, <2>3
<1>14. KeptTokens(c, G, Consumed(c, k))
  <2> DEFINE h == [tokens |-> x - p, at |-> m, expires |-> m + l]
  <2>1. /\ h \in [tokens : Nat, at : Nat, expires : Nat]
        /\ h.tokens = x - p /\ h.at = m /\ h.expires = m + l
    <3>1. x - p \in Nat /\ m + l \in Nat
      BY <1>4, <1>5, <1>6
    <3>2. QED
      BY <3>1
  <2> HIDE DEF h
  <2>2. G[Len(G)] = m /\ Len(G) = N + 1
    BY <1>3
  <2>3. h.tokens <= full
    BY <1>4, <1>5, <2>1
  <2>4. QED
    <3>1. KeptTokens(c, G, h)
      BY <1>4, <1>9, <1>11, <1>12, <1>13, <2>1, <2>2, <2>3 DEF KeptTokens
    <3>2. QED
      BY <1>7, <3>1 DEF h
<1>15. \A j \in DOMAIN G : G[j] <= G[Len(G)]
  BY <1>3
<1>16. Kept(c, G, Consumed(c, k), m)
  BY <1>3, <1>14, <1>15 DEF Kept
<1>17. QED
  BY <1>1, <1>16 DEF G

-----------------------------------------------------------------------------
(***************************************************************************)
(* When a key that nobody consumes opens again.                            *)
(***************************************************************************)

ClosedAt(c, h, t) ==
    /\ h # NoBucket
    /\ IF c \in FixedWindow
       THEN h.count >= c.limit /\ t < End(c, h.window)
       ELSE h.tokens + (t - h.at) * c.refill_tokens < Part(c)

\* A policy refuses while its key is closed.
LEMMA DeniesIsClosed ==
  ASSUME NEW c \in Config, NEW k, Tracked(c, k), now \in Nat
  PROVE  Denies(c, k) <=> ClosedAt(c, bucket[k], now)
<1>1. CASE c \in FixedWindow
  BY <1>1, CountRead DEF ClosedAt
<1>2. CASE c \notin FixedWindow
  <2>1. PICK p \in Nat, full \in Nat, r \in Nat :
           p = Part(c) /\ full = Full(c) /\ r = c.refill_tokens /\ 0 < p /\ p <= full
    BY <1>2, BucketFacts
  <2>2. CASE bucket[k] = NoBucket
    BY <1>2, <2>1, <2>2, TokensRead DEF Denies, ClosedAt
  <2>3. CASE bucket[k] # NoBucket
    <3>1. PICK x \in Nat, u \in Nat, m \in Nat :
             /\ x = bucket[k].tokens /\ u = bucket[k].at /\ m = now
             /\ Tokens(c, k) = Smaller(full, x + (m - u) * r)
      <4>1. /\ bucket[k].tokens \in Nat /\ bucket[k].at \in Nat
            /\ Tokens(c, k) =
                 Smaller(Full(c), bucket[k].tokens + (now - bucket[k].at) * c.refill_tokens)
        BY <1>2, <2>3, TokensRead
      <4>2. QED
        BY <2>1, <4>1
    <3>2. PICK d \in Int : d = (m - u) * r
      BY ProductType
    <3>3. Tokens(c, k) < p <=> x + d < p
      BY <2>1, <3>1, <3>2 DEF Smaller
    <3>4. ClosedAt(c, bucket[k], now) <=> x + d < p
      BY <1>2, <2>1, <2>3, <3>1, <3>2 DEF ClosedAt
    <3>5. QED
      BY <1>2, <2>1, <3>3, <3>4 DEF Denies
  <2>4. QED
    BY <2>2, <2>3
<1>3. QED
  BY <1>1, <1>2

HashOf(c) ==
    IF c \in FixedWindow THEN [window : Nat, count : Nat, expires : Nat]
                         ELSE [tokens : Nat, at : Nat, expires : Nat]

\* A key that is closed was closed before.
LEMMA ClosedEarlier ==
  ASSUME NEW c \in Config, NEW h, h # NoBucket => h \in HashOf(c),
         NEW t \in Int, NEW u \in Int, u <= t, ClosedAt(c, h, t)
  PROVE  ClosedAt(c, h, u)
<1>1. CASE c \in FixedWindow
  <2>1. PICK L \in Nat, w \in Nat : w = h.window /\ L = c.window_seconds * Second
    BY <1>1, ConfigFacts DEF ClosedAt, HashOf
  <2>2. End(c, w) = (w + 1) * L
    BY <1>1, <2>1, ConfigFacts, Associate DEF End
  <2>3. End(c, w) \in Int
    BY <2>1, <2>2
  <2>4. QED
    BY <1>1, <2>1, <2>3 DEF ClosedAt
<1>2. CASE c \notin FixedWindow
  <2>1. PICK x \in Nat, a \in Nat, r \in Nat, p \in Nat :
           x = h.tokens /\ a = h.at /\ r = c.refill_tokens /\ p = Part(c)
    BY <1>2, BucketFacts DEF ClosedAt, HashOf
  <2>2. (u - a) * r <= (t - a) * r /\ (u - a) * r \in Int /\ (t - a) * r \in Int
    BY <2>1, TimesMonotonic
  <2>3. x + (t - a) * r < p
    BY <1>2, <2>1 DEF ClosedAt
  <2>4. x + (u - a) * r < p
    BY <2>1, <2>2, <2>3
  <2>5. QED
    BY <1>2, <2>1, <2>4 DEF ClosedAt
<1>3. QED
  BY <1>1, <1>2

LEMMA TrackedHash ==
  ASSUME NEW c \in Config, NEW k, Tracked(c, k), bucket[k] # NoBucket
  PROVE  bucket[k] \in HashOf(c)
BY DEF Tracked, Kept, KeptWindow, KeptTokens, HashOf

\* retry_after is the first whole second after which the key is open.
LEMMA RetryOfWindow ==
  ASSUME NEW c \in Config, c \in FixedWindow, NEW k, Tracked(c, k), now \in Nat, Denies(c, k)
  PROVE  /\ RetryAfter(c, k) \in 1..Day
         /\ ~ClosedAt(c, bucket[k], now + RetryAfter(c, k) * Second)
         /\ ClosedAt(c, bucket[k], (now + RetryAfter(c, k) * Second) - Second)
<1>1. PICK m \in Nat, s \in Nat : m = now /\ s = Second /\ s > 0
  BY ConfigFacts
<1>2. PICK d \in Nat : d = c.window_seconds /\ d <= Day
  BY ConfigFacts
<1>3. PICK w \in Nat : w = WindowOf(c, m)
  BY WindowFacts
<1>4. PICK e \in Nat : e = WindowEnd(c, m) /\ e = End(c, w) /\ m < e /\ e - m <= d * s
  BY <1>1, <1>2, <1>3, WindowFacts
<1>5. bucket[k] # NoBucket /\ bucket[k].window = w /\ bucket[k].count >= c.limit
  <2>1. Stored(k) /\ bucket[k].window = w
    <3>1. Count(c, k) >= c.limit /\ c.limit > 0 /\ c.limit \in Nat
      BY ConfigFacts DEF Denies
    <3>2. QED
      BY <1>1, <1>3, <3>1 DEF Count
  <2>2. QED
    BY <2>1, CountRead
<1>6. PICK n \in Int : n = Ceiling(e - m, s) /\ e - m <= n * s /\ (n - 1) * s < e - m
  <2>1. PICK a \in Int : a = e - m
    BY <1>4
  <2>2. /\ Ceiling(a, s) \in Int
        /\ a <= Ceiling(a, s) * s
        /\ (Ceiling(a, s) - 1) * s < a
    BY <1>1, CeilingBounds
  <2>3. QED
    BY <2>1, <2>2
<1>7. RetryAfter(c, k) = n
  BY <1>1, <1>4, <1>6 DEF RetryAfter
<1>8. n >= 1
  <2>1. 0 * s < n * s
    BY <1>1, <1>4, <1>6
  <2>2. QED
    BY <1>1, <2>1, TimesMonotonic
<1>9. n <= d
  <2>1. (n - 1) * s < d * s
    BY <1>1, <1>4, <1>6
  <2>2. n - 1 < d
    BY <1>1, <1>6, <2>1, TimesMonotonic
  <2>3. QED
    BY <2>2
<1>10. PICK q \in Int : q = n * s /\ e <= m + q /\ (m + q) - s < e
  <2>1. ((n - 1) + 1) * s = (n - 1) * s + 1 * s /\ (n - 1) * s \in Int /\ (n - 1) + 1 = n
    BY <1>1, Distribute
  <2>2. QED
    BY <1>1, <1>4, <1>6, <2>1
<1>11. now + RetryAfter(c, k) * Second = m + q
  BY <1>1, <1>7, <1>10
<1>12. /\ ~ClosedAt(c, bucket[k], m + q)
       /\ ClosedAt(c, bucket[k], (m + q) - s)
  BY <1>4, <1>5, <1>10 DEF ClosedAt
<1>13. n \in 1..Day
  <2>1. Day \in Nat /\ n <= Day /\ n >= 1 /\ n \in Int
    BY <1>1, <1>2, <1>4, <1>6, <1>8, <1>9, DayType
  <2>2. QED
    BY <2>1
<1>14. QED
  BY <1>1, <1>7, <1>11, <1>12, <1>13

\* The same of a bucket: the tokens that are missing, refilled.
LEMMA RetryOfBucket ==
  ASSUME NEW c \in Config, c \notin FixedWindow, NEW k, Tracked(c, k), now \in Nat, Denies(c, k)
  PROVE  /\ RetryAfter(c, k) \in 1..Day
         /\ ~ClosedAt(c, bucket[k], now + RetryAfter(c, k) * Second)
         /\ ClosedAt(c, bucket[k], (now + RetryAfter(c, k) * Second) - Second)
<1>1. PICK m \in Nat, s \in Nat : m = now /\ s = Second /\ s > 0
  BY ConfigFacts
<1>2. PICK p \in Nat, full \in Nat, r \in Nat :
         /\ p = Part(c) /\ full = Full(c) /\ r = c.refill_tokens
         /\ 0 < p /\ p <= full /\ r > 0
  BY BucketFacts
<1>3. PICK d \in Nat : d <= Day /\ p = d * s
  BY <1>1, <1>2, ConfigFacts DEF Part
<1>4. bucket[k] # NoBucket
  BY <1>2, TokensRead DEF Denies
<1>5. PICK x \in Nat, u \in Nat :
         /\ x = bucket[k].tokens /\ u = bucket[k].at /\ u <= m
         /\ Tokens(c, k) = Smaller(full, x + (m - u) * r)
  BY <1>1, <1>2, <1>4, TokensRead
<1>6. PICK b \in Int : b = (m - u) * r
  BY <1>2, <1>5
<1>7. Tokens(c, k) = x + b /\ x + b < p /\ x + b >= 0
  <2>1. Tokens(c, k) = Smaller(full, x + b) /\ Tokens(c, k) < p
    BY <1>2, <1>5, <1>6 DEF Denies
  <2>2. Tokens(c, k) \in Nat
    BY TokensRead
  <2>3. QED
    BY <1>2, <1>6, <2>1, <2>2 DEF Smaller
<1>8. PICK z \in Nat : z = r * s /\ z > 0 /\ s <= z
  BY <1>1, <1>2
<1>9. PICK n \in Int :
         n = Ceiling(p - (x + b), z) /\ p - (x + b) <= n * z /\ (n - 1) * z < p - (x + b)
  <2>1. PICK a \in Int : a = p - (x + b)
    BY <1>6
  <2>2. /\ Ceiling(a, z) \in Int
        /\ a <= Ceiling(a, z) * z
        /\ (Ceiling(a, z) - 1) * z < a
    BY <1>8, CeilingBounds
  <2>3. QED
    BY <2>1, <2>2
<1>10. RetryAfter(c, k) = n
  BY <1>1, <1>2, <1>7, <1>8, <1>9 DEF RetryAfter
<1>11. n >= 1
  <2>1. 0 * z < n * z
    BY <1>2, <1>6, <1>7, <1>8, <1>9
  <2>2. QED
    BY <1>8, <2>1, TimesMonotonic
<1>12. n <= d
  <2>1. PICK v \in Nat : v = n - 1
    BY <1>11
  <2>2. v * s <= v * z /\ v * s \in Int /\ v * z \in Int
    BY <1>1, <1>8, <2>1, TimesMonotonic, Associate
  <2>3. v * z < p
    BY <1>2, <1>6, <1>7, <1>9, <2>1
  <2>4. v * s < d * s
    BY <1>1, <1>3, <2>2, <2>3
  <2>5. v < d
    BY <1>1, <2>4, TimesMonotonic
  <2>6. QED
    BY <2>1, <2>5
<1>13. PICK q \in Int : q = n * s
  BY <1>1
<1>14. /\ ((m + q) - u) * r = b + n * z
       /\ (((m + q) - s) - u) * r = b + (n - 1) * z
       /\ n * z \in Int /\ (n - 1) * z \in Int
  <2>1. /\ ((m - u) + q) * r = (m - u) * r + q * r
        /\ ((m - u) + (q - s)) * r = (m - u) * r + (q - s) * r
    BY <1>2, <1>13, Distribute
  <2>2. (m + q) - u = (m - u) + q /\ ((m + q) - s) - u = (m - u) + (q - s)
    BY <1>13
  <2>3. q * r = n * z
    <3>1. (n * s) * r = n * (s * r) /\ s * r = z
      BY <1>8, Associate
    <3>2. QED
      BY <1>13, <3>1
  <2>4. (q - s) * r = (n - 1) * z
    <3>1. ((n - 1) + 1) * s = (n - 1) * s + 1 * s /\ (n - 1) * s \in Int /\ (n - 1) + 1 = n
      BY Distribute
    <3>2. q - s = (n - 1) * s
      BY <1>13, <3>1
    <3>3. ((n - 1) * s) * r = (n - 1) * (s * r) /\ s * r = z
      BY <1>8, Associate
    <3>4. QED
      BY <3>2, <3>3
  <2>5. QED
    BY <1>6, <1>8, <2>1, <2>2, <2>3, <2>4
<1>15. now + RetryAfter(c, k) * Second = m + q
  BY <1>1, <1>10, <1>13
<1>16. ~ClosedAt(c, bucket[k], m + q)
  <2>1. ~(x + ((m + q) - u) * r < p)
    BY <1>6, <1>9, <1>14
  <2>2. QED
    BY <1>2, <1>5, <2>1 DEF ClosedAt
<1>17. ClosedAt(c, bucket[k], (m + q) - s)
  <2>1. x + (((m + q) - s) - u) * r < p
    BY <1>6, <1>9, <1>14
  <2>2. QED
    BY <1>2, <1>4, <1>5, <2>1 DEF ClosedAt
<1>18. n \in 1..Day
  <2>1. Day \in Nat /\ n <= Day /\ n >= 1 /\ n \in Int
    BY <1>3, <1>9, <1>11, <1>12, DayType
  <2>2. QED
    BY <2>1
<1>19. QED
  BY <1>1, <1>10, <1>15, <1>16, <1>17, <1>18

-----------------------------------------------------------------------------
(***************************************************************************)
(* The state of the script.                                                *)
(***************************************************************************)

RateTypes ==
    /\ now \in Nat /\ now <= MaxTime
    /\ revision \in [Policy -> Seq([config : Config, active : BOOLEAN])]
    /\ \A p \in Policy : Version(p) \in 1..MaxVersion
    /\ bucket \in [BucketKey -> Hash \cup {NoBucket}]
    /\ grants \in [BucketKey -> Seq(Nat)]

\* A key with a hash names a version that exists, and the hash is the one of
\* that version's configuration.
KeyKept(k) ==
    /\ Tracked(ConfigOf(k), k)
    /\ bucket[k] # NoBucket => k[2] \in 1..Version(k[1])

Opens(f, t) ==
    \A p \in RatePolicies(f) : ~ClosedAt(Current(p).config, bucket[KeyOf(p, f)], t)

\* A denial named the first whole second at which its policies are all open.
PromiseKept ==
    promise # NoPromise =>
        /\ promise.family \in Family /\ promise.from \in Int
        /\ Opens(promise.family, promise.from)
        /\ ~Opens(promise.family, promise.from - Second)

RateIInv ==
    /\ RateTypes
    /\ \A k \in BucketKey : KeyKept(k)
    /\ PromiseKept

\* The key of a policy in force is one of its current version.
LEMMA PolicyKey ==
  ASSUME RateTypes, \A k \in BucketKey : KeyKept(k), NEW f \in Family, NEW p \in Policy
  PROVE  /\ KeyOf(p, f) \in BucketKey
         /\ ConfigOf(KeyOf(p, f)) = Current(p).config
         /\ Current(p).config \in Config
         /\ Tracked(Current(p).config, KeyOf(p, f))
         /\ KeyOf(p, f)[1] = p /\ KeyOf(p, f)[2] = Version(p)
         /\ Version(p) \in 1..Version(p)
<1>1. Version(p) \in 1..MaxVersion /\ Version(p) \in 1..Version(p)
  BY RateAssumption DEF RateTypes
<1>2. KeyOf(p, f) \in BucketKey
  BY <1>1 DEF KeyOf, BucketKey
<1>3. KeyOf(p, f)[1] = p /\ KeyOf(p, f)[2] = Version(p)
  BY DEF KeyOf
<1>4. Current(p).config \in Config
  <2>1. revision[p] \in Seq([config : Config, active : BOOLEAN])
    BY DEF RateTypes
  <2>2. revision[p][Version(p)] \in [config : Config, active : BOOLEAN]
    BY <1>1, <2>1, ElementOfSeq DEF Version
  <2>3. QED
    BY <2>2 DEF Current
<1>5. ConfigOf(KeyOf(p, f)) = Current(p).config
  BY <1>3 DEF ConfigOf, Current
<1>6. QED
  BY <1>1, <1>2, <1>3, <1>4, <1>5 DEF KeyKept

LEMMA ApplicablePolicy ==
  ASSUME NEW f \in Family
  PROVE  RatePolicies(f) \subseteq Policy /\ Refusing(f) \subseteq RatePolicies(f)
BY RateAssumption DEF RatePolicies, Refusing

\* A key whose configuration is one of the system's.
LEMMA KeyConfig ==
  ASSUME RateTypes, NEW k \in BucketKey, KeyKept(k), bucket[k] # NoBucket
  PROVE  ConfigOf(k) \in Config
<1>1. k[1] \in Policy /\ k[2] \in 1..Len(revision[k[1]])
  BY DEF BucketKey, KeyKept, Version
<1>2. revision[k[1]] \in Seq([config : Config, active : BOOLEAN])
  BY <1>1 DEF RateTypes
<1>3. revision[k[1]][k[2]] \in [config : Config, active : BOOLEAN]
  BY <1>1, <1>2, ElementOfSeq
<1>4. QED
  BY <1>3 DEF ConfigOf

LEMMA HashesApart ==
  ASSUME NEW c, NEW h \in HashOf(c)
  PROVE  h \in Hash /\ h # NoBucket
<1>1. h \in Hash
  BY DEF HashOf, Hash
<1>2. QED
  BY <1>1, RateAssumption

\* What the script writes under a key keeps the key.
LEMMA WrittenIsKept ==
  ASSUME NEW c \in Config, NEW k, Tracked(c, k), now \in Nat, ~Denies(c, k)
  PROVE  /\ Kept(c, Append(grants[k], now), Consumed(c, k), now)
         /\ Consumed(c, k) \in Hash /\ Consumed(c, k) # NoBucket
         /\ Append(grants[k], now) \in Seq(Nat)
<1>1. Kept(c, Append(grants[k], now), Consumed(c, k), now)
  BY ConsumedWindow, ConsumedTokens
<1>2. Consumed(c, k) \in HashOf(c)
  BY <1>1 DEF Kept, KeptWindow, KeptTokens, HashOf
<1>3. Append(grants[k], now) \in Seq(Nat)
  BY DEF Tracked
<1>4. QED
  BY <1>1, <1>2, <1>3, HashesApart

-----------------------------------------------------------------------------
(***************************************************************************)
(* Every step keeps the invariant.                                         *)
(***************************************************************************)

\* What the revisions and the hashes determine stays with them.
LEMMA SameReading ==
  ASSUME UNCHANGED <<revision, bucket>>
  PROVE  /\ \A p : Version(p)' = Version(p)
         /\ \A k : ConfigOf(k)' = ConfigOf(k)
         /\ \A f, t : Opens(f, t)' <=> Opens(f, t)
<1>1. revision' = revision /\ bucket' = bucket
  OBVIOUS
<1>2. \A p : Version(p)' = Version(p) /\ Current(p)' = Current(p)
  BY <1>1 DEF Version, Current
<1>3. \A k : ConfigOf(k)' = ConfigOf(k)
  BY <1>1 DEF ConfigOf
<1>4. \A f : RatePolicies(f)' = RatePolicies(f)
  BY <1>2 DEF RatePolicies
<1>5. \A p, f : KeyOf(p, f)' = KeyOf(p, f)
  BY <1>2 DEF KeyOf
<1>6. \A f, t : Opens(f, t)' <=> Opens(f, t)
  BY <1>1, <1>2, <1>4, <1>5 DEF Opens
<1>7. QED
  BY <1>2, <1>3, <1>6

LEMMA SameVersions ==
  ASSUME UNCHANGED revision
  PROVE  (\A p : Version(p)' = Version(p)) /\ (\A k : ConfigOf(k)' = ConfigOf(k))
BY DEF Version, ConfigOf

\* A key that a decision consumes has room, under the configuration it names.
LEMMA KeysHaveRoom ==
  ASSUME RateTypes, \A k \in BucketKey : KeyKept(k), NEW f \in Family, Allowed(f),
         NEW k \in Keys(f)
  PROVE  /\ k \in BucketKey /\ k[2] \in 1..Version(k[1])
         /\ ConfigOf(k) \in Config /\ Tracked(ConfigOf(k), k) /\ ~Denies(ConfigOf(k), k)
<1>1. PICK p \in RatePolicies(f) : k = KeyOf(p, f)
  BY DEF Keys
<1>2. p \in Policy
  BY ApplicablePolicy
<1>3. ~Denies(Current(p).config, KeyOf(p, f))
  BY <1>1 DEF Allowed, Refusing
<1>4. QED
  BY <1>1, <1>2, <1>3, PolicyKey

\* Every key of an allowed decision is consumed once.
LEMMA AllowedKeeps ==
  ASSUME RateIInv, NEW f \in Family, Consume(f), Allowed(f)
  PROVE  RateIInv'
<1>1. RateTypes /\ \A k \in BucketKey : KeyKept(k)
  BY DEF RateIInv
<1>2. /\ bucket' = [k \in BucketKey |->
                      IF k \in Keys(f) THEN Consumed(ConfigOf(k), k) ELSE bucket[k]]
      /\ grants' = [k \in BucketKey |->
                      IF k \in Keys(f) THEN Append(grants[k], now) ELSE grants[k]]
      /\ promise' = NoPromise /\ UNCHANGED <<now, revision>>
  BY DEF Consume, Written
<1>3. (\A p : Version(p)' = Version(p)) /\ (\A k : ConfigOf(k)' = ConfigOf(k))
  BY <1>2, SameVersions
<1>4. ASSUME NEW k \in Keys(f)
      PROVE  /\ k \in BucketKey /\ k[2] \in 1..Version(k[1])
             /\ Kept(ConfigOf(k), Append(grants[k], now), Consumed(ConfigOf(k), k), now)
             /\ Consumed(ConfigOf(k), k) \in Hash /\ Consumed(ConfigOf(k), k) # NoBucket
             /\ Append(grants[k], now) \in Seq(Nat)
  <2>1. now \in Nat
    BY <1>1 DEF RateTypes
  <2>2. QED
    BY <1>1, <1>4, <2>1, KeysHaveRoom, WrittenIsKept
<1>5. ASSUME NEW k \in BucketKey
      PROVE  /\ bucket'[k] \in Hash \cup {NoBucket} /\ grants'[k] \in Seq(Nat)
             /\ KeyKept(k)'
  <2>1. CASE k \in Keys(f)
    <3>1. bucket'[k] = Consumed(ConfigOf(k), k) /\ grants'[k] = Append(grants[k], now)
      BY <1>2, <1>5, <2>1
    <3>2. Kept(ConfigOf(k)', grants'[k], bucket'[k], now')
      BY <1>2, <1>3, <1>4, <2>1, <3>1
    <3>3. QED
      BY <1>3, <1>4, <2>1, <3>1, <3>2 DEF KeyKept, Tracked
  <2>2. CASE k \notin Keys(f)
    <3>1. bucket'[k] = bucket[k] /\ grants'[k] = grants[k] /\ now' = now
      BY <1>2, <1>5, <2>2
    <3>2. bucket[k] \in Hash \cup {NoBucket} /\ grants[k] \in Seq(Nat) /\ KeyKept(k)
      BY <1>1, <1>5 DEF RateTypes
    <3>3. QED
      BY <1>3, <3>1, <3>2 DEF KeyKept, Tracked
  <2>3. QED
    BY <2>1, <2>2
<1>6. RateTypes'
  <2>1. bucket' \in [BucketKey -> Hash \cup {NoBucket}] /\ grants' \in [BucketKey -> Seq(Nat)]
    BY <1>2, <1>5
  <2>2. QED
    BY <1>1, <1>2, <1>3, <2>1 DEF RateTypes
<1>7. PromiseKept'
  BY <1>2 DEF PromiseKept
<1>8. QED
  BY <1>5, <1>6, <1>7 DEF RateIInv

\* The longest wait of the policies that refuse.
LEMMA LongestWait ==
  ASSUME NEW W \in SUBSET (1..Day), W # {}
  PROVE  \E r \in W : \A s \in W : s <= r
<1> DEFINE Above == {n \in Nat : \A s \in W : s <= n}
<1>1. Day \in Nat /\ \A s \in W : s \in Nat /\ s > 0 /\ s <= Day
  BY DayType
<1>2. Above # {}
  BY <1>1
<1>3. Above \in SUBSET Nat
  OBVIOUS
<1>4. PICK r \in Above : \A n \in Nat : n < r => n \notin Above
  <2> HIDE DEF Above
  <2>1. QED
    BY <1>2, <1>3, LeastNumber
<1>5. r \in W
  <2>1. SUFFICES ASSUME r \notin W PROVE FALSE
    OBVIOUS
  <2>2. PICK s \in W : s > 0
    BY <1>1
  <2>3. r - 1 \in Above
    BY <1>1, <1>4, <2>1, <2>2
  <2>4. QED
    BY <1>4, <2>3
<1>6. QED
  BY <1>4, <1>5


\* A denial consumes nothing, and names the wait of the policy that is closed
\* longest.
LEMMA DenialKeeps ==
  ASSUME RateIInv, NEW f \in Family, Consume(f), ~Allowed(f)
  PROVE  RateIInv'
<1>1. RateTypes /\ \A k \in BucketKey : KeyKept(k)
  BY DEF RateIInv
<1>2. PICK m \in Nat, s \in Nat : m = now /\ s = Second /\ s > 0
  BY <1>1, RateAssumption DEF RateTypes
<1> DEFINE Wait(p) == RetryAfter(Current(p).config, KeyOf(p, f))
           waits == {Wait(p) : p \in Refusing(f)}
           Shut(p, t) == ClosedAt(Current(p).config, bucket[KeyOf(p, f)], t)
<1>3. ASSUME NEW p \in RatePolicies(f)
      PROVE  /\ Current(p).config \in Config /\ Tracked(Current(p).config, KeyOf(p, f))
             /\ p \in Refusing(f) <=> Shut(p, m)
  <2>1. p \in Policy
    BY ApplicablePolicy
  <2>2. Current(p).config \in Config /\ Tracked(Current(p).config, KeyOf(p, f))
    BY <1>1, <2>1, PolicyKey
  <2>3. Denies(Current(p).config, KeyOf(p, f)) <=> Shut(p, m)
    BY <1>2, <2>2, DeniesIsClosed
  <2>4. QED
    BY <2>2, <2>3 DEF Refusing
<1>4. ASSUME NEW p \in Refusing(f)
      PROVE  /\ p \in RatePolicies(f) /\ Wait(p) \in 1..Day
             /\ ~Shut(p, m + Wait(p) * s) /\ Shut(p, (m + Wait(p) * s) - s)
  <2>1. p \in RatePolicies(f)
    BY ApplicablePolicy
  <2>2. Denies(Current(p).config, KeyOf(p, f))
    BY DEF Refusing
  <2>3. QED
    BY <1>2, <1>3, <2>1, <2>2, RetryOfWindow, RetryOfBucket
<1>5. ASSUME NEW p \in RatePolicies(f), NEW t \in Int, NEW u \in Int, u <= t, Shut(p, t)
      PROVE  Shut(p, u)
  BY <1>3, <1>5, TrackedHash, ClosedEarlier
<1> HIDE DEF Shut
<1>6. PICK q \in Refusing(f) : \A p \in Refusing(f) : Wait(p) <= Wait(q)
  <2>1. waits \in SUBSET (1..Day) /\ waits # {}
    BY <1>4 DEF Allowed
  <2>2. PICK r \in waits : \A n \in waits : n <= r
    <3> HIDE DEF waits
    <3>1. QED
      BY <2>1, LongestWait
  <2>3. QED
    BY <2>2
<1>7. PICK n \in Nat : n = Wait(q) /\ n > 0
  BY <1>4, DayType
<1>8. PICK e \in Nat : e = n * s /\ e > 0
  BY <1>2, <1>7
<1>9. promise' = [family |-> f, from |-> m + e] /\ UNCHANGED <<now, revision, grants>>
  <2>1. n \in waits /\ \A r \in waits : r \in Nat /\ r <= n
    BY <1>4, <1>6, <1>7, DayType
  <2>2. (CHOOSE r \in waits : \A k \in waits : k <= r) = n
    <3> HIDE DEF waits
    <3>1. \A r \in waits : (\A k \in waits : k <= r) => r = n
      BY <2>1
    <3>2. QED
      BY <2>1, <3>1
  <2>3. QED
    BY <1>2, <1>8, <2>2 DEF Consume
<1>10. bucket' = bucket
  BY <1>1 DEF Consume, Written, RateTypes
<1>11. Opens(f, m + e)
  <2>1. SUFFICES ASSUME NEW p \in RatePolicies(f), Shut(p, m + e) PROVE FALSE
    BY DEF Opens, Shut
  <2>2. Shut(p, m)
    BY <1>2, <1>5, <1>8, <2>1
  <2>3. p \in Refusing(f)
    BY <1>3, <2>2
  <2>4. PICK w \in Nat : w = Wait(p) /\ w <= n
    BY <1>4, <1>6, <1>7, <2>3, DayType
  <2>5. w * s <= n * s /\ w * s \in Int
    BY <1>2, <2>4, TimesMonotonic
  <2>6. Shut(p, m + w * s)
    BY <1>2, <1>5, <1>8, <2>1, <2>5
  <2>7. QED
    BY <1>4, <2>3, <2>4, <2>6
<1>12. ~Opens(f, (m + e) - s)
  <2>1. Shut(q, (m + e) - s) /\ q \in RatePolicies(f)
    BY <1>4, <1>7, <1>8
  <2>2. QED
    BY <2>1 DEF Opens, Shut
<1>13. /\ \A p : Version(p)' = Version(p)
       /\ \A k : ConfigOf(k)' = ConfigOf(k)
       /\ \A g, t : Opens(g, t)' <=> Opens(g, t)
  BY <1>9, <1>10, SameReading
<1>14. RateTypes'
  BY <1>1, <1>9, <1>10, <1>13 DEF RateTypes
<1>15. ASSUME NEW k \in BucketKey PROVE KeyKept(k)'
  <2>1. KeyKept(k) /\ ConfigOf(k)' = ConfigOf(k) /\ Version(k[1])' = Version(k[1])
    BY <1>1, <1>13
  <2>2. QED
    BY <1>9, <1>10, <2>1 DEF KeyKept, Tracked
<1>16. PromiseKept'
  <2>1. promise'.family = f /\ promise'.from = m + e /\ m + e \in Int
    BY <1>2, <1>8, <1>9
  <2>2. Opens(f, m + e)' /\ ~Opens(f, (m + e) - s)'
    BY <1>11, <1>12, <1>13
  <2>3. QED
    BY <1>2, <2>1, <2>2 DEF PromiseKept, Opens
<1>17. QED
  BY <1>14, <1>15, <1>16 DEF RateIInv


\* A new version leaves the keys of the earlier ones as they were.
LEMMA EditKeeps ==
  ASSUME RateIInv, NEW p \in Policy, NEW c \in Config, NEW active \in BOOLEAN,
         EditPolicy(p, c, active)
  PROVE  RateIInv'
<1>1. RateTypes /\ \A k \in BucketKey : KeyKept(k)
  BY DEF RateIInv
<1> DEFINE Revision == [config : Config, active : BOOLEAN]
           added == [config |-> c, active |-> active]
<1>2. added \in Revision
  OBVIOUS
<1> HIDE DEF Revision, added
<1>3. /\ Len(revision[p]) < MaxVersion
      /\ revision' = [revision EXCEPT ![p] = Append(revision[p], added)]
      /\ promise' = NoPromise /\ UNCHANGED <<now, bucket, grants>>
  BY DEF EditPolicy, Version, added
<1>4. revision \in [Policy -> Seq(Revision)]
  BY <1>1 DEF RateTypes, Revision
<1>5. PICK s, t : s = revision[p] /\ t = Append(s, added)
  OBVIOUS
<1>6. /\ s \in Seq(Revision) /\ t \in Seq(Revision) /\ Len(s) \in Nat /\ Len(t) = Len(s) + 1
      /\ \A i \in 1..Len(s) : t[i] = s[i]
  BY <1>2, <1>4, <1>5, AppendProperties, LenProperties
<1>7. /\ revision'[p] = t /\ \A o \in Policy : o # p => revision'[o] = revision[o]
      /\ revision' \in [Policy -> Seq(Revision)]
  BY <1>3, <1>4, <1>5, <1>6
<1>8. \A o \in Policy :
         Version(o)' \in 1..MaxVersion /\ 1..Version(o) \subseteq 1..Version(o)'
  <2>1. SUFFICES ASSUME NEW o \in Policy
                 PROVE  Version(o)' \in 1..MaxVersion /\ 1..Version(o) \subseteq 1..Version(o)'
    OBVIOUS
  <2>2. Version(o) \in 1..MaxVersion /\ MaxVersion \in Nat
    BY <1>1, RateAssumption DEF RateTypes
  <2>3. CASE o = p
    BY <1>3, <1>5, <1>6, <1>7, <2>2, <2>3 DEF Version
  <2>4. CASE o # p
    BY <1>7, <2>2, <2>4 DEF Version
  <2>5. QED
    BY <2>3, <2>4
<1>9. ASSUME NEW k \in BucketKey PROVE KeyKept(k)'
  <2>1. KeyKept(k) /\ bucket'[k] = bucket[k] /\ grants'[k] = grants[k] /\ now' = now
    BY <1>1, <1>3
  <2>2. CASE bucket[k] = NoBucket
    BY <2>1, <2>2 DEF KeyKept, Tracked
  <2>3. CASE bucket[k] # NoBucket
    <3>1. k[1] \in Policy /\ k[2] \in 1..Len(revision[k[1]])
      BY <2>1, <2>3 DEF BucketKey, KeyKept, Version
    <3>2. ConfigOf(k)' = ConfigOf(k)
      <4>1. revision'[k[1]][k[2]] = revision[k[1]][k[2]]
        BY <1>5, <1>6, <1>7, <3>1
      <4>2. QED
        BY <4>1 DEF ConfigOf
    <3>3. k[2] \in 1..Version(k[1])'
      BY <1>8, <3>1 DEF Version
    <3>4. QED
      BY <2>1, <3>2, <3>3 DEF KeyKept, Tracked
  <2>4. QED
    BY <2>2, <2>3
<1>10. RateTypes'
  BY <1>1, <1>3, <1>7, <1>8 DEF RateTypes, Revision
<1>11. PromiseKept'
  BY <1>3 DEF PromiseKept
<1>12. QED
  BY <1>9, <1>10, <1>11 DEF RateIInv

\* Time alone changes no key and no promise.
LEMMA TickKeeps ==
  ASSUME RateIInv, Tick
  PROVE  RateIInv'
<1>1. RateTypes /\ PromiseKept /\ \A k \in BucketKey : KeyKept(k)
  BY DEF RateIInv
<1>2. /\ now < MaxTime /\ now' = now + 1 /\ MaxTime \in Nat
      /\ UNCHANGED <<revision, bucket, grants, promise>>
  BY RateAssumption DEF Tick
<1>3. /\ \A p : Version(p)' = Version(p)
      /\ \A k : ConfigOf(k)' = ConfigOf(k)
      /\ \A f, t : Opens(f, t)' <=> Opens(f, t)
  BY <1>2, SameReading
<1>4. PICK m \in Nat : m = now
  BY <1>1 DEF RateTypes
<1>5. ASSUME NEW k \in BucketKey PROVE KeyKept(k)'
  <2>1. KeyKept(k) /\ ConfigOf(k)' = ConfigOf(k) /\ Version(k[1])' = Version(k[1])
    BY <1>1, <1>3
  <2>2. /\ bucket' = bucket /\ grants' = grants
    BY <1>2
  <2>3. CASE bucket[k] = NoBucket
    BY <2>1, <2>2, <2>3 DEF KeyKept, Tracked
  <2>4. CASE bucket[k] # NoBucket
    <3>1. PICK c, h : c = ConfigOf(k) /\ h = bucket[k]
      OBVIOUS
    <3>2. PICK g \in Seq(Nat) : g = grants[k]
      BY <2>1 DEF KeyKept, Tracked
    <3>3. Kept(c, g, h, m)
      BY <1>4, <2>1, <2>4, <3>1, <3>2 DEF KeyKept, Tracked
    <3>4. g[Len(g)] \in Nat
      BY <3>3, LastGrant DEF Kept
    <3>5. Kept(c, g, h, m + 1)
      BY <3>3, <3>4 DEF Kept
    <3>6. now' = m + 1
      BY <1>2, <1>4
    <3>7. Tracked(ConfigOf(k), k)'
      <4>1. grants'[k] = g /\ bucket'[k] = h /\ ConfigOf(k)' = c /\ h # NoBucket
        BY <2>1, <2>2, <2>4, <3>1, <3>2
      <4>2. grants'[k] \in Seq(Nat) /\ bucket'[k] # NoBucket
        BY <3>2, <4>1
      <4>3. Kept(ConfigOf(k)', grants'[k], bucket'[k], now')
        BY <3>5, <3>6, <4>1
      <4>4. QED
        BY <4>2, <4>3 DEF Tracked
    <3>8. QED
      BY <2>1, <2>2, <3>7 DEF KeyKept
  <2>5. QED
    BY <2>3, <2>4
<1>6. RateTypes'
  <2>1. now' \in Nat /\ now' <= MaxTime
    BY <1>1, <1>2 DEF RateTypes
  <2>2. QED
    BY <1>1, <1>2, <1>3, <2>1 DEF RateTypes
<1>7. PromiseKept'
  <2>1. PICK d : d = promise
    OBVIOUS
  <2>2. promise' = d
    BY <1>2, <2>1
  <2>3. CASE d = NoPromise
    BY <2>2, <2>3 DEF PromiseKept
  <2>4. CASE d # NoPromise
    <3>1. /\ d.family \in Family /\ d.from \in Int
          /\ Opens(d.family, d.from) /\ ~Opens(d.family, d.from - Second)
      BY <1>1, <2>1, <2>4 DEF PromiseKept
    <3>2. Opens(d.family, d.from)' /\ ~Opens(d.family, d.from - Second)'
      BY <1>3, <3>1
    <3>3. QED
      BY <2>2, <3>1, <3>2 DEF PromiseKept, Opens
  <2>5. QED
    BY <2>3, <2>4
<1>8. QED
  BY <1>5, <1>6, <1>7 DEF RateIInv

LEMMA RateInitInv == RateInit => RateIInv
<1>1. SUFFICES ASSUME RateInit PROVE RateIInv
  OBVIOUS
<1>2. \A p \in Policy : /\ revision[p] = <<[config |-> Initial[p], active |-> TRUE]>>
                        /\ Initial[p] \in Config
  BY <1>1, RateAssumption DEF RateInit
<1>3. RateTypes
  <2>1. revision \in [Policy -> Seq([config : Config, active : BOOLEAN])]
    BY <1>1, <1>2 DEF RateInit
  <2>2. \A r : Len(<<r>>) = 1
    OBVIOUS
  <2>3. \A p \in Policy : Version(p) \in 1..MaxVersion
    <3>1. 1 \in 1..MaxVersion
      BY RateAssumption
    <3>2. \A p \in Policy : Len(revision[p]) = 1
      BY <1>2, <2>2, Zenon
    <3>3. QED
      BY <3>1, <3>2, Zenon DEF Version
  <2>4. <<>> \in Seq(Nat)
    OBVIOUS
  <2>5. bucket \in [BucketKey -> Hash \cup {NoBucket}] /\ grants \in [BucketKey -> Seq(Nat)]
    BY <1>1, <2>4 DEF RateInit
  <2>6. now \in Nat /\ now <= MaxTime
    BY <1>1, RateAssumption DEF RateInit
  <2>7. QED
    BY <2>1, <2>3, <2>5, <2>6 DEF RateTypes
<1>4. ASSUME NEW k \in BucketKey PROVE KeyKept(k)
  BY <1>1 DEF RateInit, KeyKept, Tracked
<1>5. PromiseKept
  BY <1>1 DEF RateInit, PromiseKept
<1>6. QED
  BY <1>3, <1>4, <1>5 DEF RateIInv

LEMMA RateStutter == RateIInv /\ UNCHANGED rateVars => RateIInv'
<1>1. SUFFICES ASSUME RateIInv, UNCHANGED rateVars PROVE RateIInv'
  OBVIOUS
<1>2. /\ now' = now /\ revision' = revision /\ bucket' = bucket /\ grants' = grants
      /\ promise' = promise
  BY <1>1 DEF rateVars
<1>3. /\ \A p : Version(p)' = Version(p)
      /\ \A k : ConfigOf(k)' = ConfigOf(k)
      /\ \A f, t : Opens(f, t)' <=> Opens(f, t)
  BY <1>2, SameReading
<1>4. RateTypes'
  BY <1>1, <1>2, <1>3 DEF RateIInv, RateTypes
<1>5. ASSUME NEW k \in BucketKey PROVE KeyKept(k)'
  <2>1. KeyKept(k) /\ ConfigOf(k)' = ConfigOf(k) /\ Version(k[1])' = Version(k[1])
    BY <1>1, <1>3 DEF RateIInv
  <2>2. QED
    BY <1>2, <2>1 DEF KeyKept, Tracked
<1>6. PromiseKept'
  BY <1>1, <1>2, <1>3 DEF RateIInv, PromiseKept, Opens, RatePolicies, Current, KeyOf, Version
<1>7. QED
  BY <1>4, <1>5, <1>6 DEF RateIInv

LEMMA RateStep == RateIInv /\ [RateNext]_rateVars => RateIInv'
<1>1. SUFFICES ASSUME RateIInv, [RateNext]_rateVars PROVE RateIInv'
  OBVIOUS
<1>2. CASE \E f \in Family : Consume(f)
  BY <1>1, <1>2, AllowedKeeps, DenialKeeps
<1>3. CASE \E p \in Policy, c \in Config, active \in BOOLEAN : EditPolicy(p, c, active)
  BY <1>1, <1>3, EditKeeps
<1>4. CASE Tick
  BY <1>1, <1>4, TickKeeps
<1>5. CASE UNCHANGED rateVars
  BY <1>1, <1>5, RateStutter
<1>6. QED
  BY <1>1, <1>2, <1>3, <1>4, <1>5 DEF RateNext

\* The invariant holds in every state of the limiter.
LEMMA RateInvariant == RateSpec => []RateIInv
BY RateInitInv, RateStep, PTL DEF RateSpec

-----------------------------------------------------------------------------
(***************************************************************************)
(* What the invariant gives.                                               *)
(***************************************************************************)

\* The key of a call that was let through keeps a hash.
LEMMA UsedKey ==
  ASSUME RateIInv, NEW k \in Used
  PROVE  /\ k \in BucketKey /\ bucket[k] # NoBucket /\ now \in Nat
         /\ ConfigOf(k) \in Config /\ Tracked(ConfigOf(k), k)
         /\ grants[k] \in Seq(Nat)
         /\ Kept(ConfigOf(k), grants[k], bucket[k], now)
<1>1. k \in BucketKey /\ KeyKept(k) /\ RateTypes /\ grants[k] # <<>>
  BY DEF Used, RateIInv
<1>2. Tracked(ConfigOf(k), k) /\ bucket[k] # NoBucket
  BY <1>1 DEF KeyKept, Tracked
<1>3. QED
  BY <1>1, <1>2, KeyConfig DEF Tracked, RateTypes

\* Types, and every key holds the hash of its own algorithm (evaluate_policies).
THEOREM RateTypeCorrect == RateSpec => []RateTypeOK
<1>1. RateIInv => RateTypeOK
  <2>1. SUFFICES ASSUME RateIInv PROVE RateTypeOK
    OBVIOUS
  <2>2. RateTypes /\ now \in 0..MaxTime
    <3>1. RateTypes
      BY <2>1 DEF RateIInv
    <3>2. now \in Nat /\ now <= MaxTime /\ MaxTime \in Nat
      BY <3>1, RateAssumption DEF RateTypes
    <3>3. QED
      BY <3>1, <3>2
  <2>3. ASSUME NEW k \in BucketKey, bucket[k] # NoBucket
        PROVE  \/ /\ ConfigOf(k) \in FixedWindow
                  /\ bucket[k].count \in 1..ConfigOf(k).limit
                  /\ bucket[k].window \in 0..MaxTime
               \/ /\ ConfigOf(k) \in TokenBucket
                  /\ bucket[k].tokens \in 0..Full(ConfigOf(k))
                  /\ bucket[k].at \in 0..MaxTime
    <3>1. KeyKept(k) /\ RateTypes
      BY <2>1 DEF RateIInv
    <3> DEFINE h == bucket[k]
    <3>2. PICK c \in Config, g \in Seq(Nat), m \in Nat :
             c = ConfigOf(k) /\ g = grants[k] /\ m = now
      BY <2>2, <2>3, <3>1, KeyConfig DEF KeyKept, Tracked, RateTypes
    <3>3. Kept(c, g, h, m) /\ m <= MaxTime /\ MaxTime \in Nat
      BY <2>2, <2>3, <3>1, <3>2, RateAssumption DEF KeyKept, Tracked, RateTypes
    <3>4. g # <<>> /\ g[Len(g)] \in Nat /\ g[Len(g)] <= m /\ Len(g) \in DOMAIN g
      BY <3>3, LastGrant DEF Kept
    <3>5. PICK z \in Nat : z = g[Len(g)] /\ z <= m
      BY <3>4
    <3>6. CASE c \in FixedWindow
      <4>1. KeptWindow(c, g, h)
        BY <3>3, <3>6 DEF Kept
      <4>2. /\ h.count \in Nat /\ h.window \in Nat /\ h.window = WindowOf(c, z)
            /\ h.count = InWindow(c, g, h.window) /\ h.count <= c.limit
        BY <3>5, <4>1 DEF KeptWindow
      <4>3. h.count # 0
        BY <3>4, <3>5, <4>2, InWindowOccupied
      <4>4. h.window <= z
        BY <3>5, <3>6, <4>2, WindowFacts
      <4>5. c.limit \in Nat
        BY <3>6, ConfigFacts
      <4>6. h.count \in 1..c.limit /\ h.window \in 0..MaxTime
        BY <3>3, <3>5, <4>2, <4>3, <4>4, <4>5
      <4>7. QED
        BY <3>2, <3>6, <4>6
    <3>7. CASE c \notin FixedWindow
      <4>1. KeptTokens(c, g, h)
        BY <3>3, <3>7 DEF Kept
      <4>2. h.tokens \in Nat /\ h.at = z /\ h.tokens <= Full(c)
        BY <3>5, <4>1 DEF KeptTokens
      <4>3. Full(c) \in Nat /\ c \in TokenBucket
        BY <3>7, BucketFacts, ConfigFacts
      <4>4. h.tokens \in 0..Full(c) /\ h.at \in 0..MaxTime
        BY <3>3, <3>5, <4>2, <4>3
      <4>5. QED
        BY <3>2, <4>3, <4>4
    <3>8. QED
      BY <3>6, <3>7
  <2>4. QED
    BY <2>2, <2>3 DEF RateTypeOK, RateTypes
<1>2. QED
  BY <1>1, RateInvariant, PTL

\* No window passes its limit, and no stretch of calls passes a full bucket and
\* its refill: the budget of a policy (SCRIPT of rate_limits.py), for every
\* configuration validate_policy_config accepts.
THEOREM BudgetHolds == RateSpec => []BudgetRespected
<1>1. RateIInv => BudgetRespected
  <2>1. SUFFICES ASSUME RateIInv PROVE BudgetRespected
    OBVIOUS
  <2>2. ASSUME NEW k \in Used
        PROVE  LET g == grants[k]
                   c == ConfigOf(k)
               IN IF c \in FixedWindow
                  THEN \A i \in DOMAIN g :
                          Cardinality({j \in DOMAIN g : WindowOf(c, g[j]) = WindowOf(c, g[i])})
                            <= c.limit
                  ELSE \A i, j \in DOMAIN g :
                          i <= j => (j - i + 1) * Part(c)
                                      <= Full(c) + (g[j] - g[i]) * c.refill_tokens
    <3> DEFINE h == bucket[k]
    <3>1. PICK c \in Config, g \in Seq(Nat), m \in Nat :
             c = ConfigOf(k) /\ g = grants[k] /\ m = now
      BY <2>1, UsedKey
    <3>2. Kept(c, g, h, m)
      BY <2>1, <3>1, UsedKey
    <3>3. CASE c \in FixedWindow
      <4>1. KeptWindow(c, g, h)
        BY <3>2, <3>3 DEF Kept
      <4>2. ASSUME NEW i \in DOMAIN g
            PROVE  InWindow(c, g, WindowOf(c, g[i])) <= c.limit
        <5>1. g[i] \in Nat
          OBVIOUS
        <5>2. WindowOf(c, g[i]) \in Nat
          BY <3>3, <5>1, WindowFacts
        <5>3. QED
          BY <4>1, <5>2 DEF KeptWindow
      <4>3. QED
        BY <3>1, <3>3, <4>2 DEF InWindow
    <3>4. CASE c \notin FixedWindow
      <4>1. KeptTokens(c, g, h)
        BY <3>2, <3>4 DEF Kept
      <4>2. \A i, j \in DOMAIN g :
               i <= j => (j - i + 1) * Part(c) <= Full(c) + (g[j] - g[i]) * c.refill_tokens
        BY <4>1 DEF KeptTokens
      <4>3. QED
        BY <3>1, <3>4, <4>2
    <3>5. QED
      BY <3>3, <3>4
  <2>3. QED
    BY <2>2 DEF BudgetRespected
<1>2. QED
  BY <1>1, RateInvariant, PTL

\* What the script reads is what the grants leave over: a denied call, a key
\* that expired or another version takes nothing from a key.
THEOREM NothingElseIsConsumed == RateSpec => []NothingElseConsumed
<1>1. RateIInv => NothingElseConsumed
  <2>1. SUFFICES ASSUME RateIInv PROVE NothingElseConsumed
    OBVIOUS
  <2>2. ASSUME NEW k \in Used
        PROVE  LET g == grants[k]
                   c == ConfigOf(k)
               IN IF c \in FixedWindow
                  THEN Count(c, k)
                         = Cardinality({j \in DOMAIN g : WindowOf(c, g[j]) = WindowOf(c, now)})
                  ELSE Tokens(c, k)
                         = Smaller(Full(c), Left(c, g) + (now - g[Len(g)]) * c.refill_tokens)
    <3>1. /\ ConfigOf(k) \in Config /\ Tracked(ConfigOf(k), k) /\ now \in Nat
          /\ bucket[k] # NoBucket /\ Kept(ConfigOf(k), grants[k], bucket[k], now)
      BY <2>1, UsedKey
    <3>2. CASE ConfigOf(k) \in FixedWindow
      <4>1. Count(ConfigOf(k), k) = InWindow(ConfigOf(k), grants[k], WindowOf(ConfigOf(k), now))
        BY <3>1, <3>2, CountRead
      <4>2. QED
        BY <3>2, <4>1 DEF InWindow
    <3>3. CASE ConfigOf(k) \notin FixedWindow
      <4>1. bucket[k].at = grants[k][Len(grants[k])] /\ bucket[k].tokens = Left(ConfigOf(k), grants[k])
        BY <3>1, <3>3 DEF Kept, KeptTokens
      <4>2. Tokens(ConfigOf(k), k)
              = Smaller(Full(ConfigOf(k)),
                        bucket[k].tokens + (now - bucket[k].at) * ConfigOf(k).refill_tokens)
        BY <3>1, <3>3, TokensRead
      <4>3. QED
        BY <3>3, <4>1, <4>2
    <3>4. QED
      BY <3>2, <3>3
  <2>3. QED
    BY <2>2 DEF NothingElseConsumed
<1>2. QED
  BY <1>1, RateInvariant, PTL

\* retry_after is the first whole second at which the call is let through, if
\* nobody else consumes and no policy is edited.
THEOREM RetryIsExact == RateSpec => []RetryAfterExact
<1>1. RateIInv => RetryAfterExact
  <2>1. SUFFICES ASSUME RateIInv, promise # NoPromise
                 PROVE  /\ now >= promise.from => Allowed(promise.family)
                        /\ now + Second <= promise.from => ~Allowed(promise.family)
    BY DEF RetryAfterExact
  <2>2. PICK f \in Family, e \in Int : f = promise.family /\ e = promise.from
    BY <2>1 DEF RateIInv, PromiseKept
  <2>3. Opens(f, e) /\ ~Opens(f, e - Second)
    BY <2>1, <2>2 DEF RateIInv, PromiseKept
  <2>4. PICK m \in Nat, s \in Nat : m = now /\ s = Second
    BY <2>1, RateAssumption DEF RateIInv, RateTypes
  <2>5. ASSUME NEW p \in RatePolicies(f)
        PROVE  LET c == Current(p).config
                   k == KeyOf(p, f)
               IN /\ c \in Config /\ (bucket[k] # NoBucket => bucket[k] \in HashOf(c))
                  /\ Denies(c, k) <=> ClosedAt(c, bucket[k], m)
    <3>1. RateTypes /\ \A k \in BucketKey : KeyKept(k)
      BY <2>1 DEF RateIInv
    <3>2. Current(p).config \in Config /\ Tracked(Current(p).config, KeyOf(p, f))
      BY <3>1, ApplicablePolicy, PolicyKey
    <3>3. QED
      BY <2>4, <3>2, TrackedHash, DeniesIsClosed
  <2>6. ASSUME m >= e PROVE Allowed(f)
    <3>1. SUFFICES ASSUME NEW p \in RatePolicies(f), Denies(Current(p).config, KeyOf(p, f))
                   PROVE  FALSE
      BY DEF Allowed, Refusing
    <3>2. ClosedAt(Current(p).config, bucket[KeyOf(p, f)], m)
      BY <2>5, <3>1
    <3>3. ClosedAt(Current(p).config, bucket[KeyOf(p, f)], e)
      BY <2>5, <2>6, <3>2, ClosedEarlier
    <3>4. QED
      BY <2>3, <3>3 DEF Opens
  <2>7. ASSUME m + s <= e PROVE ~Allowed(f)
    <3>1. PICK p \in RatePolicies(f) : ClosedAt(Current(p).config, bucket[KeyOf(p, f)], e - s)
      BY <2>3, <2>4 DEF Opens
    <3>2. e - s \in Int /\ m <= e - s /\ m \in Int
      BY <2>7
    <3>3. ClosedAt(Current(p).config, bucket[KeyOf(p, f)], m)
      BY <2>5, <3>1, <3>2, ClosedEarlier
    <3>4. p \in Refusing(f)
      BY <2>5, <3>3 DEF Refusing
    <3>5. QED
      BY <3>4 DEF Allowed
  <2>8. QED
    BY <2>2, <2>4, <2>6, <2>7
<1>2. QED
  BY <1>1, RateInvariant, PTL
=============================================================================
