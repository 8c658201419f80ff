-------------------------- MODULE Webhooks_proofs ---------------------------
(***************************************************************************)
(* Proofs about Webhooks for every number of endpoints, events, workers,   *)
(* retries and crashes.  The inductive invariant is the mutual exclusion   *)
(* of deliveries (the organization row lock) and what it keeps true of the *)
(* row a worker holds in memory while its POST is on the way.              *)
(***************************************************************************)
EXTENDS Webhooks, TLAPS, FiniteSetTheorems

USE WebhooksAssumption

LEMMA DeliveryParts == \A d \in Delivery : d[1] \in Endpoint /\ d[2] \in Event
BY DEF Delivery

LEMMA JobType ==
  ASSUME TypeOK, NEW w \in Worker, job[w] # NoJob
  PROVE  /\ job[w] \in Job
         /\ job[w].delivery \in Delivery
         /\ job[w].delivery[1] \in Endpoint
         /\ job[w].attempts \in Nat
         /\ job[w].version \in Nat
         /\ job[w].outcome \in Outcome
<1>1. job[w] \in Job
  BY DEF TypeOK
<1>2. QED
  BY <1>1, DeliveryParts DEF Job

LEMMA SettlementType ==
  \A outcome, n : Settlement(outcome, n) \in {"pending", "delivered", "dead_letter"}
BY DEF Settlement

(***************************************************************************)
(* Type correctness.                                                       *)
(***************************************************************************)

LEMMA TypeStep == TypeOK /\ [Next]_vars => TypeOK'
<1> SUFFICES ASSUME TypeOK, [Next]_vars PROVE TypeOK'
  OBVIOUS
<1> USE DEF rowVars, DeliveryStatus
<1>1. ASSUME NEW e \in Endpoint, CreateEndpoint(e) PROVE TypeOK'
  BY <1>1 DEF CreateEndpoint, TypeOK
<1>2. ASSUME NEW e \in Endpoint, RotateSecret(e) PROVE TypeOK'
  BY <1>2 DEF RotateSecret, TypeOK
<1>3. ASSUME NEW e \in Endpoint, NEW new \in {"active", "disabled"},
             SetEndpointStatus(e, new)
      PROVE  TypeOK'
  BY <1>3 DEF SetEndpointStatus, TypeOK
<1>4. ASSUME ArchiveOrganization PROVE TypeOK'
  BY <1>4 DEF ArchiveOrganization, TypeOK
<1>5. ASSUME NEW v \in Event, Enqueue(v) PROVE TypeOK'
  BY <1>5 DEF Enqueue, TypeOK
<1>6. ASSUME NEW v \in Event, CommitMutation(v) PROVE TypeOK'
  BY <1>6 DEF CommitMutation, TypeOK
<1>7. ASSUME NEW v \in Event, RollBackMutation(v) PROVE TypeOK'
  BY <1>7 DEF RollBackMutation, TypeOK
<1>8. ASSUME NEW w \in Worker, Poll(w) PROVE TypeOK'
  BY <1>8 DEF Poll, TypeOK
<1>9. ASSUME NEW w \in Worker, NEW d \in Delivery, Begin(w, d) PROVE TypeOK'
  <2>1. [delivery |-> d, attempts |-> attempts[d], version |-> secret[d[1]],
         outcome |-> "unsent"] \in Job
    BY DeliveryParts DEF TypeOK, Job, Outcome
  <2>2. job' \in [Worker -> Job \cup {NoJob}]
    BY <1>9, <2>1 DEF Begin, TypeOK
  <2>3. status' \in [Delivery -> DeliveryStatus] /\ batch' \in [Worker -> SUBSET Delivery]
    BY <1>9 DEF Begin, TypeOK
  <2>4. QED
    BY <1>9, <2>2, <2>3 DEF Begin, TypeOK
<1>10. ASSUME NEW w \in Worker,
              NEW result \in {"delivered", "lost", "transient", "permanent"},
              Post(w, result)
       PROVE  TypeOK'
  <2>1. job[w] \in Job /\ job[w].delivery \in Delivery
    BY <1>10, JobType DEF Post
  <2>2. [job[w] EXCEPT !.outcome = IF result = "lost" THEN "transient" ELSE result] \in Job
    BY <2>1 DEF Job, Outcome
  <2>3. job' = [job EXCEPT ![w] =
                  [job[w] EXCEPT !.outcome =
                     IF result = "lost" THEN "transient" ELSE result]]
    BY <1>10, <2>1 DEF Post, TypeOK, Job
  <2>4. job' \in [Worker -> Job \cup {NoJob}]
    BY <2>2, <2>3 DEF TypeOK
  <2>5. accepted' \in [Delivery -> Nat] /\ faults' \in [Delivery -> Nat]
    <3>1. accepted' = accepted \/ accepted' = [accepted EXCEPT ![job[w].delivery] = @ + 1]
      BY <1>10 DEF Post
    <3>2. faults' = faults \/ faults' = [faults EXCEPT ![job[w].delivery] = @ + 1]
      BY <1>10 DEF Post
    <3>3. accepted \in [Delivery -> Nat] /\ faults \in [Delivery -> Nat]
      BY DEF TypeOK
    <3>4. QED
      BY <2>1, <3>1, <3>2, <3>3
  <2>6. QED
    BY <1>10, <2>4, <2>5 DEF Post, TypeOK
<1>11. ASSUME NEW w \in Worker, Record(w) PROVE TypeOK'
  <2>1. job[w].delivery \in Delivery /\ job[w].attempts + 1 \in Nat
    BY <1>11, JobType DEF Record
  <2>2. history' \in [Delivery -> Seq(Nat)]
    BY <1>11, <2>1 DEF Record, TypeOK
  <2>3. status' \in [Delivery -> DeliveryStatus] /\ due' \in [Delivery -> BOOLEAN]
    BY <1>11, <2>1, SettlementType DEF Record, TypeOK
  <2>4. attempts' \in [Delivery -> Nat] /\ job' \in [Worker -> Job \cup {NoJob}]
    BY <1>11, <2>1 DEF Record, TypeOK
  <2>5. QED
    BY <1>11, <2>2, <2>3, <2>4 DEF Record, TypeOK
<1>12. ASSUME NEW w \in Worker, Crash(w) PROVE TypeOK'
  <2>1. job[w] # NoJob => job[w].delivery \in Delivery
    BY JobType
  <2>2. faults' \in [Delivery -> Nat]
    BY <1>12, <2>1 DEF Crash, TypeOK
  <2>3. crashes' \in 0..MaxCrashes
    BY <1>12 DEF Crash, TypeOK
  <2>4. QED
    BY <1>12, <2>2, <2>3 DEF Crash, TypeOK
<1>13. ASSUME NEW d \in Delivery, BecomeDue(d) PROVE TypeOK'
  BY <1>13 DEF BecomeDue, TypeOK
<1>14. ASSUME NEW d \in Delivery, NEW c \in Command, RetryDelivery(d, c) PROVE TypeOK'
  BY <1>14 DEF RetryDelivery, TypeOK
<1>15. CASE UNCHANGED vars
  BY <1>15 DEF vars, TypeOK
<1>16. QED
  BY <1>1, <1>2, <1>3, <1>4, <1>5, <1>6, <1>7, <1>8, <1>9, <1>10, <1>11, <1>12,
     <1>13, <1>14, <1>15 DEF Next, Work

\* Every row and every worker's local variable keeps the type it is declared
\* with in the models and in deliver_one.
THEOREM TypeCorrect == Spec => []TypeOK
<1>1. Init => TypeOK
  BY DEF Init, TypeOK, DeliveryStatus
<1>2. QED
  BY <1>1, TypeStep, PTL DEF Spec

(***************************************************************************)
(* The inductive invariant.                                                *)
(***************************************************************************)

\* One delivery at a time: a job holds the organization row.
OneJob ==
    \A w, x \in Worker : job[w] # NoJob /\ job[x] # NoJob => w = x

\* A delivery has no row until the mutation that inserts it commits.
OutboxIsTransactional ==
    \A d \in Delivery :
        /\ mutation[d[2]] # "committed" => status[d] = "absent"
        /\ status[d] = "absent" => attempts[d] = 0

\* Where the attempt counter may stand while the delivery can still be tried.
AttemptsLeft ==
    \A d \in Delivery :
        /\ IsFiniteSet(commands[d])
        /\ attempts[d] <= LifetimeAttempts
        /\ attempts[d] <= AutoAttempts + Cardinality(commands[d])
        /\ status[d] = "pending" =>
             /\ attempts[d] < LifetimeAttempts
             /\ attempts[d] < AutoAttempts + Cardinality(commands[d])

\* A POST the receiver took is recorded, lost, or about to be recorded.
BeingRecorded(d) ==
    \E w \in Worker :
        job[w] # NoJob /\ job[w].delivery = d /\ job[w].outcome = "delivered"

AcceptanceCounted ==
    \A d \in Delivery :
        accepted[d] = faults[d]
                        + (IF status[d] = "delivered" \/ BeingRecorded(d) THEN 1 ELSE 0)

IInv ==
    /\ TypeOK
    /\ OneJob
    /\ JobIsCurrent
    /\ HistoryNumbered
    /\ OutboxIsTransactional
    /\ AttemptsLeft
    /\ AcceptanceCounted

LEMMA InitInvariant == Init => IInv
<1> SUFFICES ASSUME Init PROVE IInv
  OBVIOUS
<1>1. TypeOK /\ OneJob /\ JobIsCurrent /\ OutboxIsTransactional
  BY DEF Init, TypeOK, DeliveryStatus, OneJob, JobIsCurrent, OutboxIsTransactional,
         Delivery
<1>2. HistoryNumbered
  BY DEF Init, HistoryNumbered
<1>3. AttemptsLeft
  BY FS_EmptySet DEF Init, AttemptsLeft
<1>4. AcceptanceCounted
  BY DEF Init, AcceptanceCounted, BeingRecorded
<1>5. QED
  BY <1>1, <1>2, <1>3, <1>4 DEF IInv

\* With the organization row free nobody holds a delivery in memory.
LEMMA NobodyDelivers ==
  ASSUME OrganizationFree, UNCHANGED job
  PROVE  OneJob' /\ JobIsCurrent'
BY DEF OrganizationFree, OneJob, JobIsCurrent

\* Endpoint rows, polls and transactions that are not yet committed touch
\* neither deliveries nor jobs.
LEMMA DeliveriesUntouched ==
  ASSUME IInv, UNCHANGED <<status, attempts, history, commands, job, accepted, faults>>
  PROVE  HistoryNumbered' /\ AttemptsLeft' /\ AcceptanceCounted' /\ OneJob'
BY DEF IInv, HistoryNumbered, AttemptsLeft, AcceptanceCounted, BeingRecorded, OneJob

LEMMA AdministrationStep ==
  ASSUME IInv,
         \/ \E e \in Endpoint : CreateEndpoint(e) \/ RotateSecret(e)
         \/ \E e \in Endpoint, new \in {"active", "disabled"} : SetEndpointStatus(e, new)
         \/ ArchiveOrganization
  PROVE  OneJob' /\ JobIsCurrent' /\ HistoryNumbered' /\ OutboxIsTransactional'
           /\ AttemptsLeft' /\ AcceptanceCounted'
<1>1. /\ OrganizationFree
      /\ UNCHANGED <<status, attempts, history, commands, mutation, job, accepted, faults>>
  BY DEF CreateEndpoint, RotateSecret, SetEndpointStatus, ArchiveOrganization
<1>2. OutboxIsTransactional'
  BY <1>1 DEF IInv, OutboxIsTransactional
<1>3. QED
  BY <1>1, <1>2, NobodyDelivers, DeliveriesUntouched

LEMMA CommitStep ==
  ASSUME IInv, NEW v \in Event, CommitMutation(v)
  PROVE  OneJob' /\ JobIsCurrent' /\ HistoryNumbered' /\ OutboxIsTransactional'
           /\ AttemptsLeft' /\ AcceptanceCounted'
<1> DEFINE inserted(d) == d[1] \in targets[v] /\ d[2] = v
<1>1. /\ UNCHANGED <<orgActive, endpoint, secret, attempts, history, commands, job,
                     accepted, faults>>
      /\ mutation[v] = "open"
      /\ mutation' = [mutation EXCEPT ![v] = "committed"]
  BY DEF CommitMutation
<1>2. \A d \in Delivery : status'[d] = IF inserted(d) THEN "pending" ELSE status[d]
  <2>1. \A d \in Delivery : d \in targets[v] \X {v} <=> inserted(d)
    BY DEF Delivery
  <2>2. QED
    BY <2>1 DEF CommitMutation
<1>3. \A d \in Delivery : inserted(d) => status[d] = "absent" /\ attempts[d] = 0
  BY <1>1 DEF IInv, OutboxIsTransactional
<1> HIDE DEF inserted
<1>4. OneJob' /\ HistoryNumbered'
  BY <1>1 DEF IInv, OneJob, HistoryNumbered
<1>5. JobIsCurrent'
  <2> SUFFICES ASSUME NEW w \in Worker, job[w] # NoJob
               PROVE  /\ CanReceive(job[w].delivery[1])
                      /\ job[w].version = secret[job[w].delivery[1]]
                      /\ status'[job[w].delivery] = "pending"
                      /\ job[w].attempts = attempts[job[w].delivery]
    BY <1>1 DEF JobIsCurrent, CanReceive
  <2>1. job[w].delivery \in Delivery
    BY JobType DEF IInv
  <2>2. QED
    BY <1>2, <2>1 DEF IInv, JobIsCurrent
<1>6. OutboxIsTransactional'
  <2> SUFFICES ASSUME NEW d \in Delivery
               PROVE  /\ mutation'[d[2]] # "committed" => status'[d] = "absent"
                      /\ status'[d] = "absent" => attempts[d] = 0
    BY <1>1 DEF OutboxIsTransactional
  <2>1. d[2] \in Event /\ (inserted(d) => d[2] = v)
    BY DeliveryParts DEF inserted
  <2>2. QED
    BY <1>1, <1>2, <2>1 DEF IInv, OutboxIsTransactional, TypeOK
<1>7. AttemptsLeft'
  <2> SUFFICES ASSUME NEW d \in Delivery, status'[d] = "pending", inserted(d)
               PROVE  /\ attempts[d] < LifetimeAttempts
                      /\ attempts[d] < AutoAttempts + Cardinality(commands[d])
    BY <1>1, <1>2 DEF IInv, AttemptsLeft
  <2>1. attempts[d] = 0 /\ Cardinality(commands[d]) \in Nat
    BY <1>3, FS_CardinalityType DEF IInv, AttemptsLeft
  <2>2. QED
    BY <2>1 DEF WebhooksAssumption
<1>8. AcceptanceCounted'
  <2>1. \A d \in Delivery : status'[d] = "delivered" <=> status[d] = "delivered"
    BY <1>2, <1>3
  <2>2. QED
    BY <1>1, <2>1 DEF IInv, AcceptanceCounted, BeingRecorded
<1>9. QED
  BY <1>4, <1>5, <1>6, <1>7, <1>8

\* Opening or rolling back a mutation, and polling, leave every row alone.
LEMMA QuietStep ==
  ASSUME IInv,
         \/ \E v \in Event : Enqueue(v) \/ RollBackMutation(v)
         \/ \E w \in Worker : Poll(w)
  PROVE  OneJob' /\ JobIsCurrent' /\ HistoryNumbered' /\ OutboxIsTransactional'
           /\ AttemptsLeft' /\ AcceptanceCounted'
<1>1. UNCHANGED <<rowVars, job, accepted, faults>>
  BY DEF Enqueue, RollBackMutation, Poll
<1>2. JobIsCurrent'
  BY <1>1 DEF IInv, JobIsCurrent, CanReceive, rowVars
<1>3. \A u \in Event : mutation'[u] = "committed" <=> mutation[u] = "committed"
  BY DEF Enqueue, RollBackMutation, Poll, IInv, TypeOK
<1>4. OutboxIsTransactional'
  BY <1>1, <1>3, DeliveryParts DEF IInv, OutboxIsTransactional, rowVars
<1>5. QED
  BY <1>1, <1>2, <1>4, DeliveriesUntouched DEF rowVars

LEMMA BeginStep ==
  ASSUME IInv, NEW w \in Worker, NEW d \in Delivery, Begin(w, d)
  PROVE  OneJob' /\ JobIsCurrent' /\ HistoryNumbered' /\ OutboxIsTransactional'
           /\ AttemptsLeft' /\ AcceptanceCounted'
<1>1. /\ OrganizationFree
      /\ UNCHANGED <<orgActive, endpoint, secret, attempts, due, history, commands,
                     mutation, accepted, faults>>
  BY DEF Begin
<1>2. \A x \in Worker : job[x] = NoJob
  BY <1>1 DEF OrganizationFree
<1>3. HistoryNumbered'
  BY <1>1 DEF IInv, HistoryNumbered
<1>4. CASE UNCHANGED <<status, job>>
  <2>1. OutboxIsTransactional'
    BY <1>1, <1>4 DEF IInv, OutboxIsTransactional
  <2>2. QED
    BY <1>1, <1>4, <2>1, NobodyDelivers, DeliveriesUntouched
<1>5. CASE StillDue(d) /\ status' = [status EXCEPT ![d] = "cancelled"] /\ UNCHANGED job
  <2>1. \A c \in Delivery : status'[c] = IF c = d THEN "cancelled" ELSE status[c]
    BY <1>5 DEF IInv, TypeOK
  <2>2. status[d] = "pending"
    BY <1>5 DEF StillDue, Due
  <2>3. OutboxIsTransactional'
    BY <1>1, <2>1, <2>2 DEF IInv, OutboxIsTransactional
  <2>4. AttemptsLeft'
    BY <1>1, <2>1 DEF IInv, AttemptsLeft
  <2>5. AcceptanceCounted'
    BY <1>1, <1>5, <2>1, <2>2 DEF IInv, AcceptanceCounted, BeingRecorded
  <2>6. QED
    BY <1>1, <1>3, <1>5, <2>3, <2>4, <2>5, NobodyDelivers
<1>6. CASE /\ StillDue(d)
           /\ CanReceive(d[1])
           /\ job' = [job EXCEPT ![w] =
                        [delivery |-> d, attempts |-> attempts[d],
                         version |-> secret[d[1]], outcome |-> "unsent"]]
           /\ UNCHANGED status
  <2> DEFINE new == [delivery |-> d, attempts |-> attempts[d],
                     version |-> secret[d[1]], outcome |-> "unsent"]
  <2>1. \A x \in Worker : job'[x] = IF x = w THEN new ELSE NoJob
    BY <1>2, <1>6 DEF IInv, TypeOK
  <2>2. status[d] = "pending"
    BY <1>6 DEF StillDue, Due
  <2>3. OneJob'
    BY <2>1 DEF OneJob
  <2>4. JobIsCurrent'
    <3> SUFFICES ASSUME NEW x \in Worker, job'[x] # NoJob
                 PROVE  /\ CanReceive(job'[x].delivery[1])
                        /\ job'[x].version = secret[job'[x].delivery[1]]
                        /\ status[job'[x].delivery] = "pending"
                        /\ job'[x].attempts = attempts[job'[x].delivery]
      BY <1>1, <1>6 DEF JobIsCurrent, CanReceive
    <3>1. job'[x] = new
      BY <2>1
    <3>2. QED
      BY <1>6, <2>2, <3>1
  <2>5. \A c \in Delivery : ~BeingRecorded(c) /\ ~BeingRecorded(c)'
    BY <1>2, <2>1 DEF BeingRecorded
  <2>6. AcceptanceCounted'
    BY <1>1, <1>6, <2>5 DEF IInv, AcceptanceCounted
  <2>7. OutboxIsTransactional' /\ AttemptsLeft'
    BY <1>1, <1>6 DEF IInv, OutboxIsTransactional, AttemptsLeft
  <2>8. QED
    BY <1>3, <2>3, <2>4, <2>6, <2>7
<1>7. QED
  BY <1>4, <1>5, <1>6 DEF Begin

LEMMA PostStep ==
  ASSUME IInv, NEW w \in Worker,
         NEW result \in {"delivered", "lost", "transient", "permanent"}, Post(w, result)
  PROVE  OneJob' /\ JobIsCurrent' /\ HistoryNumbered' /\ OutboxIsTransactional'
           /\ AttemptsLeft' /\ AcceptanceCounted'
<1> DEFINE d == job[w].delivery
           outcome == IF result = "lost" THEN "transient" ELSE result
<1>1. /\ job[w] # NoJob
      /\ job[w].outcome = "unsent"
      /\ UNCHANGED <<rowVars, mutation>>
  BY DEF Post
<1>2. job[w] \in Job /\ d \in Delivery
  BY <1>1, JobType DEF IInv
<1>3. \A x \in Worker : job[x] # NoJob => x = w
  BY <1>1 DEF IInv, OneJob
<1>4. /\ job'[w] = [job[w] EXCEPT !.outcome = outcome]
      /\ \A x \in Worker : x # w => job'[x] = NoJob
  BY <1>2, <1>3 DEF Post, IInv, TypeOK, Job
<1>5. /\ job'[w].delivery = d
      /\ job'[w].attempts = job[w].attempts
      /\ job'[w].version = job[w].version
      /\ job'[w].outcome = outcome
  BY <1>2, <1>4 DEF Job
<1>6. OneJob'
  BY <1>4 DEF OneJob
<1>7. JobIsCurrent'
  <2> SUFFICES ASSUME NEW x \in Worker, job'[x] # NoJob
               PROVE  /\ CanReceive(job'[x].delivery[1])
                      /\ job'[x].version = secret[job'[x].delivery[1]]
                      /\ status[job'[x].delivery] = "pending"
                      /\ job'[x].attempts = attempts[job'[x].delivery]
    BY <1>1 DEF JobIsCurrent, CanReceive, rowVars
  <2>1. x = w
    BY <1>4
  <2>2. QED
    BY <1>1, <1>5, <2>1 DEF IInv, JobIsCurrent
<1>8. HistoryNumbered' /\ OutboxIsTransactional' /\ AttemptsLeft'
  BY <1>1 DEF IInv, HistoryNumbered, OutboxIsTransactional, AttemptsLeft, rowVars
<1>9. AcceptanceCounted'
  <2>1. status[d] = "pending"
    BY <1>1 DEF IInv, JobIsCurrent
  <2>2. \A c \in Delivery : ~BeingRecorded(c)
    BY <1>1, <1>3 DEF BeingRecorded
  <2>3. NoJob # job'[w]
    BY <1>2, <1>4 DEF IInv, TypeOK, Job, Outcome
  <2>4. \A c \in Delivery : BeingRecorded(c)' <=> c = d /\ result = "delivered"
    BY <1>4, <1>5, <2>3 DEF BeingRecorded
  <2>5. \A c \in Delivery :
          /\ accepted'[c] = IF c = d /\ result \in {"delivered", "lost"}
                            THEN accepted[c] + 1 ELSE accepted[c]
          /\ faults'[c] = IF c = d /\ result = "lost" THEN faults[c] + 1 ELSE faults[c]
    BY <1>2 DEF Post, IInv, TypeOK
  <2> SUFFICES ASSUME NEW c \in Delivery
               PROVE  accepted'[c] = faults'[c]
                        + (IF status[c] = "delivered" \/ BeingRecorded(c)' THEN 1 ELSE 0)
    BY <1>1 DEF AcceptanceCounted, rowVars
  <2>6. accepted[c] = faults[c] + (IF status[c] = "delivered" THEN 1 ELSE 0)
    BY <2>2 DEF IInv, AcceptanceCounted
  <2>7. accepted[c] \in Nat /\ faults[c] \in Nat
    BY DEF IInv, TypeOK
  <2>8. QED
    BY <2>1, <2>4, <2>5, <2>6, <2>7
<1>10. QED
  BY <1>6, <1>7, <1>8, <1>9

LEMMA NumberAppended ==
  ASSUME NEW s \in Seq(Nat), NEW m \in Nat, Len(s) = m,
         \A i \in 1..Len(s) : s[i] = i
  PROVE  /\ Len(Append(s, m + 1)) = m + 1
         /\ \A i \in 1..Len(Append(s, m + 1)) : Append(s, m + 1)[i] = i
<1>1. /\ Len(Append(s, m + 1)) = m + 1
      /\ \A i \in 1..m : Append(s, m + 1)[i] = s[i]
      /\ Append(s, m + 1)[m + 1] = m + 1
  OBVIOUS
<1>2. QED
  BY <1>1

LEMMA RecordStep ==
  ASSUME IInv, NEW w \in Worker, Record(w)
  PROVE  OneJob' /\ JobIsCurrent' /\ HistoryNumbered' /\ OutboxIsTransactional'
           /\ AttemptsLeft' /\ AcceptanceCounted'
<1> DEFINE d == job[w].delivery
           n == job[w].attempts + 1
           settled == Settlement(job[w].outcome, n)
<1>1. /\ job[w] # NoJob
      /\ job[w].outcome # "unsent"
      /\ UNCHANGED <<orgActive, endpoint, secret, commands, mutation, accepted, faults>>
  BY DEF Record
<1>2. /\ d \in Delivery
      /\ job[w].attempts = attempts[d]
      /\ status[d] = "pending"
      /\ n \in Nat
  BY <1>1, JobType DEF IInv, JobIsCurrent
<1>3. \A x \in Worker : job[x] # NoJob => x = w
  BY <1>1 DEF IInv, OneJob
<1>4. \A x \in Worker : job'[x] = NoJob
  BY <1>3 DEF Record, IInv, TypeOK
<1>5. \A c \in Delivery :
        /\ attempts'[c] = IF c = d THEN n ELSE attempts[c]
        /\ history'[c] = IF c = d THEN Append(history[d], n) ELSE history[c]
        /\ status'[c] = IF c = d THEN settled ELSE status[c]
  BY <1>2 DEF Record, IInv, TypeOK
<1>6. OneJob' /\ JobIsCurrent'
  BY <1>4 DEF OneJob, JobIsCurrent
<1>7. HistoryNumbered'
  <2> SUFFICES ASSUME NEW c \in Delivery
               PROVE  /\ Len(history'[c]) = attempts'[c]
                      /\ \A i \in 1..Len(history'[c]) : history'[c][i] = i
    BY DEF HistoryNumbered
  <2>1. /\ history[c] \in Seq(Nat)
        /\ attempts[c] \in Nat
        /\ Len(history[c]) = attempts[c]
        /\ \A i \in 1..Len(history[c]) : history[c][i] = i
    BY DEF IInv, TypeOK, HistoryNumbered
  <2>2. CASE c # d
    BY <1>5, <2>1, <2>2
  <2>3. CASE c = d
    <3>1. history'[c] = Append(history[d], attempts[d] + 1) /\ attempts'[c] = attempts[d] + 1
      BY <1>2, <1>5, <2>3
    <3>2. /\ history[d] \in Seq(Nat) /\ attempts[d] \in Nat
          /\ Len(history[d]) = attempts[d]
          /\ \A i \in 1..Len(history[d]) : history[d][i] = i
      BY <2>1, <2>3
    <3>3. /\ Len(Append(history[d], attempts[d] + 1)) = attempts[d] + 1
          /\ \A i \in 1..Len(Append(history[d], attempts[d] + 1)) :
                Append(history[d], attempts[d] + 1)[i] = i
      BY <3>2, NumberAppended
    <3>4. QED
      BY <2>3, <3>1, <3>3
  <2>4. QED
    BY <2>2, <2>3
<1>8. settled \in {"pending", "delivered", "dead_letter"}
  BY SettlementType
<1>9. OutboxIsTransactional'
  BY <1>1, <1>2, <1>5, <1>8 DEF IInv, OutboxIsTransactional
<1>10. AttemptsLeft'
  <2> SUFFICES ASSUME NEW c \in Delivery
               PROVE  /\ attempts'[c] <= LifetimeAttempts
                      /\ attempts'[c] <= AutoAttempts + Cardinality(commands[c])
                      /\ status'[c] = "pending" =>
                           /\ attempts'[c] < LifetimeAttempts
                           /\ attempts'[c] < AutoAttempts + Cardinality(commands[c])
    BY <1>1 DEF IInv, AttemptsLeft
  <2>1. Cardinality(commands[c]) \in Nat /\ attempts[c] \in Nat
    BY FS_CardinalityType DEF IInv, AttemptsLeft, TypeOK
  <2>2. settled = "pending" => n < AutoAttempts
    BY <1>2 DEF Settlement
  <2>3. CASE c # d
    BY <1>5, <2>3 DEF IInv, AttemptsLeft
  <2>4. CASE c = d
    <3>1. attempts[d] < LifetimeAttempts /\ attempts[d] < AutoAttempts + Cardinality(commands[d])
      BY <1>2 DEF IInv, AttemptsLeft
    <3>2. QED
      BY <1>2, <1>5, <2>1, <2>2, <2>4, <3>1 DEF WebhooksAssumption
  <2>5. QED
    BY <2>3, <2>4
<1>11. AcceptanceCounted'
  <2>1. \A c \in Delivery : BeingRecorded(c) <=> c = d /\ job[w].outcome = "delivered"
    BY <1>1, <1>3 DEF BeingRecorded
  <2>2. \A c \in Delivery : ~BeingRecorded(c)'
    BY <1>4 DEF BeingRecorded
  <2>3. settled = "delivered" <=> job[w].outcome = "delivered"
    BY DEF Settlement
  <2>4. QED
    BY <1>1, <1>2, <1>5, <2>1, <2>2, <2>3 DEF IInv, AcceptanceCounted
<1>12. QED
  BY <1>6, <1>7, <1>9, <1>10, <1>11

LEMMA CrashStep ==
  ASSUME IInv, NEW w \in Worker, Crash(w)
  PROVE  OneJob' /\ JobIsCurrent' /\ HistoryNumbered' /\ OutboxIsTransactional'
           /\ AttemptsLeft' /\ AcceptanceCounted'
<1>1. UNCHANGED <<rowVars, mutation, accepted>>
  BY DEF Crash
<1>2. \A x \in Worker : job'[x] = IF x = w THEN NoJob ELSE job[x]
  BY DEF Crash, IInv, TypeOK
<1>3. OneJob'
  BY <1>2 DEF IInv, OneJob
<1>4. JobIsCurrent'
  BY <1>1, <1>2 DEF IInv, JobIsCurrent, CanReceive, rowVars
<1>5. HistoryNumbered' /\ OutboxIsTransactional' /\ AttemptsLeft'
  BY <1>1 DEF IInv, HistoryNumbered, OutboxIsTransactional, AttemptsLeft, rowVars
<1>6. AcceptanceCounted'
  <2> SUFFICES ASSUME NEW c \in Delivery
               PROVE  accepted[c] = faults'[c]
                        + (IF status[c] = "delivered" \/ BeingRecorded(c)' THEN 1 ELSE 0)
    BY <1>1 DEF AcceptanceCounted, rowVars
  <2>1. accepted[c] = faults[c]
                        + (IF status[c] = "delivered" \/ BeingRecorded(c) THEN 1 ELSE 0)
    BY DEF IInv, AcceptanceCounted
  <2>2. CASE job[w] # NoJob /\ job[w].outcome = "delivered" /\ job[w].delivery = c
    <3>1. faults'[c] = faults[c] + 1 /\ faults[c] \in Nat
      BY <2>2 DEF Crash, IInv, TypeOK
    <3>2. BeingRecorded(c) /\ status[c] = "pending"
      BY <2>2 DEF BeingRecorded, IInv, JobIsCurrent
    <3>3. ~BeingRecorded(c)'
      BY <1>2, <2>2 DEF BeingRecorded, IInv, OneJob
    <3>4. QED
      BY <2>1, <3>1, <3>2, <3>3
  <2>3. CASE ~(job[w] # NoJob /\ job[w].outcome = "delivered" /\ job[w].delivery = c)
    <3>1. faults'[c] = faults[c]
      BY <2>3, JobType DEF Crash, IInv, TypeOK
    <3>2. BeingRecorded(c)' <=> BeingRecorded(c)
      BY <1>2, <2>3 DEF BeingRecorded
    <3>3. QED
      BY <2>1, <3>1, <3>2
  <2>4. QED
    BY <2>2, <2>3
<1>7. QED
  BY <1>3, <1>4, <1>5, <1>6

LEMMA DueStep ==
  ASSUME IInv, NEW d \in Delivery, BecomeDue(d)
  PROVE  OneJob' /\ JobIsCurrent' /\ HistoryNumbered' /\ OutboxIsTransactional'
           /\ AttemptsLeft' /\ AcceptanceCounted'
<1>1. UNCHANGED <<orgActive, endpoint, secret, status, attempts, history, commands,
                  mutation, job, accepted, faults>>
  BY DEF BecomeDue
<1>2. JobIsCurrent' /\ OutboxIsTransactional'
  BY <1>1 DEF IInv, JobIsCurrent, CanReceive, OutboxIsTransactional
<1>3. QED
  BY <1>1, <1>2, DeliveriesUntouched

LEMMA RetryStep ==
  ASSUME IInv, NEW d \in Delivery, NEW c \in Command, RetryDelivery(d, c)
  PROVE  OneJob' /\ JobIsCurrent' /\ HistoryNumbered' /\ OutboxIsTransactional'
           /\ AttemptsLeft' /\ AcceptanceCounted'
<1>1. /\ OrganizationFree
      /\ UNCHANGED <<attempts, history, mutation, job, accepted, faults>>
      /\ status[d] \in {"dead_letter", "cancelled"}
      /\ attempts[d] < LifetimeAttempts
      /\ c \notin commands[d]
  BY DEF RetryDelivery, Retryable
<1>2. \A x \in Delivery :
        /\ status'[x] = IF x = d THEN "pending" ELSE status[x]
        /\ commands'[x] = IF x = d THEN commands[d] \cup {c} ELSE commands[x]
  BY DEF RetryDelivery, IInv, TypeOK
<1>3. OneJob' /\ JobIsCurrent'
  BY <1>1, NobodyDelivers
<1>4. HistoryNumbered'
  BY <1>1 DEF IInv, HistoryNumbered
<1>5. OutboxIsTransactional'
  BY <1>1, <1>2 DEF IInv, OutboxIsTransactional
<1>6. AttemptsLeft'
  <2>1. /\ IsFiniteSet(commands[d])
        /\ attempts[d] <= AutoAttempts + Cardinality(commands[d])
        /\ attempts[d] \in Nat
    BY DEF IInv, AttemptsLeft, TypeOK
  <2>2. /\ IsFiniteSet(commands[d] \cup {c})
        /\ Cardinality(commands[d] \cup {c}) = Cardinality(commands[d]) + 1
        /\ Cardinality(commands[d]) \in Nat
    BY <1>1, <2>1, FS_AddElement, FS_CardinalityType
  <2>3. QED
    BY <1>1, <1>2, <2>1, <2>2 DEF IInv, AttemptsLeft
<1>7. AcceptanceCounted'
  BY <1>1, <1>2 DEF IInv, AcceptanceCounted, BeingRecorded
<1>8. QED
  BY <1>3, <1>4, <1>5, <1>6, <1>7

LEMMA InvariantStep == IInv /\ [Next]_vars => IInv'
<1> SUFFICES ASSUME IInv, [Next]_vars
             PROVE  OneJob' /\ JobIsCurrent' /\ HistoryNumbered'
                      /\ OutboxIsTransactional' /\ AttemptsLeft' /\ AcceptanceCounted'
  BY TypeStep DEF IInv
<1>1. CASE UNCHANGED vars
  BY <1>1 DEF IInv, vars, rowVars, OneJob, JobIsCurrent, CanReceive, HistoryNumbered,
              OutboxIsTransactional, AttemptsLeft, AcceptanceCounted, BeingRecorded
<1>2. CASE \/ \E e \in Endpoint : CreateEndpoint(e) \/ RotateSecret(e)
           \/ \E e \in Endpoint, new \in {"active", "disabled"} : SetEndpointStatus(e, new)
           \/ ArchiveOrganization
  BY <1>2, AdministrationStep
<1>3. CASE \/ \E v \in Event : Enqueue(v) \/ RollBackMutation(v)
           \/ \E w \in Worker : Poll(w)
  BY <1>3, QuietStep
<1>4. CASE \E v \in Event : CommitMutation(v)
  BY <1>4, CommitStep
<1>5. CASE \E w \in Worker, d \in Delivery : Begin(w, d)
  BY <1>5, BeginStep
<1>6. CASE \E w \in Worker, result \in {"delivered", "lost", "transient", "permanent"} :
             Post(w, result)
  BY <1>6, PostStep
<1>7. CASE \E w \in Worker : Record(w)
  BY <1>7, RecordStep
<1>8. CASE \E w \in Worker : Crash(w)
  BY <1>8, CrashStep
<1>9. CASE \E d \in Delivery : BecomeDue(d)
  BY <1>9, DueStep
<1>10. CASE \E d \in Delivery, c \in Command : RetryDelivery(d, c)
  BY <1>10, RetryStep
<1>11. QED
  BY <1>1, <1>2, <1>3, <1>4, <1>5, <1>6, <1>7, <1>8, <1>9, <1>10 DEF Next, Work

\* The organization row lock deliver_one takes through its join keeps the
\* delivery it holds in memory current, in every reachable state.
THEOREM RowLockHolds == Spec => []IInv
BY InitInvariant, InvariantStep, PTL DEF Spec

(***************************************************************************)
(* What follows.                                                           *)
(***************************************************************************)

\* "Rotation takes effect immediately", and so does disabling an endpoint.
THEOREM JobsStayCurrent == Spec => []JobIsCurrent
<1>1. IInv => JobIsCurrent
  BY DEF IInv
<1>2. QED
  BY <1>1, RowLockHolds, PTL

\* webhook_attempt_number_unique can never be violated by deliver_one.
THEOREM HistoryStaysNumbered == Spec => []HistoryNumbered
<1>1. IInv => HistoryNumbered
  BY DEF IInv
<1>2. QED
  BY <1>1, RowLockHolds, PTL

\* The lifetime cap and the automatic cap hold for every pattern of retries,
\* cancellations and crashes.
THEOREM AttemptsStayBounded == Spec => []AttemptsBounded
<1>1. IInv => AttemptsBounded
  BY DEF IInv, AttemptsLeft, AttemptsBounded
<1>2. QED
  BY <1>1, RowLockHolds, PTL

\* At least once, and duplicates only where a success went unrecorded.
THEOREM DuplicatesAreExplained == Spec => []DuplicatesExplained
<1>1. IInv => DuplicatesExplained
  <2> SUFFICES ASSUME IInv, NEW d \in Delivery
               PROVE  /\ status[d] = "delivered" => accepted[d] >= 1
                      /\ accepted[d] <= 1 + faults[d]
    BY DEF DuplicatesExplained
  <2>1. accepted[d] \in Nat /\ faults[d] \in Nat
    BY DEF IInv, TypeOK
  <2>2. QED
    BY <2>1 DEF IInv, AcceptanceCounted
<1>2. QED
  BY <1>1, RowLockHolds, PTL

\* No stale batch, overlapping worker or retry reopens a delivered row.
THEOREM DeliveredStaysFinal == Spec => DeliveredIsFinal
<1>1. IInv /\ [Next]_vars =>
        [\A d \in Delivery : status[d] = "delivered" =>
            UNCHANGED <<status[d], attempts[d], accepted[d]>>]_vars
  <2> SUFFICES ASSUME IInv, Next, NEW d \in Delivery, status[d] = "delivered"
               PROVE  status'[d] = status[d] /\ attempts'[d] = attempts[d]
                        /\ accepted'[d] = accepted[d]
    OBVIOUS
  <2> USE DEF rowVars
  <2>1. \A w \in Worker : job[w] # NoJob => job[w].delivery # d
    BY DEF IInv, JobIsCurrent
  <2>2. CASE \/ \E e \in Endpoint : CreateEndpoint(e) \/ RotateSecret(e)
             \/ \E e \in Endpoint, new \in {"active", "disabled"} : SetEndpointStatus(e, new)
             \/ ArchiveOrganization
    BY <2>2 DEF CreateEndpoint, RotateSecret, SetEndpointStatus, ArchiveOrganization
  <2>3. CASE \/ \E v \in Event : Enqueue(v) \/ RollBackMutation(v)
             \/ \E w \in Worker : Poll(w) \/ Crash(w)
             \/ \E c \in Delivery : BecomeDue(c)
    BY <2>3 DEF Enqueue, RollBackMutation, Poll, Crash, BecomeDue
  <2>4. ASSUME NEW v \in Event, CommitMutation(v)
        PROVE  status'[d] = status[d] /\ attempts'[d] = attempts[d]
                 /\ accepted'[d] = accepted[d]
    <3>1. d \notin targets[v] \X {v}
      <4>1. d[2] # v
        BY <2>4 DEF CommitMutation, IInv, OutboxIsTransactional
      <4>2. QED
        BY <4>1
    <3>2. QED
      BY <2>4, <3>1 DEF CommitMutation
  <2>5. ASSUME NEW w \in Worker, NEW c \in Delivery, Begin(w, c)
        PROVE  status'[d] = status[d] /\ attempts'[d] = attempts[d]
                 /\ accepted'[d] = accepted[d]
    BY <2>5 DEF Begin, StillDue, Due, IInv, TypeOK
  <2>6. ASSUME NEW w \in Worker,
               NEW result \in {"delivered", "lost", "transient", "permanent"},
               Post(w, result)
        PROVE  status'[d] = status[d] /\ attempts'[d] = attempts[d]
                 /\ accepted'[d] = accepted[d]
    BY <2>1, <2>6 DEF Post, IInv, TypeOK
  <2>7. ASSUME NEW w \in Worker, Record(w)
        PROVE  status'[d] = status[d] /\ attempts'[d] = attempts[d]
                 /\ accepted'[d] = accepted[d]
    BY <2>1, <2>7 DEF Record, IInv, TypeOK
  <2>8. ASSUME NEW c \in Delivery, NEW k \in Command, RetryDelivery(c, k)
        PROVE  status'[d] = status[d] /\ attempts'[d] = attempts[d]
                 /\ accepted'[d] = accepted[d]
    BY <2>8 DEF RetryDelivery, Retryable, IInv, TypeOK
  <2>9. QED
    BY <2>2, <2>3, <2>4, <2>5, <2>6, <2>7, <2>8 DEF Next, Work
<1>2. QED
  BY <1>1, RowLockHolds, PTL DEF Spec, DeliveredIsFinal
=============================================================================
