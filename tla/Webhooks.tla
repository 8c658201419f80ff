------------------------------ MODULE Webhooks ------------------------------
(***************************************************************************)
(* The webhook outbox of one organization.                                 *)
(*                                                                         *)
(* A mutation inserts one delivery per subscribed endpoint in its own      *)
(* transaction.  Workers poll a batch of due deliveries, then take them    *)
(* one by one: deliver_one locks the endpoint (and, through the join, its  *)
(* organization), signs, POSTs and records the attempt before it commits.  *)
(* A worker that dies rolls back, although the receiver may have accepted. *)
(***************************************************************************)
EXTENDS Integers, Sequences, FiniteSets

CONSTANTS
    Endpoint,
    Event,
    Worker,
    Command,          \* Idempotency-Key values of retry requests
    Subscribers,      \* Subscribers[v]: endpoints that chose event v's type
    EndpointLimit,    \* endpoints an organization may create (10)
    BatchLimit,       \* deliveries a poll takes (10)
    AutoAttempts,     \* attempts before a delivery is a dead letter (8)
    LifetimeAttempts, \* attempts a delivery may have, retries included (32)
    DeliveryEnabled,  \* WEBHOOK_DELIVERY_ENABLED; off unless it is switched on
    MaxVersion,       \* bound: signing secrets an endpoint goes through
    MaxCrashes,       \* bound: worker deaths that are explored
    NoJob

Delivery == Endpoint \X Event
Outcome == {"unsent", "delivered", "transient", "permanent"}
Job == [delivery : Delivery, attempts : Nat, version : Nat, outcome : Outcome]

ASSUME WebhooksAssumption ==
    /\ Subscribers \in [Event -> SUBSET Endpoint]
    /\ EndpointLimit \in Nat
    /\ BatchLimit \in Nat \ {0}
    /\ AutoAttempts \in Nat \ {0}
    /\ LifetimeAttempts \in Nat
    /\ AutoAttempts <= LifetimeAttempts
    /\ DeliveryEnabled \in BOOLEAN
    /\ MaxVersion \in Nat \ {0}
    /\ MaxCrashes \in Nat
    /\ NoJob \notin Job

VARIABLES
    \* rows
    orgActive,   \* the organization is active
    endpoint,    \* endpoint[e]: absent, active or disabled
    secret,      \* secret[e]: version of its signing secret
    status,      \* status[d] of delivery d; absent while it has no row
    attempts,    \* attempts[d]
    due,         \* due[d]: next_attempt_at has come
    history,     \* history[d]: the numbers of its DeliveryAttempt rows
    commands,    \* commands[d]: retries already carried out
    \* transactions and workers
    mutation,    \* mutation[v]: the transaction that publishes event v
    targets,     \* targets[v]: endpoints it inserted a delivery for
    batch,       \* batch[w]: deliveries worker w polled and still has to take
    job,         \* job[w]: the deliver_one transaction w is in, or NoJob
    \* what happened, for the properties
    accepted,    \* accepted[d]: POSTs of d the receiver took
    faults,      \* faults[d]: those whose success was never recorded
    crashes

rowVars == <<orgActive, endpoint, secret, status, attempts, due, history, commands>>
vars == <<rowVars, mutation, targets, batch, job, accepted, faults, crashes>>

DeliveryStatus == {"absent", "pending", "delivered", "dead_letter", "cancelled"}

\* A job holds its endpoint row and the organization row FOR UPDATE.
OrganizationFree == \A w \in Worker : job[w] = NoJob
EndpointFree(e) == \A w \in Worker : job[w] # NoJob => job[w].delivery[1] # e

-----------------------------------------------------------------------------
Init ==
    /\ orgActive = TRUE
    /\ endpoint = [e \in Endpoint |-> "absent"]
    /\ secret = [e \in Endpoint |-> 1]
    /\ status = [d \in Delivery |-> "absent"]
    /\ attempts = [d \in Delivery |-> 0]
    /\ due = [d \in Delivery |-> FALSE]
    /\ history = [d \in Delivery |-> <<>>]
    /\ commands = [d \in Delivery |-> {}]
    /\ mutation = [v \in Event |-> "none"]
    /\ targets = [v \in Event |-> {}]
    /\ batch = [w \in Worker |-> {}]
    /\ job = [w \in Worker |-> NoJob]
    /\ accepted = [d \in Delivery |-> 0]
    /\ faults = [d \in Delivery |-> 0]
    /\ crashes = 0

-----------------------------------------------------------------------------
(* Endpoint administration: endpoint_for locks organization, then endpoint *)

CreateEndpoint(e) ==
    /\ OrganizationFree
    /\ orgActive
    /\ endpoint[e] = "absent"
    /\ Cardinality({f \in Endpoint : endpoint[f] # "absent"}) < EndpointLimit
    /\ endpoint' = [endpoint EXCEPT ![e] = "active"]
    /\ UNCHANGED <<orgActive, secret, status, attempts, due, history, commands,
                   mutation, targets, batch, job, accepted, faults, crashes>>

SetEndpointStatus(e, new) ==
    /\ OrganizationFree
    /\ endpoint[e] # "absent"
    /\ new = "active" => orgActive
    /\ endpoint' = [endpoint EXCEPT ![e] = new]
    /\ UNCHANGED <<orgActive, secret, status, attempts, due, history, commands,
                   mutation, targets, batch, job, accepted, faults, crashes>>

\* (_Unlocked: as if it did not wait for the row; _Any further down: as if a
\* retry were refused less often.)
RotateSecret_Unlocked(e) ==
    /\ endpoint[e] # "absent"
    /\ secret[e] < MaxVersion
    /\ secret' = [secret EXCEPT ![e] = @ + 1]
    /\ UNCHANGED <<orgActive, endpoint, status, attempts, due, history, commands,
                   mutation, targets, batch, job, accepted, faults, crashes>>
RotateSecret(e) ==
    /\ OrganizationFree
    /\ endpoint[e] # "absent"
    /\ secret[e] < MaxVersion
    /\ secret' = [secret EXCEPT ![e] = @ + 1]
    /\ UNCHANGED <<orgActive, endpoint, status, attempts, due, history, commands,
                   mutation, targets, batch, job, accepted, faults, crashes>>

ArchiveOrganization ==
    /\ OrganizationFree
    /\ orgActive
    /\ orgActive' = FALSE
    /\ UNCHANGED <<endpoint, secret, status, attempts, due, history, commands,
                   mutation, targets, batch, job, accepted, faults, crashes>>

-----------------------------------------------------------------------------
(* Publishing: enqueue_event runs inside the transaction of the mutation   *)

\* It reads the active subscribed endpoints without a lock and inserts a
\* delivery for each; nothing is visible before the mutation commits.
Enqueue(v) ==
    /\ mutation[v] = "none"
    /\ mutation' = [mutation EXCEPT ![v] = "open"]
    /\ targets' = [targets EXCEPT ![v] = {e \in Subscribers[v] : endpoint[e] = "active"}]
    /\ UNCHANGED <<rowVars, batch, job, accepted, faults, crashes>>

\* At commit the deferred foreign keys take FOR KEY SHARE on the endpoints,
\* which a delivery in flight holds FOR UPDATE.
CommitMutation(v) ==
    LET rows == targets[v] \X {v}
    IN  /\ mutation[v] = "open"
        /\ \A e \in targets[v] : EndpointFree(e)
        /\ mutation' = [mutation EXCEPT ![v] = "committed"]
        /\ status' = [d \in Delivery |-> IF d \in rows THEN "pending" ELSE status[d]]
        /\ due' = [d \in Delivery |-> d \in rows \/ due[d]]
        /\ UNCHANGED <<orgActive, endpoint, secret, attempts, history, commands,
                       targets, batch, job, accepted, faults, crashes>>

RollBackMutation(v) ==
    /\ mutation[v] = "open"
    /\ mutation' = [mutation EXCEPT ![v] = "rolled_back"]
    /\ UNCHANGED <<rowVars, targets, batch, job, accepted, faults, crashes>>

-----------------------------------------------------------------------------
(* Delivery                                                                *)

\* (_Automatic: as if polls left out what has used up its automatic attempts.)
Due_Automatic(d) == status[d] = "pending" /\ due[d] /\ attempts[d] < AutoAttempts
Due(d) == status[d] = "pending" /\ due[d]

\* deliver_pending: the identifiers of up to BatchLimit due deliveries.
Poll(w) ==
    LET ready == {d \in Delivery : Due(d)}
    IN  /\ DeliveryEnabled
        /\ batch[w] = {}
        /\ job[w] = NoJob
        /\ ready # {}
        /\ \E taken \in SUBSET ready :
             /\ Cardinality(taken) <= BatchLimit
             /\ taken = ready \/ Cardinality(taken) = BatchLimit
             /\ batch' = [batch EXCEPT ![w] = taken]
        /\ UNCHANGED <<rowVars, mutation, targets, job, accepted, faults, crashes>>

\* deliver_one, up to the POST: lock, recheck what the poll saw, cancel when
\* the endpoint or the organization is off, or start an attempt.
\* (_Stale: as if the polled status were not read again under the lock.)
StillDue_Stale(d) == status[d] # "absent"
StillDue(d) == Due(d)

CanReceive(e) == endpoint[e] = "active" /\ orgActive

Begin(w, d) ==
    /\ job[w] = NoJob
    /\ d \in batch[w]
    /\ OrganizationFree
    /\ batch' = [batch EXCEPT ![w] = @ \ {d}]
    /\ \/ /\ ~DeliveryEnabled \/ ~StillDue(d)
          /\ UNCHANGED <<status, job>>
       \/ /\ DeliveryEnabled
          /\ StillDue(d)
          /\ ~CanReceive(d[1])
          /\ status' = [status EXCEPT ![d] = "cancelled"]
          /\ UNCHANGED job
       \/ /\ DeliveryEnabled
          /\ StillDue(d)
          /\ CanReceive(d[1])
          /\ job' = [job EXCEPT ![w] =
                       [delivery |-> d, attempts |-> attempts[d],
                        version |-> secret[d[1]], outcome |-> "unsent"]]
          /\ UNCHANGED status
    /\ UNCHANGED <<orgActive, endpoint, secret, attempts, due, history, commands,
                   mutation, targets, accepted, faults, crashes>>

\* The POST.  "lost": the receiver took it, but no 2xx came back.  Transient:
\* 408, 429, 5xx or no connection; permanent: another 3xx or 4xx, an unsafe
\* destination or an undecryptable secret.
Post(w, result) ==
    LET d == job[w].delivery
    IN  /\ job[w] # NoJob
        /\ job[w].outcome = "unsent"
        /\ job' = [job EXCEPT ![w].outcome =
                     IF result = "lost" THEN "transient" ELSE result]
        /\ accepted' = IF result \in {"delivered", "lost"}
                       THEN [accepted EXCEPT ![d] = @ + 1] ELSE accepted
        /\ faults' = IF result = "lost" THEN [faults EXCEPT ![d] = @ + 1] ELSE faults
        /\ UNCHANGED <<rowVars, mutation, targets, batch, crashes>>

\* What attempt number n with this outcome leaves behind.
\* (_OffByOne: as if one attempt more were automatic.)
Settlement_OffByOne(outcome, n) ==
    CASE outcome = "delivered" -> "delivered"
      [] outcome = "permanent" -> "dead_letter"
      [] OTHER -> IF n > AutoAttempts THEN "dead_letter" ELSE "pending"
Settlement(outcome, n) ==
    CASE outcome = "delivered" -> "delivered"
      [] outcome = "permanent" -> "dead_letter"
      [] OTHER -> IF n >= AutoAttempts THEN "dead_letter" ELSE "pending"

\* The attempt, its history row and the new state of the delivery commit.
Record(w) ==
    LET d == job[w].delivery
        n == job[w].attempts + 1
    IN  /\ job[w] # NoJob
        /\ job[w].outcome # "unsent"
        /\ attempts' = [attempts EXCEPT ![d] = n]
        /\ history' = [history EXCEPT ![d] = Append(@, n)]
        /\ status' = [status EXCEPT ![d] = Settlement(job[w].outcome, n)]
        /\ due' = [due EXCEPT ![d] = @ /\ Settlement(job[w].outcome, n) # "pending"]
        /\ job' = [job EXCEPT ![w] = NoJob]
        /\ UNCHANGED <<orgActive, endpoint, secret, commands, mutation, targets,
                       batch, accepted, faults, crashes>>

\* The worker dies, its time limit strikes or its transaction fails: nothing
\* of the attempt is kept, and the rest of the batch is left for a later poll.
Crash(w) ==
    /\ crashes < MaxCrashes
    /\ job[w] # NoJob \/ batch[w] # {}
    /\ crashes' = crashes + 1
    /\ faults' = IF job[w] # NoJob /\ job[w].outcome = "delivered"
                 THEN [faults EXCEPT ![job[w].delivery] = @ + 1] ELSE faults
    /\ job' = [job EXCEPT ![w] = NoJob]
    /\ batch' = [batch EXCEPT ![w] = {}]
    /\ UNCHANGED <<rowVars, mutation, targets, accepted>>

\* The back-off of a rescheduled delivery has passed.
BecomeDue(d) ==
    /\ status[d] = "pending"
    /\ ~due[d]
    /\ due' = [due EXCEPT ![d] = TRUE]
    /\ UNCHANGED <<orgActive, endpoint, secret, status, attempts, history, commands,
                   mutation, targets, batch, job, accepted, faults, crashes>>

\* retry_delivery; a command already carried out changes nothing.
Retryable_Any(d) == status[d] \in {"dead_letter", "cancelled", "delivered"}
Retryable(d) ==
    status[d] \in {"dead_letter", "cancelled"} /\ attempts[d] < LifetimeAttempts

RetryDelivery(d, c) ==
    /\ OrganizationFree
    /\ CanReceive(d[1])
    /\ c \notin commands[d]
    /\ Retryable(d)
    /\ status' = [status EXCEPT ![d] = "pending"]
    /\ due' = [due EXCEPT ![d] = TRUE]
    /\ commands' = [commands EXCEPT ![d] = @ \cup {c}]
    /\ UNCHANGED <<orgActive, endpoint, secret, attempts, history, mutation,
                   targets, batch, job, accepted, faults, crashes>>

-----------------------------------------------------------------------------
Work(w) ==
    \/ Poll(w)
    \/ \E d \in Delivery : Begin(w, d)
    \/ \E result \in {"delivered", "lost", "transient", "permanent"} : Post(w, result)
    \/ Record(w)

Next ==
    \/ \E e \in Endpoint : CreateEndpoint(e) \/ RotateSecret(e)
    \/ \E e \in Endpoint, new \in {"active", "disabled"} : SetEndpointStatus(e, new)
    \/ ArchiveOrganization
    \/ \E v \in Event : Enqueue(v) \/ CommitMutation(v) \/ RollBackMutation(v)
    \/ \E w \in Worker : Work(w) \/ Crash(w)
    \/ \E d \in Delivery : BecomeDue(d)
    \/ \E d \in Delivery, c \in Command : RetryDelivery(d, c)

Spec == Init /\ [][Next]_vars

\* Beat starts a poll every ten seconds, a worker that has not died runs on
\* (the POST times out), and time passes.
FairSpec ==
    /\ Spec
    /\ \A w \in Worker : WF_vars(Work(w))
    /\ \A d \in Delivery : WF_vars(BecomeDue(d))

-----------------------------------------------------------------------------
(* Properties                                                              *)

\* The type of every variable.
TypeOK ==
    /\ orgActive \in BOOLEAN
    /\ endpoint \in [Endpoint -> {"absent", "active", "disabled"}]
    /\ secret \in [Endpoint -> Nat]
    /\ status \in [Delivery -> DeliveryStatus]
    /\ attempts \in [Delivery -> Nat]
    /\ due \in [Delivery -> BOOLEAN]
    /\ history \in [Delivery -> Seq(Nat)]
    /\ commands \in [Delivery -> SUBSET Command]
    /\ mutation \in [Event -> {"none", "open", "committed", "rolled_back"}]
    /\ targets \in [Event -> SUBSET Endpoint]
    /\ batch \in [Worker -> SUBSET Delivery]
    /\ job \in [Worker -> Job \cup {NoJob}]
    /\ accepted \in [Delivery -> Nat]
    /\ faults \in [Delivery -> Nat]
    /\ crashes \in 0..MaxCrashes

\* "Signing-secret rotation takes effect immediately, including queued
\* deliveries", and so does disabling: from the recheck to the commit of an
\* attempt its endpoint can receive, the signature is under the current secret
\* and the delivery is as the worker read it, whatever its poll had seen.
JobIsCurrent ==
    \A w \in Worker : job[w] # NoJob =>
        LET d == job[w].delivery
        IN  /\ CanReceive(d[1])
            /\ job[w].version = secret[d[1]]
            /\ status[d] = "pending"
            /\ job[w].attempts = attempts[d]

\* Overlapping workers, crashes and retries leave one history row for each
\* attempt: no number is skipped or used twice.
HistoryNumbered ==
    \A d \in Delivery :
        /\ Len(history[d]) = attempts[d]
        /\ \A i \in 1..Len(history[d]) : history[d][i] = i

\* The lifetime cap holds, and past the automatic attempts every further one
\* was asked for by a retry of its own.
AttemptsBounded ==
    \A d \in Delivery :
        /\ attempts[d] <= LifetimeAttempts
        /\ attempts[d] <= AutoAttempts + Cardinality(commands[d])

\* Delivery is at least once: a delivered row was accepted, and a receiver sees
\* a POST again only if the success of an earlier one was never recorded.
DuplicatesExplained ==
    \A d \in Delivery :
        /\ status[d] = "delivered" => accepted[d] >= 1
        /\ accepted[d] <= 1 + faults[d]

\* A delivered row never changes again: no stale batch and no retry reopens it.
DeliveredIsFinal ==
    [][\A d \in Delivery : status[d] = "delivered" =>
          UNCHANGED <<status[d], attempts[d], accepted[d]>>]_vars

\* Where delivery is switched on, every queued delivery is settled in the end, by
\* success, by giving up or by cancellation, although workers may die and
\* administrators interfere.
EveryDeliverySettles ==
    DeliveryEnabled =>
        \A d \in Delivery : status[d] = "pending" ~> status[d] # "pending"
=============================================================================
