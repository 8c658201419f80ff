--------------------------- MODULE InvitationQueue ---------------------------
(***************************************************************************)
(* The mailing of the invitations of several organizations.                *)
(*                                                                         *)
(* A delivery run reads the identifiers of the Batch rows that are due     *)
(* longest, without a lock, and works through them; each row is looked at  *)
(* again, mailed and saved in a transaction that holds its tenant.  Rows   *)
(* of an archived tenant are passed over and stay as they are.             *)
(***************************************************************************)
EXTENDS Integers, Sequences, FiniteSets

CONSTANTS
    Worker,        \* processes that run deliver_pending_invitations
    Tenant,
    Invitation,    \* identifiers of invitations
    Batch,         \* rows of one run; 25 in the code
    MaxAttempts,   \* deliveries of a row that are tried; 5 in the code
    MaxCrash,      \* bound: runs that are lost
    NoInvitation

Row == [tenant : Tenant, open : BOOLEAN, expired : BOOLEAN, sent : BOOLEAN,
        attempts : 0..MaxAttempts]

ASSUME InvitationQueueAssumption ==
    /\ Batch \in Nat \ {0}
    /\ MaxAttempts \in Nat \ {0}
    /\ MaxCrash \in Nat
    /\ NoInvitation \notin Row

VARIABLES
    active,      \* the tenants that are not archived
    row,         \* row[i]: its row, or NoInvitation
    order,       \* the rows whose next_attempt_at has come, oldest first
    todo,        \* todo[w]: what is left of worker w's batch
    stage,       \* stage[w]: where w is with the first of them
    crashes,
    copies,      \* copies[i]: mails for i the server accepted
    unrecorded   \* unrecorded[i]: those of them that sent_at does not account for

queueVars == <<active, row, order, todo, stage, crashes, copies, unrecorded>>

Stage == {"reading", "sending", "accepted", "refused"}
AtHand(w) == Head(todo[w])
Holds(w, t) == stage[w] # "reading" /\ row[AtHand(w)].tenant = t
\* (_Unlocked: as if the tenant were read without select_for_update.)
TenantFree_Unlocked(t) == TRUE
TenantFree(t) == \A w \in Worker : ~Holds(w, t)

\* What is left of s when only the members of S stay.
Selected(s, S) ==
    LET kept[n \in 0..Len(s)] ==
          IF n = 0 THEN <<>>
          ELSE IF s[n] \in S THEN Append(kept[n - 1], s[n]) ELSE kept[n - 1]
    IN kept[Len(s)]

QueueInit ==
    /\ active = Tenant
    /\ row = [i \in Invitation |-> NoInvitation]
    /\ order = <<>>
    /\ todo = [w \in Worker |-> <<>>]
    /\ stage = [w \in Worker |-> "reading"]
    /\ crashes = 0
    /\ copies = [i \in Invitation |-> 0]
    /\ unrecorded = [i \in Invitation |-> 0]

-----------------------------------------------------------------------------
(* Commands and time                                                       *)

\* invite_member: the invitation already open for the same address, if there is
\* one, is revoked.
OpenAt(t) == {j \in Invitation : row[j] # NoInvitation /\ row[j].tenant = t /\ row[j].open}
Invite(i, t, same) ==
    /\ row[i] = NoInvitation
    /\ t \in active
    /\ TenantFree(t)
    /\ same \subseteq OpenAt(t) /\ Cardinality(same) <= 1
    /\ row' = [j \in Invitation |->
         IF j = i THEN [tenant |-> t, open |-> TRUE, expired |-> FALSE, sent |-> FALSE,
                        attempts |-> 0]
         ELSE IF j \in same THEN [row[j] EXCEPT !.open = FALSE] ELSE row[j]]
    /\ order' = Append(order, i)
    /\ UNCHANGED <<active, todo, stage, crashes, copies, unrecorded>>

\* accept_invitation, revoke_invitation
Close(i) ==
    /\ row[i] # NoInvitation
    /\ row[i].open
    /\ row[i].tenant \in active
    /\ TenantFree(row[i].tenant)
    /\ row' = [row EXCEPT ![i].open = FALSE]
    /\ UNCHANGED <<active, order, todo, stage, crashes, copies, unrecorded>>

\* The invitations are left as they are.
ArchiveOrganization(t) ==
    /\ t \in active
    /\ TenantFree(t)
    /\ active' = active \ {t}
    /\ UNCHANGED <<row, order, todo, stage, crashes, copies, unrecorded>>

Expire(i) ==
    /\ row[i] # NoInvitation
    /\ ~row[i].expired
    /\ row' = [row EXCEPT ![i].expired = TRUE]
    /\ UNCHANGED <<active, order, todo, stage, crashes, copies, unrecorded>>

Listed(i) == \E k \in DOMAIN order : order[k] = i
BackOffEnds(i) ==
    /\ row[i] # NoInvitation
    /\ row[i].open
    /\ ~row[i].sent
    /\ ~Listed(i)
    /\ order' = Append(order, i)
    /\ UNCHANGED <<active, row, todo, stage, crashes, copies, unrecorded>>

-----------------------------------------------------------------------------
(* Delivery                                                                *)

Due(i) ==
    /\ Listed(i)
    /\ row[i].open
    /\ ~row[i].expired
    /\ ~row[i].sent
    /\ row[i].attempts < MaxAttempts

DueRows == Selected(order, {i \in Invitation : Due(i)})
ReadBatch(w) ==
    /\ todo[w] = <<>>
    /\ DueRows # <<>>
    /\ todo' = [todo EXCEPT ![w] = SubSeq(DueRows, 1,
                  IF Len(DueRows) < Batch THEN Len(DueRows) ELSE Batch)]
    /\ UNCHANGED <<active, row, order, stage, crashes, copies, unrecorded>>

\* deliver_invitation, under the locks of tenant and row.
\* (_Stale: as if the row were taken as the batch had read it.)
Sends_Stale(i) == row[i].tenant \in active
Sends(i) == Due(i) /\ row[i].tenant \in active

Look(w) ==
    /\ todo[w] # <<>>
    /\ stage[w] = "reading"
    /\ TenantFree(row[AtHand(w)].tenant)
    /\ IF Sends(AtHand(w))
       THEN stage' = [stage EXCEPT ![w] = "sending"] /\ UNCHANGED todo
       ELSE todo' = [todo EXCEPT ![w] = Tail(@)] /\ UNCHANGED stage
    /\ UNCHANGED <<active, row, order, crashes, copies, unrecorded>>

Refuse(w) ==
    /\ stage[w] = "sending"
    /\ stage' = [stage EXCEPT ![w] = "refused"]
    /\ UNCHANGED <<active, row, order, todo, crashes, copies, unrecorded>>

\* The reply may be lost: then the worker takes the mail for refused.
Transmit(w, outcome) ==
    /\ stage[w] = "sending"
    /\ stage' = [stage EXCEPT ![w] = outcome]
    /\ copies' = [copies EXCEPT ![AtHand(w)] = @ + 1]
    /\ unrecorded' = IF outcome = "accepted" THEN unrecorded
                     ELSE [unrecorded EXCEPT ![AtHand(w)] = @ + 1]
    /\ UNCHANGED <<active, row, order, todo, crashes>>

Tried(w) == [row EXCEPT ![AtHand(w)].attempts = @ + 1,
                        ![AtHand(w)].sent = (stage[w] = "accepted")]
\* (_Immediate: as if a failed row kept its next_attempt_at and its count.)
Recorded_Immediate(w) ==
    /\ row' = IF stage[w] = "accepted" THEN Tried(w) ELSE row
    /\ UNCHANGED order
\* next_attempt_at moves into the future.
Recorded(w) ==
    /\ row' = Tried(w)
    /\ order' = Selected(order, Invitation \ {AtHand(w)})

Save(w) ==
    /\ stage[w] \in {"accepted", "refused"}
    /\ Recorded(w)
    /\ todo' = [todo EXCEPT ![w] = Tail(@)]
    /\ stage' = [stage EXCEPT ![w] = "reading"]
    /\ UNCHANGED <<active, crashes, copies, unrecorded>>

\* The run is lost with the transaction it is in; what it saved before stays.
Crash(w) ==
    /\ todo[w] # <<>>
    /\ crashes < MaxCrash
    /\ crashes' = crashes + 1
    /\ unrecorded' = IF stage[w] = "accepted"
                     THEN [unrecorded EXCEPT ![AtHand(w)] = @ + 1] ELSE unrecorded
    /\ todo' = [todo EXCEPT ![w] = <<>>]
    /\ stage' = [stage EXCEPT ![w] = "reading"]
    /\ UNCHANGED <<active, row, order, copies>>

-----------------------------------------------------------------------------
Proceed(w) ==
    \/ Look(w) \/ Refuse(w) \/ Save(w)
    \/ \E outcome \in {"accepted", "refused"} : Transmit(w, outcome)

QueueNext ==
    \/ \E i \in Invitation :
         \/ \E t \in Tenant, same \in SUBSET Invitation : Invite(i, t, same)
         \/ Close(i) \/ Expire(i) \/ BackOffEnds(i)
    \/ \E t \in Tenant : ArchiveOrganization(t)
    \/ \E w \in Worker : ReadBatch(w) \/ Proceed(w) \/ Crash(w)

QueueSpec == QueueInit /\ [][QueueNext]_queueVars

\* The beat starts a run every 30 seconds on whichever worker is free, and a
\* run goes on: SMTP and the tenant locks have timeouts.
QueueFairSpec ==
    /\ QueueSpec
    /\ WF_queueVars(\E w \in Worker : ReadBatch(w))
    /\ \A w \in Worker : WF_queueVars(Proceed(w))

-----------------------------------------------------------------------------
\* Every row, batch and counter has its type; no identifier is listed twice.
QueueTypeOK ==
    /\ active \subseteq Tenant
    /\ row \in [Invitation -> Row \cup {NoInvitation}]
    /\ order \in Seq(Invitation)
    /\ \A j, k \in DOMAIN order : order[j] = order[k] => j = k
    /\ todo \in [Worker -> Seq(Invitation)]
    /\ stage \in [Worker -> Stage]
    /\ \A w \in Worker : stage[w] # "reading" => todo[w] # <<>>
    /\ crashes \in 0..MaxCrash
    /\ copies \in [Invitation -> Nat]
    /\ unrecorded \in [Invitation -> Nat]

Accepting(i) == {w \in Worker : stage[w] = "accepted" /\ AtHand(w) = i}

\* Overlapping runs with the same identifiers in their batches mail each
\* invitation once, whatever the other run has saved in between: every accepted
\* mail is recorded, about to be, or lost with a transaction or a reply.
InvitationsRecorded ==
    \A i \in Invitation :
        copies[i] = unrecorded[i] + Cardinality(Accepting(i))
                    + (IF row[i] # NoInvitation /\ row[i].sent THEN 1 ELSE 0)

\* No invitation leaves once its organization is archived or it was revoked: the
\* tenant stays locked from the check to the SMTP dialogue.
MailedWhileActive ==
    [][\A i \in Invitation :
          copies'[i] # copies[i] => row[i].tenant \in active /\ row[i].open]_queueVars

\* Rows of archived tenants before i in the order: they stay due until they expire.
Idlers(i) ==
    {k \in DOMAIN order : /\ Due(order[k])
                          /\ row[order[k]].tenant \notin active
                          /\ \A j \in 1..k : order[j] # i}

Waiting(i) == row[i] # NoInvitation /\ Due(i) /\ row[i].tenant \in active

\* A due invitation of an active organization is tried, unless as many rows of
\* archived organizations as make a batch are due before it: those fill every
\* batch until they expire, and nothing but that keeps an invitation waiting.
OnlyArchivedStarve ==
    \A i \in Invitation :
        Waiting(i) ~> (~Waiting(i) \/ Cardinality(Idlers(i)) >= Batch)
=============================================================================
