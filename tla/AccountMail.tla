----------------------------- MODULE AccountMail -----------------------------
(***************************************************************************)
(* The verification and password-reset links of one account, and the       *)
(* workers that mail them.                                                 *)
(*                                                                         *)
(* A command (registration, a request for a link, a link that is followed, *)
(* a password change) locks the user row, decides and commits: one action. *)
(* A delivery locks the user and the row of the link as well, but talks to *)
(* the SMTP server while it holds them, and what the server accepted stays *)
(* accepted when the transaction is lost.                                  *)
(*                                                                         *)
(* Password hashes are numbered in the order they are set.  Time is what   *)
(* the code compares it with: a row is expired or not, backs off or not,   *)
(* and is younger than the cooldown, than an hour, or neither.             *)
(***************************************************************************)
EXTENDS Integers, Sequences, FiniteSets

CONSTANTS
    Worker,        \* processes that run the delivery tasks
    Address,       \* addresses the account may have
    MaxRow,        \* bound: links that are issued
    MaxPassword,   \* bound: passwords the account goes through
    MaxAttempts,   \* deliveries of a row that are tried; 5 in the code
    HourlyLimit,   \* links of a kind within an hour; 5 in the code
    MaxCrash       \* bound: transactions of a worker that are lost

Kind == {"verify", "reset"}
Account == [status : {"none", "pending", "active", "disabled"}, email : Address,
            verified : BOOLEAN, password : 1..MaxPassword]

\* An EmailVerificationToken or a PasswordResetRequest.  A verification row is
\* bound to the email, a reset row to the credential and the email: its hash is
\* of password, email and the time of the verification, which is set once.
Row == [kind : Kind, state : {"open", "consumed", "invalidated"}, expired : BOOLEAN,
        email : Address, credential : 1..MaxPassword, sent : BOOLEAN,
        attempts : 0..MaxAttempts, waits : BOOLEAN, age : {"new", "recent", "old"}]

\* A link as the mail carries it: the row, and the hash its signature is bound to.
Link == [row : 1..MaxRow, to : Address, password : 1..MaxPassword]

\* picked: chosen without a lock.  The later stages hold the user row.
Locked == {"sending", "accepted", "refused"}
Job == [stage : {"idle", "picked"} \cup Locked, row : 0..MaxRow]

ASSUME AccountMailAssumption ==
    /\ Address # {}
    /\ MaxRow \in Nat
    /\ MaxPassword \in Nat \ {0}
    /\ MaxAttempts \in Nat \ {0}
    /\ HourlyLimit \in Nat \ {0}
    /\ MaxCrash \in Nat

VARIABLES
    account,    \* the user row
    rows,       \* the rows of both kinds in the order they are created
    job,        \* job[w]: what worker w is doing
    inbox,      \* links the SMTP server accepted
    \* for the bound, and for the properties
    crashes,    \* transactions lost so far
    copies,     \* copies[r]: mails for row r the server accepted
    unrecorded  \* unrecorded[r]: those of them no committed row accounts for

counts == <<crashes, copies, unrecorded>>
vars == <<account, rows, job, inbox, counts>>

Rows == 1..Len(rows)
Idle == [stage |-> "idle", row |-> 0]
UserFree == \A w \in Worker : job[w].stage \notin Locked

NewRow(kind) ==
    [kind |-> kind, state |-> "open", expired |-> FALSE, email |-> account.email,
     credential |-> account.password, sent |-> FALSE, attempts |-> 0, waits |-> FALSE,
     age |-> "new"]

Init ==
    /\ account \in {a \in Account : a.status = "none" /\ ~a.verified /\ a.password = 1}
    /\ rows = <<>>
    /\ job = [w \in Worker |-> Idle]
    /\ inbox = {}
    /\ crashes = 0
    /\ copies = [r \in 1..MaxRow |-> 0]
    /\ unrecorded = [r \in 1..MaxRow |-> 0]

-----------------------------------------------------------------------------
(* Links                                                                   *)

Open(r) == rows[r].state = "open"
OpenRows(kind) == {r \in Rows : rows[r].kind = kind /\ Open(r)}
Closed(R) == [r \in Rows |-> IF r \in R THEN [rows[r] EXCEPT !.state = "invalidated"]
                             ELSE rows[r]]

\* A new link of a kind closes those that are still open, expired ones too.
Issued(kind) == Append(Closed(OpenRows(kind)), NewRow(kind))

\* One link a minute, and HourlyLimit within the hour.
MayIssue(kind) ==
    /\ Len(rows) < MaxRow
    /\ \A r \in Rows : rows[r].kind = kind => rows[r].age # "new"
    /\ Cardinality({r \in Rows : rows[r].kind = kind /\ rows[r].age = "recent"})
         < HourlyLimit

\* Who may be sent, and may use, a link of each kind.
Eligible(kind) ==
    IF kind = "verify" THEN account.status \in {"pending", "active"} /\ ~account.verified
    ELSE account.status = "active" /\ account.verified

\* The account still is what the row was issued for (credential_hash).
Bound(r) ==
    /\ rows[r].email = account.email
    /\ rows[r].kind = "reset" => rows[r].credential = account.password

\* register_user: the account, its first link and their audit events together.
Register ==
    /\ account.status = "none"
    /\ Len(rows) < MaxRow
    /\ account' = [account EXCEPT !.status = "pending"]
    /\ rows' = Issued("verify")
    /\ UNCHANGED <<job, inbox, counts>>

\* create_user, createsuperuser and the administration: active, never verified.
CreateUser ==
    /\ account.status = "none"
    /\ account' = [account EXCEPT !.status = "active"]
    /\ UNCHANGED <<rows, job, inbox, counts>>

\* request_email_verification, request_password_reset
RequestLink(kind) ==
    /\ UserFree
    /\ Eligible(kind)
    /\ MayIssue(kind)
    /\ rows' = Issued(kind)
    /\ UNCHANGED <<account, job, inbox, counts>>

\* The row a link names may still be used.
Usable(r) ==
    /\ Open(r)
    /\ ~rows[r].expired
    /\ Eligible(rows[r].kind)

\* (_AnyAddress: as if the address of the row were not compared.)
Verifies_AnyAddress(link) ==
    /\ rows[link.row].kind = "verify"
    /\ link.password = account.password
    /\ Usable(link.row)
Verifies(link) ==
    /\ rows[link.row].kind = "verify"
    /\ link.password = account.password
    /\ Usable(link.row)
    /\ rows[link.row].email = account.email

VerifyEmail(link) ==
    /\ UserFree
    /\ Verifies(link)
    /\ rows' = [rows EXCEPT ![link.row].state = "consumed"]
    /\ account' = [account EXCEPT !.verified = TRUE, !.status = "active"]
    /\ UNCHANGED <<job, inbox, counts>>

\* _replace_password: a new hash, and the reset links still open are closed.
ReplacePassword(current) ==
    /\ account.password < MaxPassword
    /\ account' = [account EXCEPT !.password = @ + 1]
    /\ rows' = current
    /\ UNCHANGED <<job, inbox, counts>>

ResetPassword(link) ==
    /\ UserFree
    /\ rows[link.row].kind = "reset"
    /\ Usable(link.row)
    /\ Bound(link.row)
    /\ link.password = rows[link.row].credential
    /\ ReplacePassword([Closed(OpenRows("reset")) EXCEPT ![link.row].state = "consumed"])

ChangePassword ==
    /\ UserFree
    /\ Eligible("reset")
    /\ ReplacePassword(Closed(OpenRows("reset")))

-----------------------------------------------------------------------------
(* Delivery                                                                *)

Due(r) ==
    /\ Open(r)
    /\ ~rows[r].sent
    /\ ~rows[r].expired
    /\ ~rows[r].waits
    /\ rows[r].attempts < MaxAttempts

\* deliver_pending_*: the ids of the batch are read without a lock.
Pick(w, r) ==
    /\ job[w] = Idle
    /\ Due(r)
    /\ job' = [job EXCEPT ![w] = [stage |-> "picked", row |-> r]]
    /\ UNCHANGED <<account, rows, inbox, counts>>

\* deliver_*, under the locks of user and row: the row is looked at again.
\* (_Stale: as if the row read with the batch were trusted.)
StillDue_Stale(r) == Open(r)
StillDue(r) == Due(r)

Deliverable(r) ==
    /\ Eligible(rows[r].kind)
    /\ Bound(r)

Done(w) == job' = [job EXCEPT ![w] = Idle]

Skip(w) ==
    /\ job[w].stage = "picked"
    /\ UserFree
    /\ ~StillDue(job[w].row)
    /\ Done(w)
    /\ UNCHANGED <<account, rows, inbox, counts>>

\* A link that could not be used any more is closed instead of sent.
Drop(w) ==
    LET r == job[w].row
    IN  /\ job[w].stage = "picked"
        /\ UserFree
        /\ StillDue(r)
        /\ ~Deliverable(r)
        /\ rows' = Closed({r})
        /\ Done(w)
        /\ UNCHANGED <<account, inbox, counts>>

\* (_Unlocked: as if the user row were read without select_for_update.)
MayDeliver_Unlocked(r) == StillDue(r) /\ Deliverable(r)
\* (_Unchecked: as if what became of the account were not looked at.)
MayDeliver_Unchecked(r) == UserFree /\ StillDue(r)
MayDeliver(r) == UserFree /\ StillDue(r) /\ Deliverable(r)

Begin(w) ==
    /\ job[w].stage = "picked"
    /\ MayDeliver(job[w].row)
    /\ job' = [job EXCEPT ![w].stage = "sending"]
    /\ UNCHANGED <<account, rows, inbox, counts>>

\* A verification link is signed under the hash as it is now and goes to the
\* address of the row; a reset link is bound to its row and goes to the account.
LinkOf(r) ==
    IF rows[r].kind = "verify"
    THEN [row |-> r, to |-> rows[r].email, password |-> account.password]
    ELSE [row |-> r, to |-> account.email, password |-> rows[r].credential]

Transmit(w) ==
    LET r == job[w].row
    IN  /\ job[w].stage = "sending"
        /\ inbox' = inbox \cup {LinkOf(r)}
        /\ copies' = [copies EXCEPT ![r] = @ + 1]
        /\ UNCHANGED <<account, rows, crashes>>

Accept(w) ==
    /\ Transmit(w)
    /\ job' = [job EXCEPT ![w].stage = "accepted"]
    /\ UNCHANGED unrecorded

\* The server took the mail and its reply was lost: an error for the worker.
LoseReply(w) ==
    /\ Transmit(w)
    /\ job' = [job EXCEPT ![w].stage = "refused"]
    /\ unrecorded' = [unrecorded EXCEPT ![job[w].row] = @ + 1]

Refuse(w) ==
    /\ job[w].stage = "sending"
    /\ job' = [job EXCEPT ![w].stage = "refused"]
    /\ UNCHANGED <<account, rows, inbox, counts>>

\* (_Forgetful: as if a failed attempt were not counted.)
Recorded_Forgetful(w) ==
    [rows[job[w].row] EXCEPT !.sent = (job[w].stage = "accepted"),
                             !.waits = (job[w].stage = "refused")]
Recorded(w) ==
    [rows[job[w].row] EXCEPT !.attempts = @ + 1, !.sent = (job[w].stage = "accepted"),
                             !.waits = (job[w].stage = "refused")]

Save(w) ==
    /\ job[w].stage \in {"accepted", "refused"}
    /\ rows' = [rows EXCEPT ![job[w].row] = Recorded(w)]
    /\ Done(w)
    /\ UNCHANGED <<account, inbox, counts>>

\* The worker dies, or its time limit is over: nothing it wrote is kept.
Crash(w) ==
    /\ job[w] # Idle
    /\ crashes < MaxCrash
    /\ crashes' = crashes + 1
    /\ unrecorded' = IF job[w].stage = "accepted"
                     THEN [unrecorded EXCEPT ![job[w].row] = @ + 1] ELSE unrecorded
    /\ Done(w)
    /\ UNCHANGED <<account, rows, inbox, copies>>

-----------------------------------------------------------------------------
(* Administration and time                                                 *)

\* The site administration edits the user row, which waits for its lock.
Administer ==
    /\ UserFree
    /\ account.status # "none"
    /\ \/ \E s \in {"active", "disabled"} : account' = [account EXCEPT !.status = s]
       \/ \E a \in Address : account' = [account EXCEPT !.email = a]
       \/ /\ account.password < MaxPassword
          /\ account' = [account EXCEPT !.password = @ + 1]
    /\ UNCHANGED <<rows, job, inbox, counts>>

Expire(r) ==
    /\ ~rows[r].expired
    /\ rows' = [rows EXCEPT ![r].expired = TRUE]
    /\ UNCHANGED <<account, job, inbox, counts>>

BackOffEnds(r) ==
    /\ rows[r].waits
    /\ rows' = [rows EXCEPT ![r].waits = FALSE]
    /\ UNCHANGED <<account, job, inbox, counts>>

\* Rows grow old in the order they were created.
Ageing(r) ==
    /\ rows[r].age # "old"
    /\ \A q \in 1..(r - 1) : rows[q].age # rows[r].age
    /\ rows' = [rows EXCEPT ![r].age = IF @ = "new" THEN "recent" ELSE "old"]
    /\ UNCHANGED <<account, job, inbox, counts>>

-----------------------------------------------------------------------------
Command ==
    \/ Register \/ CreateUser \/ ChangePassword
    \/ \E kind \in Kind : RequestLink(kind)
    \/ \E link \in inbox : VerifyEmail(link) \/ ResetPassword(link)

Take == \E w \in Worker, r \in Rows : Pick(w, r)
Look(w) == Skip(w) \/ Drop(w) \/ Begin(w)
Talk(w) == Accept(w) \/ LoseReply(w) \/ Refuse(w)

Next ==
    \/ Command \/ Take \/ Administer
    \/ \E w \in Worker : Look(w) \/ Talk(w) \/ Save(w) \/ Crash(w)
    \/ \E r \in Rows : Expire(r) \/ BackOffEnds(r) \/ Ageing(r)

Spec == Init /\ [][Next]_vars

\* The beat starts a delivery every 30 seconds, a delivery that runs goes on
\* (SMTP has a timeout of 10 seconds), and backoffs end.
Fairness ==
    /\ WF_vars(Take)
    /\ \A w \in Worker : WF_vars(Look(w)) /\ WF_vars(Talk(w)) /\ WF_vars(Save(w))
    /\ \A r \in 1..MaxRow : WF_vars(r \in Rows /\ BackOffEnds(r))
FairSpec == Spec /\ Fairness

-----------------------------------------------------------------------------
\* Every row, job, link and counter has its type.
TypeOK ==
    /\ account \in Account
    /\ rows \in Seq(Row)
    /\ Len(rows) <= MaxRow
    /\ job \in [Worker -> Job]
    /\ \A w \in Worker : job[w].stage # "idle" => job[w].row \in Rows
    /\ inbox \subseteq Link
    /\ \A link \in inbox : link.row \in Rows
    /\ crashes \in 0..MaxCrash
    /\ copies \in [1..MaxRow -> Nat]
    /\ unrecorded \in [1..MaxRow -> Nat]

\* At most one row of each kind is neither consumed nor invalidated, as the
\* partial unique indexes demand, whichever commands issue and close them.
OneOpenPerKind ==
    \A kind \in Kind : \A q, r \in OpenRows(kind) : q = r

Accepting(r) == {w \in Worker : job[w] = [stage |-> "accepted", row |-> r]}

\* Overlapping workers never mail a row twice: every mail the server accepted is
\* the one recorded by sent_at, one a worker is about to record, or one whose
\* record was lost with a transaction or a reply (deliver_verification_email
\* and deliver_password_reset look again at the row under the user lock).
DeliveriesRecorded ==
    \A r \in Rows :
        /\ Cardinality(Accepting(r)) <= 1
        /\ copies[r] = unrecorded[r] + (IF rows[r].sent THEN 1 ELSE 0)
                                     + Cardinality(Accepting(r))

\* However replies are lost, a row is mailed no more often than it may be tried;
\* only a transaction that is lost with its count of the attempt adds to it.
CopiesBounded == \A r \in Rows : copies[r] <= MaxAttempts + crashes

\* A mail leaves for the address, the password and the state the account has at
\* that moment: the user lock is held from the check to the SMTP dialogue, so
\* no change of the account slips in between.
MailGoesToOwner ==
    [][\A link \in inbox' \ inbox :
          /\ link.to = account.email
          /\ link.password = account.password
          /\ Open(link.row)
          /\ Eligible(rows[link.row].kind)]_vars

\* An address counts as verified only by the link of the newest verification row,
\* mailed to that very address and signed under the password as it is now: a
\* resend, a change of the address and a change of the password all revoke the
\* links that were mailed before (verify_email, validate_verification_signature).
NewestLinkVerifies ==
    [][~account.verified /\ account'.verified =>
          \E link \in inbox :
             /\ link.to = account'.email
             /\ link.password = account.password
             /\ \A r \in Rows : rows[r].kind = "verify" => r <= link.row
             /\ rows[link.row].kind = "verify"]_vars

-----------------------------------------------------------------------------
(* The rows are an outbox                                                  *)

InFlight(r) == \E w \in Worker : job[w].row = r /\ job[w].stage \in Locked

\* An expired or exhausted row is out of the queue once no worker sends it.
QueueState(r) ==
    IF r \notin Rows THEN "absent"
    ELSE IF ~Open(r) THEN "closed"
    ELSE IF rows[r].sent THEN "delivered"
    ELSE IF InFlight(r) \/ (~rows[r].expired /\ rows[r].attempts < MaxAttempts)
         THEN "queued"
    ELSE "closed"

Box == INSTANCE Outbox WITH
         Message <- 1..MaxRow,
         state <- [r \in 1..MaxRow |-> QueueState(r)],
         copies <- copies

\* The two tables keep the promise of an outbox: at least one accepted mail
\* before sent_at, and none for a row that was delivered, used or replaced.
ImplementsOutbox == Box!FairSpec
=============================================================================
