# DevVault: formal models and proofs

DevVault issues API keys for a customer's services and decides, call by call,
whether a presented key may be used: is it live, does it have the scopes, is there
quota and rate capacity left. The backend is a Django application on PostgreSQL
(READ COMMITTED, row locks) and Redis, with Celery workers that drain outbox tables
for mail, webhooks, usage aggregation and exports. This directory holds TLA+ models
of its concurrent parts, the TLC instances that check them and TLAPS proofs of the
main results.

Paths below are relative to `src/dev-vault-backend/` unless they start with
`src/dev-vault-frontend/`.

## The system

| Component | State | Operations | Hard behaviour |
|---|---|---|---|
| Access verification `apps/access/verification.py` | decision events, idempotency records | `verify_access` | stale reads before the locks, four kinds of row lock, retries, lost answers, Redis outside the SQL transaction |
| Quota ledger `apps/access/quotas.py` | buckets with cached `used` and `adjustment`, reservations, adjustments | `prepare_quotas`, `consume_quotas`, `adjust_quota` | read-modify-write of the cached count, limits edited meanwhile, rotation, period change |
| Idempotent commands `apps/core/idempotency.py` | one record per actor, scope and key | `creation_command`, `remember_created` | two retries at once, conflict, lost answer |
| Credentials `apps/credentials/services.py` | API keys with family, successor, expiry; integration credentials | issue, rotate, revoke, authenticate | rotation and revocation racing a verification |
| Policies and permissions `apps/access/services.py` | versioned policies, service-scoped permissions, grants | create, update, assign, disable | optimistic version, cap of 64 active policies |
| Rate limiter `apps/access/rate_limits.py` | Redis counters per policy, version and dimension | one Lua script per decision | window and refill boundaries, all-or-nothing over several policies, outage |
| Projects, environments, services `apps/projects/services.py` | status of each level | create, archive, enable, disable | a parent disabled while a call is under way |
| Webhooks `apps/webhooks/` | endpoints, secrets, deliveries, attempt history | administration, enqueue, poll, deliver, retry | at-least-once POST, stale batches, overlapping workers, crash between POST and commit |
| Organizations `apps/organizations/services.py` | memberships, invitations, tenant status | roles, removal, transfer, invite, accept, deliver | last owner, authority of an invitation at acceptance |
| Sessions `apps/accounts/auth_services.py`, `jwt.py` | refresh sessions with the current token id | login, refresh, logout, authenticate | reuse detection, password change racing login |
| Account mail `apps/accounts/services.py`, `profile_services.py` | verification and reset rows | request, deliver, consume | single use, crash around SMTP |
| Usage aggregation `apps/usage/services.py` | receipts, hourly aggregates | aggregate, reconcile | overlapping runs |
| Exports `apps/core/exports.py`, `export_storage.py`, `cleanup_exports.py` | export jobs, artifacts in storage | queue, process, download, clean up | storage changed before the row commits |
| Audit log `apps/audit/` | append-only events | `record_event` | inside the audited transaction |
| Session client `src/dev-vault-frontend/src/lib/api.ts` | session, epoch, one refresh promise | `api`, `refresh`, `login`, `logout` | answers that arrive after the session changed |

How they interact. Everything but the rate counters is in one PostgreSQL database.
Dashboard commands lock from the tenant down (organization, project, environment,
service, key). A verification locks the key, its idempotency record, the policies
and their buckets, asks Redis, and commits the charge and the decision event
together; `post_save` receivers of the audit and usage rows enqueue webhook
deliveries inside the same transaction. Workers read identifiers of pending rows
without a lock and take each row in a transaction of its own. Mail and webhook POSTs
are sent inside that transaction, so a crash can repeat them.

What makes each part correct:

- verification: never an allow for a revoked key, the charge is never lost or
  doubled, a caller told *allowed* holds a durable decision for its own input;
- ledger: cached counters equal the sum of the reservations, no charge passes the
  allowance in force, rotation does not refill a budget;
- rate limiter: no window and no bucket lets more through than its configuration
  says, a denied call consumes nothing, and `retry_after` is honest;
- webhooks: delivered is final, at least once, attempts are bounded,
  nothing is sent to an endpoint that may not receive, everything pending settles;
- organizations: an active organization keeps an owner, an invitation confers no
  more than its inviter could confer when it is accepted;
- resources: one resource per Idempotency-Key, no lost edit, at most 64 active
  policies, nothing created, renamed or re-enabled under an archived parent;
- sessions: one live refresh token per login, reuse ends the family, a password
  change ends every session opened with the old one;
- account and invitation mail: every accepted mail is accounted for, a link goes to
  whom the account belongs to at that moment, only the newest one verifies, and
  what is due is sent;
- aggregation: every event is counted in exactly one aggregate, once;
- exports: a job that says *ready* has its file until it expires, and none once it
  was cleaned up.

## Modules

| Module | Contents |
|---|---|
| `AccessState` | constants, rows and helpers shared by the two levels of access verification |
| `AccessLedger` | the abstract specification: each decision is one atomic step |
| `Verification` | `verify_access` in the steps at which another transaction may act, and every command that races it |
| `Webhooks` | the outbox: administration, enqueueing, workers |
| `Organizations` | memberships, roles and invitations of one organization under the tenant lock |
| `Resources` | projects, services, permissions, credentials, policies and their idempotent creation under the lock of the organization |
| `Sessions` | refresh sessions, tokens, the password and its reset rows of one account under the user lock |
| `Outbox` | the abstract specification of a mail queue |
| `AccountMail` | verification and reset links of one account, their use and their delivery |
| `InvitationQueue` | the mailing of invitations, across organizations |
| `UsageData`, `UsageCounter` | usage events and totals; the abstract specification: count each event in one step |
| `UsageAggregation` | overlapping aggregation runs and the consistency command |
| `Exports` | the two tables of export jobs, the file store, the clean-up and downloads |
| `RateLimiter` | the Redis script, its keys and their expiry |
| `X_proofs` | theorems about `X`: for `Verification`, `Webhooks`, `Organizations`, `Sessions`, `Resources`, `AccountMail`, `Exports`; second parts about `UsageAggregation` (in `Organizations_proofs`), `InvitationQueue` (in `Sessions_proofs`) and `RateLimiter` (in `Exports_proofs`) |
| `Recursion` | lemmas about sums over finite sets, iteration along a sequence and least numbers |
| `MCX`, `X_*.cfg` | the instances of `X` for TLC |

`Verification` and `AccessLedger` extend `AccessState`; `UsageAggregation` and
`UsageCounter` extend `UsageData`. `Verification` instantiates `AccessLedger`,
`AccountMail` instantiates `Outbox`, `UsageAggregation` instantiates `UsageCounter`,
each with a refinement mapping. `Verification` meets three other components at their
interfaces: the answers of `RateLimiter` (any subset of calls may be denied), the parent
chain of `Resources` (one flag that commands switch), and the events that
`UsageAggregation` counts. `Organizations` and `InvitationQueue` share the invitations,
`Sessions` and `AccountMail` the password and its reset rows; each keeps of the other
what its properties need.

`UsageAggregation`, `InvitationQueue` and `RateLimiter` name their parts `UsageInit`,
`QueueNext`, `RateSpec` and so on, because each is proved about beside another component
and the two are extended together.

In every module a name that ends in `_Something` is a variant of the definition
beside it with a plausible bug in it; `PROJECT.json` pairs each with the property
that notices it.

### Verification

One *call* per element of `Request`; `pc[r]` says how far it has come. The actions
follow `verify_access` from top to bottom:

| Action | Code |
|---|---|
| `Receive` | `authenticate_integration`: credential and parent chain, read once |
| `LookUpKey` | first `authenticate_key`, outside the transaction |
| `LockKey` | `select_for_update` on the key, recheck, scopes |
| `OpenRecord` | `creation_command`: wait for the record, replay, refuse, or go on and select the policies |
| `LockPolicies` | the locked re-evaluation of the selected policies |
| `PrepareQuotas` | `locked_bucket` for every quota policy, room check on the values read |
| `ConsumeRates` | the Redis script: allow or deny |
| `Commit` | write back the cached rows, event, reservations, idempotency result |
| `Abort` | any exception or lost worker: roll back, release the locks |

Row locks are functions of `pc` (`HoldsKey`, `HoldsRecord`, `HoldsPolicy`,
`HoldsBucket`): a transaction holds what it has locked until it commits or rolls
back. An administrative command commits in one step, which it can only take when the
rows it locks are free. `Commit` may also lose the answer: the caller then sees
`lost` and may retry, which is another element of `Request` with the same input.

Abstractions. There is one service; `parentActive` stands for the chain service,
environment, project and organization. A policy that is created is a policy that is
switched on. Static validation, context strings, `last_used_at` and quota notices are
left out, since no decision reads them. Redis counters are not kept: any
subset of calls may be denied by rate, and capacity consumed by a call that then
rolls back is simply lost, as in the code. Database deadlock victims, lock
timeouts and statement timeouts are all `Abort`.

### Webhooks

A delivery is a pair of an endpoint and an event. `Enqueue`, `CommitMutation` and
`RollBackMutation` are the transaction of the audited command; `Poll` reads a batch
of due identifiers; `Begin`, `Post` and `Record` are `deliver_one`; `Crash` rolls a
worker back after, before or without the POST; `BecomeDue` is the passing of the
backoff; `RetryDelivery` is the manual retry with its idempotency record; the rest is
endpoint administration. `DeliveryEnabled` is the setting `WEBHOOK_DELIVERY_ENABLED`,
which is off by default: while it is off nothing is polled and due rows wait.

`deliver_one` selects the endpoint `FOR UPDATE` joined to its organization, which
locks both rows: `OrganizationFree` and `EndpointFree` say who must wait for that.
A mutation that inserts a delivery needs a key-share lock on the endpoint at its
commit. Two transactions that lock the pair in opposite orders deadlock in PostgreSQL
and one is aborted, which is `Crash` for a worker and nothing for a command.
`accepted`, `faults` and `crashes` record what happened outside the database,
for the properties. The DNS and address checks of the transport, the HMAC signature
and the codes of the receiver are reduced to the outcome of the POST: not sent,
delivered, transient or permanent failure. `organization.archived` events find their
organization inactive and are always cancelled, as in the code.

### Organizations

A command locks the tenant row first (`get_organization(lock=True)`, or the
`select_for_update` of `accept_invitation`) and reads memberships and invitations only
after that. So a command is two actions: `Begin` is everything up to its first write,
with the checks in `MayChangeRole`, `MayRemove`, `MayTransfer`, `MayInvite`,
`MayAccept`, `MayRevoke` and `MayArchive`; one action per command (`ChangeRole`,
`Remove`, `TransferOwnership`, `Invite`, `Accept`, `RevokeInvitation`, `Archive`) is
its writes and the commit. `Abort` is an exception or a lost worker.

Accounts are not under the tenant lock: `SetAccount` may switch any of them at any
time, also between the checks and the commit of a command. The caller's own account was
checked when the request was authenticated, which may be long ago, so `Begin` does not
ask for it. The recent-login requirement, the cooldown and the limits on invitations are
refusals, which change nothing: the model permits what they refuse. Roles without the
capability `team` behave alike, so `developer` stands for them in the instance.

### Sessions

One account. A request reads without a lock (`CheckPassword`, `PresentToken`,
`AuthenticateChange`, `FollowLink`), then locks the user row and decides
(`DecideLogin`, `DecideRefresh`, `DecideLogout`, `DecideChange`, `DecideReset`,
`RequestReset`), then writes and commits (`OpenSession`, `Rotate`, `End`, `Replace`,
`IssueReset`). `work[t]` keeps what the request read and, once it holds the lock, its
plan. `refresh_session` and `logout_session` lock the session row as well, always after
the user row, so the user row alone excludes them from each other.

A password hash is a number: its salt makes every hash a new one. The credential bound
to a session or a reset link hashes the password hash with the email address and the time
of its verification; the last two are left out: only the site administration can
edit the address of a verified account, which ends its sessions and links as
`SetPassword` does. A refresh token is a number
too, and any token ever signed may be presented by anybody until its session
expires, so a lost answer, a client that retries and two tabs are all the same
nondeterminism. `DeliverReset` is the one change the mail worker makes to the rows kept
here. `SetEligible` and `SetPassword` stand for the site administration, which
updates the user row and neither sessions nor reset rows; that a session dies then as
well is the work of the credential it is bound to. Access tokens carry no state: they
authenticate while `Current` holds of their session. `proof`, `exchanged`,
`replayed` and `basis` record the past for the properties.

### Resources

A command is `Begin`, the lock of the organization and every check made under it, and
`Commit`, the write of one row, of the policy revision if there is one, and of the
idempotency record if it creates; `Abort` is any error in between. The operators
`CreateProject`, `UpdateProject`, `ArchiveProject`, `CreateService`,
`SetServiceStatus`, `CreatePermission`, `SetPermissionStatus`, `IssueCredential`,
`RevokeCredential`, `CreatePolicy`, `UpdatePolicy` and `ArchiveOrganization` say what
each command checks and writes. `Create` is `creation_command`: a key that was used
answers with what it created if the input is the same. `LoadPolicy` is the earlier
request in which a client read the policy it edits: `expected_version` is what it saw
then. A refused command changes nothing and is not a step. A repeated creation writes
back the row it finds, as one that only answers. As in the code, four commands do not
ask whether the parents are open: a project of an archived organization may still be
archived, and under closed parents a permission may be switched, a credential revoked
and a policy revised.

### Account mail

One account. A command (`Register`, `RequestLink`, `VerifyEmail`, `ResetPassword`,
`ChangePassword`) locks the user row, decides and commits, one action. A delivery is
`Pick` (an id of the batch, read without a lock), `Skip`, `Drop` or `Begin` under the
locks of user and row, the SMTP dialogue (`Accept`, `Refuse`, `LoseReply`), and `Save`;
`Crash` rolls it back, and takes no accepted mail back. `inbox` holds the links that
were accepted; a link carries the hash its signature is bound to, so a link stays in
the mailbox and may be followed at any later time. `Administer` is the admin form: it
waits for the user row and writes status, address or password. Times are what the code
compares: expired or not, backing off or not, and *new*, *recent* or *old* for the
cooldown of a minute and the hourly limit. A verification row is bound to the address; a
reset row, like a session, to `credential_hash`: the password, the address and the time of
the verification (`Bound`). That time is not kept, since nothing sets it twice.

The rows implement `Outbox`: a row is *queued* while a worker may still send it,
*delivered* with `sent_at`, *closed* when it was used, replaced, dropped, expired or
tried for the last time.

### Invitation queue

`deliver_pending_invitations` takes the 25 rows that are due longest, of all
organizations, and passes over those of archived ones. `order` is the queue by
`next_attempt_at`; `Save` of a failure takes the row out of it and `BackOffEnds` puts it
at its end. `Invite`, `Close` and `ArchiveOrganization` are the commands of
`Organizations` as far as the queue sees them.

### Usage aggregation

`ReadBatch` is the unlocked query for the oldest events without a receipt; `Claim` locks
the event and looks for its receipt; `LockAggregate` is `get_or_create` and
`select_for_update`; `CommitEvent` writes sums and receipt together; `LoseRun` ends the
run. An
insert that another run has not committed makes both wait, so a row that does not exist
yet is locked like one that does. `StartCheck` and `FinishCheck` are the two queries of
`reconcile_usage` in one REPEATABLE READ transaction.

### Exports

`Claim`, `Build`, `Store` and `Save` are `process_export`; `StoreFails` is an error of
the store with or without the object being there; `QueryFails` is a database error, which
`process_export` does not handle, so it ends the run; `Crash` is a lost worker. `store`
is not rolled back with a transaction. A PUT to S3 that takes effect after its worker has
died is left out: what is stored is stored before the transaction ends.

There are two tables of jobs, usage and audit, each with its own runs on the same workers.
`cleanup_exports --apply` is `ReadExpired` for the usage jobs, up to `--limit` of them,
`DeleteFile` and `SaveExpired` for each, then the same for the audit jobs, and
`EndCleanUp`; `sweep` is the table it is at. `DeletionFails` is an error of the deletion,
which ends the command with both its loops.

A download checks the row (`CheckDownload`) and opens the file later (`OpenFile`). Facts are
counted: they are append-only, and a file is how many of them it holds.

### Rate limiter

`Consume` is one call of the script, `EditPolicy` a new version (which has keys of its
own), `Tick` the clock of Redis. `Stored` makes a key unreadable when its time to live is
over. The arithmetic is exact: tokens are counted in parts of
`refill_seconds` ticks each. Floating-point error is left out, and so is a Redis that
loses its data or is not there: `Verification` has the outage.

## Runs

| Run | Question | Instance |
|---|---|---|
| `verify_safe` | do concurrent charges, edits, rotation, revocation and retries keep the ledger and the promises? | 2 calls, 2 keys, a quota and a rate policy, a scope, credits and debits of 1, in three stories |
| `verify_refines` | is the locking protocol one-step decisions, and is every call answered? | 2 calls, 2 periods, one shared budget, credits |
| `parent_disable` | does a disable block later decisions? (it does not) | 1 call |
| `webhooks` | what can overlapping workers, crashes, retries and the administration do, and does every delivery settle? | 1 endpoint, 2 events, 2 workers, polls of one row, 1 crash, caps 2 and 3 |
| `team` | does the organization keep its owner, and where does power come from? | 3 users, 3 roles, 2 invitations, 2 requests |
| `sessions` | what can concurrent refreshes, logouts, logins, changes and resets do? | 2 requests, 2 sessions, 1 reset row, 3 passwords, 3 tokens |
| `account_mail` | is the mail of an account an outbox, whoever changes the account meanwhile? | 2 workers, 2 rows, 2 addresses, 2 passwords, 2 attempts, 1 crash |
| `invitation_mail` | are invitations mailed once, while they may be, and can one starve? | 2 workers, 2 tenants, 2 invitations, batches of 1, 2 attempts, 1 crash |
| `usage_count` | is every event counted once, under overlapping runs and a check? | 2 workers, 4 events in 2 buckets, batches of 2, 2 lost runs |
| `export_jobs` | do rows and files agree, and who can block the queue or the clean-up? | 2 workers, 3 jobs in any two tables, the second of which is heavy and cannot be deleted, batches of 2, clean-ups of 2, 1 crash |
| `resources` | do concurrent commands keep caps, keys, revisions and parents? | 2 clients, 1 project, 1 service, 1 permission, 1 credential, 2 policies, 2 keys |
| `rate_budget` | does the script keep budgets, and is `retry_after` exact? | 2 families, 3 policies, 9 half-second ticks, one edit |

The bounds. Two calls are enough for every race of a pair over one row. Limits of 1 and 2
with weights of 1 and 2 put a charge below, at and past the boundary. `MaxVersion`,
`MaxPeriod` and `AdjustmentCap` bound edits, period changes and adjustments; the theorems
hold for all of them. `verify_refines` has no room for an edit of a policy while a call
waits (`MaxVersion` 1): that part of the refinement rests on `Refinement`. The caps of the
code are lowered (attempts 8, 32 and 5, batches of 25, 10 and 500, 64 active policies) so
that they are reached and polls compete. Three users are two owners and one more to
transfer to, invite or remove; two invitations are one that supersedes the other. Three
tokens are a session rotated twice, or two sessions; three passwords are two changes, the
second of which may start from what the first replaced. Two mail rows are a link and its
replacement, or one of each kind. Four events make two batches, and the two that fall into
one hour are the first and the last. Three export jobs are one in front of, at and behind
the job that blocks, each in either table. Nine ticks of half a second are two windows of
two seconds and more than a refill of the bucket.

Some runs add a `CONSTRAINT`, a named definition of the MC module, that cuts the product
of unrelated dimensions and not a single dimension:

- `verify_safe` explores three stories (`Spending`, `Rotating`, `Retrying`), each with
  the inputs and commands that belong together; `verify_refines` leaves parents,
  scopes and the integration credential `Undisturbed`, which `verify_safe` changes;
- `account_mail`: address and password do not both change; the second worker runs, and
  the last attempt is used up, while there is one row;
- `invitation_mail`: two runs overlap on first attempts;
- `export_jobs`: crashes, facts and runs on both workers meet while there are two jobs, a
  download meets one worker and the clean-up; a third job is about the order in which one
  worker and the clean-up take jobs;
- `resources`: stories of the project tree, of policy edits and of policy targets;
- `rate_budget`: four calls pass, or two around an edit.

Liveness is checked under such a constraint in `verify_refines`, `account_mail`,
`invitation_mail` and `export_jobs`. TLC judges it on the behaviours that stay inside. A
behaviour that is cut off could hide a violation beyond the cut, never cause one. Most of
what is cut are steps nobody has to take: commands, crashes, downloads, the poll of the
second worker (polls are fair as "some worker reads a batch", which the first one can do).
Where a fair step itself leads out (the save of a last attempt while there are two mail
rows, a save by the first worker while the second holds a batch of invitations), the
behaviours through it are judged by safety only; the same situation with one row, or with
the workers exchanged, is inside. Each liveness property has a mutant that the same run
refutes.

Deadlock checking is off in the runs of `Verification`, `Webhooks`, `AccountMail`,
`InvitationQueue`, `UsageAggregation` and `Exports`: calls, events and rows are finite and
commands are optional, so these systems really come to rest. It is on in the others.
Symmetry is used in runs without liveness only.

### What the properties say

- `LedgerBalanced`: `used` equals the sum of the reservations, which `reconcile_usage`
  checks after the fact. `QuotaNeverOverspent`, `RotationKeepsBudget`,
  `NoAllowAfterRevocation`, `AllowedIsSettled`: the promises of the verification
  endpoint. `ImplementsLedger`: the protocol refines `AccessLedger`.
- `JobIsCurrent`: what a worker holds in memory (secret, attempt number, endpoint
  state) is what the database holds until it commits. `DeliveredIsFinal`,
  `AttemptsBounded`, `DuplicatesExplained`: the promises of the webhook outbox.
- `OwnerRetained`: an organization never loses its last owner by a command, although
  accounts come and go. `PowerComesFromOwners`: the set of owners and admins
  changes only under the authority of an owner, for an invitation the inviter's at the
  time of acceptance. `ClosedStaysClosed`: the life of an invitation.
- `ActiveWithinLimit`, `OneResourcePerKey`, `EditsBuildOnSeen`: what the lock of the
  organization is for. `NothingNewUnderArchived`: while a parent is closed nothing is
  created under it, no project renamed, no service switched; the property names the four
  changes that do not ask for open parents.
- `TokensFormChain`: a refresh token is exchanged once. `ReuseIsFatal`,
  `RevocationIsFinal`: what ends a session ends it for good.
  `SessionsProvePassword`: a session that authenticates was opened with the password as
  it is now. `ReplacementsBuildOnCurrent`: no password change is lost to another that
  started from the same password.
- `DeliveriesRecorded`, `InvitationsRecorded`: overlapping workers mail a row once; every
  further copy is explained by a lost transaction or reply. `MailGoesToOwner`,
  `MailedWhileActive`: what was checked before the SMTP dialogue holds until its end.
  `NewestLinkVerifies`: every way to revoke a verification link revokes the mailed ones.
  `ImplementsOutbox`: a row has been transmitted when it counts as delivered, is not
  transmitted once it is closed, and leaves the queue.
- `OnlyArchivedStarve`: an invitation waits for ever only behind a batch full of rows of
  archived organizations, which the query selects and the delivery passes over. The
  code has this weakness until those rows expire; the property says that there is no other.
- `CountsOnce`: aggregation implements `UsageCounter`, liveness included.
  `NoFalseAlarm`: the consistency command is never confused by runs under it.
- `ReadyHasFile`, `ExpiredHasNoFile`: row and file agree although the store knows no
  transaction. `OnlyHeavyJobsBlock`, `OnlyUnsafeFilesBlock`: a job waits for ever only
  behind one of its table whose query the database gives up, and a file stays only
  behind one whose deletion fails. The clean-up does not keep the order of expiry across
  the tables: a usage file that cannot be deleted, however young, keeps every expired audit
  file in place. Both are what the code does today, delimited.
- `BudgetRespected`, `NothingElseConsumed`, `RetryAfterExact`: the script against a count
  of the calls it let through, which does not use what Redis stores.
- `EveryCallAnswered`, `EveryDeliverySettles`: liveness, the latter for deployments that
  switch delivery on.

### Fairness

`Verification!FairSpec` assumes weak fairness of each call's next step. A request
thread runs until it answers; its lock waits end because the holder is a call that
runs too, and PostgreSQL's lock and statement timeouts end what would wait too
long. `Abort`, operators and time are not fair. `Webhooks!FairSpec` assumes weak
fairness of each worker, which Celery beat restarts every ten seconds, and of the clock
that makes a backoff end. `AccountMail`, `InvitationQueue`, `UsageAggregation` and
`Exports` assume that the beat starts runs for ever on whichever worker is free
(`config/settings/base.py`, `CELERY_BEAT_SCHEDULE`) and that a run that was started goes
on, because SMTP, locks and statements have timeouts; `AccountMail` also that backoffs end,
and `Exports` that an operator repeats the clean-up, which is not scheduled by the code.
In `Exports` the runs of each table are strongly fair: a worker that is free may always
find the other table's run next, but the beat queues both every 30 seconds and the workers
take them in the order they were queued.
Nobody is assumed to retry, to follow a link or to expire anything, and nothing to crash.

### A divergence from the documentation

ADR 0004 says "Parent archive/disable blocks subsequent decisions"
(`docs/adr/0004-enforcement-consistency.md:52-53`). `verify_access` loads the
service with its parents when it authenticates the integration credential and uses
these objects for the recheck under the key lock (`apps/access/verification.py:84`).
`ParentDisableBlocksDecisions` asks that a call which has not opened its decision
transaction while a parent is disabled ends without an allow, unless the parents are active
again. The trace of `parent_disable` breaks it: the call is received, the parent is
disabled, then the call locks its key, passes the recheck, charges the quota, commits an
allow and answers with it, and the parent stays disabled.
The key, by contrast, is read again under its lock, and `NoAllowAfterRevocation`
is proved.

## Proofs

`Verification_proofs` proves for every number of calls, keys, policies and
idempotency keys, and for all bounds: `TypeCorrect`, `LocksHold` (the inductive
invariant), `CachedRowsStayCurrent`, `AllowedSettled`, `RevocationIsFinal`,
`NeverOverspent` and `Refinement`. The assumptions are the `ASSUME`s of `AccessState` and
`Verification` on the constants, which every run evaluates.

`CachedRowsCurrent` is not inductive alone: it needs that two calls never hold one
bucket, which follows only from knowing what each holds (keys, records, policies,
buckets) at each stage. The invariant `IInv` is the conjunction of the type,
mutual exclusion for each kind of row, and, per stage, what the call has checked
under the locks it still holds: its key is not revoked, its record is not settled, its
policies are as selected, its buckets have room. The refinement then maps `Commit` of
an allow or a denial to `Allow` or `Deny`, a command to its abstract step, and every
other action to a stutter.

`Webhooks_proofs` proves `TypeCorrect`, `RowLockHolds` (the inductive
invariant), `JobsStayCurrent`, `HistoryStaysNumbered`, `AttemptsStayBounded`,
`DuplicatesAreExplained` and `DeliveredStaysFinal`. The invariant adds to the
properties that at most one worker delivers (`OneJob`, from the organization lock),
that rows exist only for committed mutations (`OutboxIsTransactional`), how many
attempts a pending row has left (`AttemptsLeft`) and how accepted POSTs are counted
against recorded successes (`AcceptanceCounted`).

`Organizations_proofs` proves `TypeCorrect`, `TenantLockHolds` (the inductive
invariant), the three properties of the run, `OneOpenInvitation` and
`ArchivedTeamFrozen`. The heart is `HeldWarranted`: what a command
was permitted under the lock is still warranted when it commits. It cannot say that the
other owners are still eligible, because accounts change meanwhile; it says that there
is another owner (`AnotherOwner`), which follows from the count of eligible owners by the
cardinality lemma `SparedOwner`.

`Sessions_proofs` proves `TypeCorrect`, `UserLockHolds` (the inductive invariant) and
the five properties of the run and `OneOpenReset`. `TokensFormChain` is inductive only with
`WorkWarranted`: a request about to rotate still presents the session's own token and
the session is not revoked, because nobody else can write between its decision and its
commit; expiry and the account's status may change and are not part of the reason.
`SessionsProvePassword` follows from `SessionRows`: a session's credential is the password
its login presented.

`RotationRefillsNothing` (`Verification_proofs`) proves `RotationKeepsBudget`: a key and
the key it was rotated into spend from one bucket under a policy of dimension *key*. It
rests on two more invariants, that successor and predecessor have one family
(`ChainsKept`), and that each reservation is on the budget of its key's family
(`ChargeKept`), also while it is only in the memory of a call.

`Resources_proofs` proves `TypeCorrect`, `OrganizationLockHolds` (the inductive invariant)
and the four properties of the run (`NothingNewUnderArchived` as `OpenParentsForNew`) with
`RevisionsRecordRow`. The invariant says that one
command writes at a time and that what its `Begin` checked (room under the cap, free key,
version seen, open parents) is still so at its `Commit`. The cap needs the cardinality of
a set with one policy added.

`AccountMail_proofs` proves `TypeCorrect`, `UserLockHolds` (the inductive invariant),
`OneOpenPerKind`, `DeliveriesRecorded`, `CopiesBounded`, `MailGoesToOwner`,
`NewestLinkVerifies` and, as `TablesAreOutbox`, the safety half of the refinement:
`Spec => Box!Spec`. At most one job is past the check, its row is open, unsent and fits
the account. `NewestLinkVerifies` also needs that an open verification row is the
newest one and that a link of it went to its address.

`Exports_proofs` proves `TypeCorrect`, `RowLocksHold` (the inductive invariant),
`ReadyHasFile`, `ExpiredHasNoFile`, `ServedAsDescribed` and `DecisionsAreFinal`. No two
runs, and no run and the clean-up, hold one row; what is under way has its row still
queued; a run past the store has its file there; a row that the clean-up holds is over
and its file gone.

### Sums and sequences

Four results are about a number the code keeps beside the history it stands for. They
rest on `Recursion`, where what is defined by recursion over a finite set, or over
the first natural numbers, is characterised at a minimal counterexample (the library's
induction theorems cannot be instantiated): the sum over a set with an element added
or changed (`SumAdd`, `SumChanged`), the elements a fold has taken, the last of an
iteration.

`LedgerIsBalanced` (`Verification_proofs`) proves `LedgerBalanced`: the cached `used` of
every bucket is the sum of the units of the reservations that name it. A commit writes
one record and adds its units to exactly the buckets it charges, from values that
`CachedRowsCurrent` says are still in the table.

The second part of `Organizations_proofs` proves of `UsageAggregation`: `UsageTypeCorrect`,
`RunsStayApart` (the inductive invariant), `CountedAtMostOnce`, that aggregation implements
`Counter!Spec`, and `CheckIsTruthful`, which is `NoFalseAlarm`. Two locks matter: no two
runs hold one event, so a claimed event has no receipt, and no two hold one aggregate,
so the sums a run has read are those in the table when it commits. `CheckIsTruthful`
adds to the invariant that the totals of the aggregates and of the receipts agree
(`Matching`), so a snapshot taken at any moment sees them agree (`CheckHeld`).

The second part of `Sessions_proofs` proves of `InvitationQueue`: `QueueTypeCorrect`,
`QueueRecorded` (`InvitationsRecorded`) and `QueueMailedWhileActive`
(`MailedWhileActive`). The queue is a sequence that rows leave and enter again, so the type
says that no row is listed twice. `Held` says what a worker past the check may rely on
(its row is open, unsent, has an attempt left and its organization is active), and
`Accounted` how accepted mails are explained: by a recorded one, one in progress, a
lost reply or a lost transaction.

The second part of `Exports_proofs` proves of `RateLimiter`: `RateTypeCorrect`,
`BudgetHolds`, `NothingElseIsConsumed` and `RetryIsExact`, for all times and for every
configuration `validate_policy_config` accepts. The properties compare what Redis stores
with the calls it let through, and neither determines the other step by step, because keys
expire and buckets fill up. The invariant `RateIInv` says key by key (`Kept`):

- a window's count is the number of its own grants, no window ever had more than the
  limit, and the hash lives at least until the window ends;
- a bucket's tokens are what the grants have left, `Left`; tokens and grants since any
  earlier call together are at most a full bucket and its refill since then (this is
  what makes the bound between any two calls inductive: a refill that is cut off at the
  capacity only lowers it); and by the time the hash expires the bucket would be full
  again, so that forgetting it changes nothing.

`TimeToLive` rounds up to whole seconds, and `ceil` in the script is what both rest on.
The promise of a denial is kept as a statement about the hashes (`Opens`): at the time
it names every policy of the call is open, a second earlier one is not. A key that is
closed at a time was closed at every earlier one (`ClosedEarlier`), so the passing of time
does not break it. Products of variables are
cut into linear steps by lemmas on monotonicity and distribution.

The theorems about `RateLimiter` assume `RateAssumption`: the configurations are valid,
a key without a hash is told apart from every hash.

### Only model-checked

All invariants and action properties that the runs check are theorems, except
`ParentDisableBlocksDecisions`, which does not hold. The type invariants are theorems as
well and therefore not properties of runs. TLC alone checks:

- liveness (`EveryCallAnswered`, `EveryDeliverySettles`, the starvation properties of
  `InvitationQueue` and `Exports`), and the fairness halves of `ImplementsOutbox` and
  `CountsOnce`: TLAPS does not prove fairness or `ENABLED`. The safety halves are
  `TablesAreOutbox` and `CountedAtMostOnce`.

## Plan

All components that carry core logic have a module. What could follow, in this order:

1. `LockOrder`: the wait-for graph of verification, rotation and webhook commands with
   the key-share locks of foreign keys. PostgreSQL breaks a cycle by aborting one side,
   and the abort is in the models already.
2. `SessionClient`: the single-flight refresh and the epoch of the dashboard client,
   composed with `Sessions`.
3. Abstract specifications of `Webhooks` (an `Outbox` with a manual retry) and `Sessions`
   (a set of live logins), with their refinements.

## Not modelled

- Views, serializers, throttles, OpenAPI schema, logging, metrics, health checks and
  settings: input validation and I/O without state of their own.
- The admin pages, but for what `SetAccount`, `SetEligible`, `SetPassword` and
  `Administer` stand for. The form loads a whole row and saves it later, which is Django's
  behaviour; what is modelled is the save.
- The dashboard pages, views over the API, and its session client: any order of its
  requests is explored in `Sessions`, the promise it keeps in one browser tab is not.
- The Python SDK: a stateless client whose retries are the retries of `Verification`.
- The audit log: written inside the audited transaction and never read by a command.
- Lock-order cycles: see the plan. Every module grants the locks of a command together
  or in the order of the code, and deadlock victims are aborts.
- The read-only parts: policy simulation, paginated reports, usage charts; the CSV text;
  the rotation of an integration credential, which is that of a key; the renaming of an
  organization and of an account.
