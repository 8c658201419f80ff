---------------------------- MODULE Verification ----------------------------
(***************************************************************************)
(* verify_access and the administrative transactions that race it.         *)
(*                                                                         *)
(* A verification reads the integration credential and the key outside any *)
(* transaction, then locks the key row, the idempotency record, the        *)
(* applicable policies and their quota buckets, in that order, asks Redis  *)
(* for rate capacity, and commits the quota charge, the reservations, the  *)
(* decision event and the idempotency result together.  Every step may     *)
(* fail (lock or statement timeout, Redis outage, worker death): the       *)
(* transaction then rolls back and the caller sees no decision.            *)
(*                                                                         *)
(* Row locks are not separate variables: who holds a row follows from how  *)
(* far its request has come.  PostgreSQL runs at READ COMMITTED, so a read *)
(* under no lock may be out of date at the next step.                      *)
(***************************************************************************)
EXTENDS AccessState, Functions

CONSTANTS
    Request,      \* calls of verify_access; a retry is a call with the same input
    MaxVersion    \* bound: edits of a policy that are explored

ASSUME VerificationAssumption == MaxVersion \in Nat \ {0}

VARIABLES
    \* durable rows outside the ledger
    successor,    \* successor[k]: the key k was rotated into, or k itself
    grants,       \* grants[k]: permissions granted to key k
    activeScope,  \* the permissions that are active
    parentActive, \* service, environment, project and organization all active
    integration,  \* the service's integration credential is usable
    period,       \* the current UTC quota period
    \* one verify_access call each
    pc,           \* how far the call has come
    input,        \* its arguments
    verdict,      \* "ok", or why the credential or scope check failed
    found,        \* the first look-up returned a key
    pols,         \* policies its statement selected, then holds locked
    rows,         \* quota rows it holds locked, with the values it read
    decision      \* what it decided; once done, what the caller was told

durable == <<keyStatus, family, policy, used, adjustment, record, successor,
             grants, activeScope, parentActive, integration, period>>
calls == <<pc, input, verdict, found, pols, rows, decision>>
vars == <<durable, calls>>

\* received:   the integration credential and its parent chain were read
\* looked:     the key was looked up without a lock
\* locked:     the transaction holds the key row and has rechecked it
\* opened:     it also holds the idempotency record, and selected policies
\* policies:   it also holds the policy rows
\* prepared:   it also holds the quota buckets
\* decided:    the decision is taken, not yet committed
Stage == {"idle", "received", "looked", "locked", "opened", "policies",
          "prepared", "decided", "done"}
Verdict == {"ok", "invalid_credential", "revoked", "expired", "insufficient_scope"}
Refusal == {"invalid_integration_credential", "idempotency_conflict", "unavailable",
            "lost"}
NoDecision == "none"
NoRows == [b \in {} |-> [used |-> 0, adjustment |-> 0]]
Row == [used : Nat, adjustment : Int]

InTransaction == {"locked", "opened", "policies", "prepared", "decided"}

HoldsKey(r, k) == pc[r] \in InTransaction /\ found[r] /\ input[r].key = k
\* As if the idempotency record stayed locked after the call has returned.
HoldsRecord_Leaked(r, i) ==
    pc[r] \in (InTransaction \ {"locked"}) \cup {"done"} /\ input[r].idem = i
HoldsRecord(r, i) ==
    pc[r] \in InTransaction \ {"locked"} /\ input[r].idem = i
HoldsPolicy(r, p) ==
    pc[r] \in {"policies", "prepared", "decided"} /\ p \in pols[r]
HoldsBucket(r, b) == pc[r] \in {"prepared", "decided"} /\ b \in DOMAIN rows[r]

\* As if the key row were read without FOR UPDATE.
KeyFree_Unlocked(k) == TRUE
\* As if two calls could both insert the idempotency record.
RecordFree_Unlocked(i) == TRUE

KeyFree(k) == \A r \in Request : ~HoldsKey(r, k)
PolicyFree(p) == \A r \in Request : ~HoldsPolicy(r, p)
BucketFree(b) == \A r \in Request : ~HoldsBucket(r, b)
RecordFree(i) == \A r \in Request : ~HoldsRecord(r, i)

-----------------------------------------------------------------------------
Init ==
    /\ keyStatus = [k \in Key |-> "absent"]
    /\ family = [k \in Key |-> k]
    /\ policy \in [Policy -> [active : BOOLEAN, version : {1}, limit : Limit]]
    /\ used = [b \in Bucket |-> 0]
    /\ adjustment = [b \in Bucket |-> 0]
    /\ record = [i \in Idem |-> NoEvent]
    /\ successor = [k \in Key |-> k]
    /\ grants = [k \in Key |-> {}]
    /\ activeScope = Scope
    /\ parentActive = TRUE
    /\ integration = TRUE
    /\ period = 1
    /\ pc = [r \in Request |-> "idle"]
    /\ input \in [Request -> {CHOOSE in \in Input : TRUE}]
    /\ verdict = [r \in Request |-> "ok"]
    /\ found = [r \in Request |-> FALSE]
    /\ pols = [r \in Request |-> {}]
    /\ rows = [r \in Request |-> NoRows]
    /\ decision = [r \in Request |-> NoDecision]

-----------------------------------------------------------------------------
(* verify_access, one action per point where another transaction may act   *)

\* The call returns or raises: its answer stays, its locals and locks go.
Finish(r, reply) ==
    /\ pc' = [pc EXCEPT ![r] = "done"]
    /\ decision' = [decision EXCEPT ![r] = reply]
    /\ verdict' = [verdict EXCEPT ![r] = "ok"]
    /\ found' = [found EXCEPT ![r] = FALSE]
    /\ pols' = [pols EXCEPT ![r] = {}]
    /\ rows' = [rows EXCEPT ![r] = NoRows]

\* authenticate_integration reads the credential and, with it, the whole
\* parent chain.  The rows it read are used, never read again, from here on.
Receive(r, in) ==
    /\ pc[r] = "idle"
    /\ input' = [input EXCEPT ![r] = in]
    /\ IF integration /\ parentActive
       THEN /\ pc' = [pc EXCEPT ![r] = "received"]
            /\ UNCHANGED <<verdict, found, pols, rows, decision>>
       ELSE Finish(r, "invalid_integration_credential")
    /\ UNCHANGED durable

\* authenticate_key on the committed key row; its service_is_active test is on
\* the parent chain Receive cached, which was active.
KeyVerdict(k) ==
    CASE keyStatus[k] = "live"    -> "ok"
      [] keyStatus[k] = "absent"  -> "invalid_credential"
      [] OTHER                    -> keyStatus[k]

LookUpKey(r) ==
    /\ pc[r] = "received"
    /\ pc' = [pc EXCEPT ![r] = "looked"]
    /\ verdict' = [verdict EXCEPT ![r] = KeyVerdict(input[r].key)]
    /\ found' = [found EXCEPT ![r] = KeyVerdict(input[r].key) = "ok"]
    /\ UNCHANGED <<durable, input, pols, rows, decision>>

Granted(k) == grants[k] \cap activeScope
ScopeAllowed(in, granted) ==
    \/ in.scopes = {}
    \/ in.mode = "all" /\ in.scopes \subseteq granted
    \/ in.mode = "any" /\ in.scopes \cap granted # {}

ScopeVerdict(in, granted) ==
    IF ScopeAllowed(in, granted) THEN "ok" ELSE "insufficient_scope"

\* Open the transaction: lock the key the first look-up found and recheck it.
LockKey(r) ==
    LET k == input[r].key
        granted == IF found[r] THEN Granted(k) ELSE {}
        credential == IF found[r] THEN KeyVerdict(k) ELSE verdict[r]
    IN  /\ pc[r] = "looked"
        /\ found[r] => KeyFree(k)
        /\ pc' = [pc EXCEPT ![r] = "locked"]
        /\ verdict' = [verdict EXCEPT ![r] =
                         IF credential = "ok" THEN ScopeVerdict(input[r], granted)
                                              ELSE credential]
        /\ UNCHANGED <<durable, input, found, pols, rows, decision>>

\* creation_command: wait for the idempotency record, then refuse other input
\* under the same key, replay a settled decision to a caller whose credential
\* and scope still pass, or go on to decide.
\* (_KeyOnly: as if the fingerprint covered the credential alone.)
SameRequest_KeyOnly(event, in) == event.input.key = in.key
SameRequest(event, in) == event.input = in

Replay(r) ==
    IF verdict[r] # "ok" THEN verdict[r] ELSE record[input[r].idem].decision

\* (_Targeted: as if a policy without key_family_id applied to no key.)
SelectedPolicies_Targeted(k) ==
    {p \in Policy : policy[p].active /\ Target[p] = family[k]}
SelectedPolicies(k) ==
    {p \in Policy : policy[p].active /\ Applies(p, family[k])}

OpenRecord(r) ==
    LET event == record[input[r].idem]
    IN  /\ pc[r] = "locked"
        /\ RecordFree(input[r].idem)
        /\ \/ /\ event # NoEvent
              /\ Finish(r, IF SameRequest(event, input[r]) THEN Replay(r)
                                                           ELSE "idempotency_conflict")
           \/ /\ event = NoEvent
              /\ verdict[r] # "ok"
              /\ pc' = [pc EXCEPT ![r] = "decided"]
              /\ decision' = [decision EXCEPT ![r] = verdict[r]]
              /\ UNCHANGED <<verdict, found, pols, rows>>
           \/ /\ event = NoEvent
              /\ verdict[r] = "ok"
              /\ pc' = [pc EXCEPT ![r] = "opened"]
              /\ pols' = [pols EXCEPT ![r] = SelectedPolicies(input[r].key)]
              /\ UNCHANGED <<verdict, found, rows, decision>>
        /\ UNCHANGED <<durable, input>>

\* SELECT ... FOR UPDATE re-evaluates a row it waited for: a policy switched
\* off meanwhile drops out, one switched on meanwhile was never selected.  The
\* rows are locked in UUID order, so taking them at once loses no behaviour.
LockPolicies(r) ==
    /\ pc[r] = "opened"
    /\ \A p \in pols[r] : PolicyFree(p)
    /\ pc' = [pc EXCEPT ![r] = "policies"]
    /\ pols' = [pols EXCEPT ![r] = {p \in pols[r] : policy[p].active}]
    /\ UNCHANGED <<durable, input, verdict, found, rows, decision>>

\* prepare_quotas: lock the bucket of every quota policy for this period, keep
\* the values read, and refuse when one has no room for the request's units.
\* (_PerKey: as if each key of a rotation chain had a budget of its own;
\* _NotFull: as if a bucket not yet full had room for any weight.)
QuotaBuckets_PerKey(r) ==
    {<<p, BudgetOf(p, input[r].key), period>> : p \in pols[r] \cap QuotaPolicy}
QuotaBuckets(r) ==
    {<<p, BudgetOf(p, family[input[r].key]), period>> :
        p \in pols[r] \cap QuotaPolicy}

HasRoom_NotFull(b, units) == used[b] < Allowance(b)
HasRoom(b, units) == used[b] + units <= Allowance(b)

PrepareQuotas(r) ==
    LET buckets == QuotaBuckets(r)
        room == \A b \in buckets : HasRoom(b, input[r].units)
    IN  /\ pc[r] = "policies"
        /\ \A b \in buckets : BucketFree(b)
        /\ IF room
           THEN /\ pc' = [pc EXCEPT ![r] = "prepared"]
                /\ rows' = [rows EXCEPT ![r] =
                              [b \in buckets |->
                                 [used |-> used[b], adjustment |-> adjustment[b]]]]
                /\ UNCHANGED decision
           ELSE /\ pc' = [pc EXCEPT ![r] = "decided"]
                /\ decision' = [decision EXCEPT ![r] = "quota_exceeded"]
                /\ UNCHANGED rows
        /\ UNCHANGED <<durable, input, verdict, found, pols>>

\* consume_rates: one atomic script in Redis, outside the SQL transaction.  An
\* outage, or an answer lost after Redis counted the request, is Abort.
ConsumeRates(r) ==
    /\ pc[r] = "prepared"
    /\ pc' = [pc EXCEPT ![r] = "decided"]
    /\ \/ /\ decision' = [decision EXCEPT ![r] = "allowed"]
          /\ UNCHANGED rows
       \/ /\ pols[r] \ QuotaPolicy # {}
          /\ decision' = [decision EXCEPT ![r] = "rate_limited"]
          /\ rows' = [rows EXCEPT ![r] = NoRows]
    /\ UNCHANGED <<durable, input, verdict, found, pols>>

\* consume_quotas writes back the cached rows; the event, its reservations and
\* the idempotency result commit with them.  The answer may still be lost.
Charged(r) == IF decision[r] = "allowed" THEN DOMAIN rows[r] ELSE {}
Settled(r) == [input |-> input[r], decision |-> decision[r], charged |-> Charged(r)]

Commit(r, reply) ==
    /\ pc[r] = "decided"
    /\ reply \in {decision[r], "lost"}
    /\ used' = [b \in Bucket |->
                  IF b \in Charged(r) THEN rows[r][b].used + input[r].units
                                      ELSE used[b]]
    /\ record' = [record EXCEPT ![input[r].idem] = Settled(r)]
    /\ Finish(r, reply)
    /\ UNCHANGED <<keyStatus, family, policy, adjustment, successor, grants,
                   activeScope, parentActive, integration, period, input>>

\* A lock or statement timeout, a Redis error, the 64-policy guard or the death
\* of the worker: the transaction rolls back and every row lock is released.
Abort(r) ==
    /\ pc[r] \notin {"idle", "done"}
    /\ Finish(r, "unavailable")
    /\ UNCHANGED <<durable, input>>

Verify(r) ==
    \/ LookUpKey(r) \/ LockKey(r) \/ OpenRecord(r) \/ LockPolicies(r)
    \/ PrepareQuotas(r) \/ ConsumeRates(r)
    \/ \E reply \in {decision[r], "lost"} : Commit(r, reply)

-----------------------------------------------------------------------------
(* Administrative transactions: each commits in one step, which needs every *)
(* row it locks FOR UPDATE to be free                                       *)

IssueKey(k, scopes) ==
    /\ parentActive
    /\ keyStatus[k] = "absent"
    /\ scopes \subseteq activeScope
    /\ keyStatus' = [keyStatus EXCEPT ![k] = "live"]
    /\ family' = [family EXCEPT ![k] = k]
    /\ grants' = [grants EXCEPT ![k] = scopes]
    /\ UNCHANGED <<policy, used, adjustment, record, successor, activeScope,
                   parentActive, integration, period, calls>>

RevokeKey(k) ==
    /\ keyStatus[k] \in {"live", "expired"}
    /\ KeyFree(k)
    /\ keyStatus' = [keyStatus EXCEPT ![k] = "revoked"]
    /\ UNCHANGED <<family, policy, used, adjustment, record, successor, grants,
                   activeScope, parentActive, integration, period, calls>>

\* The successor inherits family and grants.  Without overlap the predecessor
\* is revoked at once, with overlap it lives on until it expires.
RotateKey(k, new, overlap) ==
    /\ parentActive
    /\ keyStatus[k] = "live"
    /\ successor[k] = k
    /\ KeyFree(k)
    /\ keyStatus[new] = "absent"
    /\ keyStatus' = [keyStatus EXCEPT ![new] = "live",
                                      ![k] = IF overlap THEN "live" ELSE "revoked"]
    /\ family' = [family EXCEPT ![new] = family[k]]
    /\ grants' = [grants EXCEPT ![new] = grants[k]]
    /\ successor' = [successor EXCEPT ![k] = new]
    /\ UNCHANGED <<policy, used, adjustment, record, activeScope, parentActive,
                   integration, period, calls>>

\* A key's expires_at passes; time asks for no lock.
ExpireKey(k) ==
    /\ keyStatus[k] = "live"
    /\ keyStatus' = [keyStatus EXCEPT ![k] = "expired"]
    /\ UNCHANGED <<family, policy, used, adjustment, record, successor, grants,
                   activeScope, parentActive, integration, period, calls>>

AssignPermissions(k, scopes) ==
    /\ parentActive
    /\ keyStatus[k] # "absent"
    /\ KeyFree(k)
    /\ scopes \subseteq activeScope
    /\ grants' = [grants EXCEPT ![k] = scopes]
    /\ UNCHANGED <<keyStatus, family, policy, used, adjustment, record, successor,
                   activeScope, parentActive, integration, period, calls>>

\* set_permission_status locks the service and the permission, not the keys.
SetPermissionStatus(s) ==
    /\ \/ activeScope' = activeScope \cup {s}
       \/ activeScope' = activeScope \ {s}
    /\ UNCHANGED <<keyStatus, family, policy, used, adjustment, record, successor,
                   grants, parentActive, integration, period, calls>>

\* set_service_status either way, archive_project, archive_organization; none
\* of them touches a row a verification locks.
SetParentStatus(status) ==
    /\ parentActive' = status
    /\ UNCHANGED <<keyStatus, family, policy, used, adjustment, record, successor,
                   grants, activeScope, integration, period, calls>>

RevokeIntegration ==
    /\ integration' = FALSE
    /\ UNCHANGED <<keyStatus, family, policy, used, adjustment, record, successor,
                   grants, activeScope, parentActive, period, calls>>

UpdatePolicy(p, active, limit) ==
    /\ PolicyFree(p)
    /\ policy[p].version < MaxVersion
    /\ policy' = [policy EXCEPT ![p] =
                    [active |-> active, version |-> policy[p].version + 1,
                     limit |-> limit]]
    /\ UNCHANGED <<keyStatus, family, used, adjustment, record, successor, grants,
                   activeScope, parentActive, integration, period, calls>>

\* adjust_quota on the current period's bucket; a key budget needs a key in it.
AdjustQuota(p, f, delta) ==
    LET b == <<p, f, period>>
    IN  /\ \/ Dimension[p] = "shared" /\ f = SharedBudget
           \/ /\ Dimension[p] = "key"
              /\ Applies(p, f)
              /\ \E k \in Key : keyStatus[k] # "absent" /\ family[k] = f
        /\ PolicyFree(p)
        /\ BucketFree(b)
        /\ adjustment[b] + delta \in -AdjustmentCap..AdjustmentCap
        /\ adjustment' = [adjustment EXCEPT ![b] = @ + delta]
        /\ UNCHANGED <<keyStatus, family, policy, used, record, successor, grants,
                       activeScope, parentActive, integration, period, calls>>

NextPeriod ==
    /\ period < MaxPeriod
    /\ period' = period + 1
    /\ UNCHANGED <<keyStatus, family, policy, used, adjustment, record, successor,
                   grants, activeScope, parentActive, integration, calls>>

Administer ==
    \/ \E k \in Key, scopes \in SUBSET Scope :
         IssueKey(k, scopes) \/ AssignPermissions(k, scopes)
    \/ \E k \in Key : RevokeKey(k) \/ ExpireKey(k)
    \/ \E k, new \in Key, overlap \in BOOLEAN : RotateKey(k, new, overlap)
    \/ \E s \in Scope : SetPermissionStatus(s)
    \/ \E status \in BOOLEAN : SetParentStatus(status)
    \/ RevokeIntegration
    \/ \E p \in Policy, active \in BOOLEAN, limit \in Limit :
         UpdatePolicy(p, active, limit)
    \/ \E p \in QuotaPolicy, f \in Key \cup {SharedBudget}, delta \in Delta :
         AdjustQuota(p, f, delta)
    \/ NextPeriod

-----------------------------------------------------------------------------
Next ==
    \/ \E r \in Request, in \in Input : Receive(r, in)
    \/ \E r \in Request : Verify(r) \/ Abort(r)
    \/ Administer

Spec == Init /\ [][Next]_vars

\* A request thread runs on, and its lock waits end: whoever holds a row is a
\* request that runs on too, and lock_timeout and statement_timeout end what
\* would wait too long.
FairSpec == Spec /\ \A r \in Request : WF_vars(Verify(r))

-----------------------------------------------------------------------------
(* Properties                                                              *)

\* A table of cached quota rows for every call.
RowsType(t) ==
    /\ t = [r \in Request |-> t[r]]
    /\ \A r \in Request : /\ DOMAIN t[r] \subseteq Bucket
                         /\ t[r] \in [DOMAIN t[r] -> Row]

\* The type of every variable; what a call decided is a decision.
TypeOK ==
    /\ keyStatus \in [Key -> KeyStatus]
    /\ family \in [Key -> Key]
    /\ policy \in [Policy -> PolicyRow]
    /\ used \in [Bucket -> Nat]
    /\ adjustment \in [Bucket -> Int]
    /\ record \in [Idem -> Event \cup {NoEvent}]
    /\ successor \in [Key -> Key]
    /\ grants \in [Key -> SUBSET Scope]
    /\ activeScope \in SUBSET Scope
    /\ parentActive \in BOOLEAN
    /\ integration \in BOOLEAN
    /\ period \in 1..MaxPeriod
    /\ pc \in [Request -> Stage]
    /\ input \in [Request -> Input]
    /\ verdict \in [Request -> Verdict]
    /\ found \in [Request -> BOOLEAN]
    /\ pols \in [Request -> SUBSET Policy]
    /\ decision \in [Request -> Decision \cup Refusal \cup {NoDecision}]
    /\ \A r \in Request : pc[r] = "decided" => decision[r] \in Decision
    /\ RowsType(rows)

\* The quota rows a decision was computed from are still what the database
\* holds when it is committed, however many other calls and operators run: the
\* used count written back loses no other call's charge.
CachedRowsCurrent ==
    \A r \in Request : pc[r] \in {"prepared", "decided"} =>
        \A b \in DOMAIN rows[r] :
            rows[r][b] = [used |-> used[b], adjustment |-> adjustment[b]]

\* The events that hold a reservation of bucket b.
Reservations(b) == {i \in Idem : record[i] # NoEvent /\ b \in record[i].charged}

\* reconcile_usage: each bucket's used count is the sum of its reservations,
\* across concurrent calls, retries, aborts, rotations and period changes.
LedgerBalanced ==
    \A b \in Bucket :
        used[b] = SumFunction([i \in Reservations(b) |-> record[i].input.units])

\* A caller told "allowed" holds a settled decision for exactly its own input,
\* and so every call with one idempotency key that was allowed was allowed for
\* one credential, one set of scopes and one charge.
AllowedIsSettled ==
    \A r \in Request : pc[r] = "done" /\ decision[r] = "allowed" =>
        LET event == record[input[r].idem]
        IN  event # NoEvent /\ event.decision = "allowed" /\ event.input = input[r]

\* Once the revocation of a key (or its rotation without overlap) has committed
\* no call commits an allow for it, whatever it had read before.
NoAllowAfterRevocation ==
    [][\A i \in Idem : record'[i] # record[i] /\ record'[i].decision = "allowed"
          => keyStatus[record'[i].input.key] # "revoked"]_vars

\* A charge never takes a bucket past the allowance in force when it commits,
\* even when the limit or the adjustment is being edited.
QuotaNeverOverspent ==
    [][\A b \in Bucket : used'[b] # used[b] =>
          used'[b] > used[b] /\ used'[b] <= Allowance(b)]_vars

\* Rotation does not refill a budget: under a key-dimension policy a key and
\* the key it was rotated into spend from one bucket.
RotationKeepsBudget ==
    \A i, j \in Idem :
        /\ record[i] # NoEvent
        /\ record[j] # NoEvent
        /\ record[j].input.key = successor[record[i].input.key]
        => \A b \in record[i].charged, c \in record[j].charged :
               b[1] = c[1] => b[2] = c[2]

\* Every call that got past the integration credential is answered, although
\* it may wait for rows other calls hold.
EveryCallAnswered ==
    \A r \in Request : pc[r] = "received" ~> pc[r] = "done"

Ledger == INSTANCE AccessLedger

\* The whole protocol is an implementation of one-step decisions.
ImplementsLedger == Ledger!Spec

\* ADR 0004: "Parent archive/disable blocks subsequent decisions."  A call that
\* has not opened its decision transaction when a parent is disabled is not
\* answered with an allow, unless the parents are active again by then.
ParentDisableBlocksDecisions ==
    \A r \in Request :
        pc[r] \in {"received", "looked"} /\ ~parentActive
            ~> parentActive \/ (pc[r] = "done" /\ decision[r] # "allowed")
=============================================================================
