------------------------ MODULE Verification_proofs -------------------------
(***************************************************************************)
(* Proofs about Verification for every number of calls, keys, policies and *)
(* buckets: type correctness, the inductive invariant that the row locks   *)
(* maintain, and what follows from it.                                     *)
(***************************************************************************)
EXTENDS Verification, Recursion, TLAPS

USE ConstantsAssumption DEF InTransaction

(***************************************************************************)
(* Type correctness.                                                       *)
(***************************************************************************)

RowTable == UNION {[S -> Row] : S \in SUBSET Bucket}

LEMMA RowsTyped == \A t : RowsType(t) <=> t \in [Request -> RowTable]
<1>1. ASSUME NEW u
      PROVE  u \in RowTable <=> DOMAIN u \subseteq Bucket /\ u \in [DOMAIN u -> Row]
  BY DEF RowTable
<1>2. QED
  BY <1>1 DEF RowsType

USE RowsTyped DEF Row

LEMMA NoRowsType == NoRows \in RowTable
<1>1. NoRows \in [{} -> Row]
  BY DEF NoRows
<1>2. QED
  BY <1>1 DEF RowTable

LEMMA InitType == Init => TypeOK
<1> SUFFICES ASSUME Init PROVE TypeOK
  OBVIOUS
<1>1. (CHOOSE in \in Input : TRUE) \in Input
  BY Zenon DEF ConstantsAssumption
<1>2. policy \in [Policy -> PolicyRow]
  BY DEF Init, PolicyRow
<1>3. rows \in [Request -> RowTable]
  BY NoRowsType DEF Init
<1>4. record \in [Idem -> Event \cup {NoEvent}] /\ input \in [Request -> Input]
  BY <1>1 DEF Init
<1>5. QED
  BY <1>2, <1>3, <1>4 DEF Init, TypeOK, KeyStatus, Stage, Verdict

LEMMA KeyVerdictType ==
  ASSUME TypeOK, NEW k \in Key
  PROVE  KeyVerdict(k) \in Verdict
BY DEF TypeOK, KeyVerdict, KeyStatus, Verdict

LEMMA FinishType ==
  ASSUME TypeOK, NEW r \in Request, NEW reply \in Decision \cup Refusal, Finish(r, reply)
  PROVE  /\ pc' \in [Request -> Stage]
         /\ verdict' \in [Request -> Verdict]
         /\ found' \in [Request -> BOOLEAN]
         /\ pols' \in [Request -> SUBSET Policy]
         /\ rows' \in [Request -> RowTable]
         /\ decision' \in [Request -> Decision \cup Refusal \cup {NoDecision}]
         /\ \A q \in Request : pc'[q] = "decided" => decision'[q] \in Decision
BY NoRowsType DEF TypeOK, Finish, Stage, Verdict

LEMMA BucketType ==
  ASSUME TypeOK, NEW r \in Request
  PROVE  QuotaBuckets(r) \subseteq Bucket
<1>1. SUFFICES ASSUME NEW p \in pols[r] \cap QuotaPolicy
               PROVE <<p, BudgetOf(p, family[input[r].key]), period>> \in Bucket
  BY DEF QuotaBuckets
<1>2. input[r].key \in Key /\ family[input[r].key] \in Key
  BY DEF TypeOK
<1>3. QED
  BY <1>2 DEF TypeOK, BudgetOf, Bucket

\* Every value verify_access and the operators' transactions store has the
\* type its column or local variable is declared with.
THEOREM TypeCorrect == Spec => []TypeOK
<1>1. Init => TypeOK
  BY InitType
<1>2. TypeOK /\ [Next]_vars => TypeOK'
  <2> SUFFICES ASSUME TypeOK, [Next]_vars PROVE TypeOK'
    OBVIOUS
  <2> USE DEF durable, calls
  <2>1. ASSUME NEW r \in Request, NEW in \in Input, Receive(r, in) PROVE TypeOK'
    <3>1. input' \in [Request -> Input]
      BY <2>1 DEF Receive, TypeOK
    <3>2. CASE integration /\ parentActive
      BY <2>1, <3>1, <3>2 DEF Receive, TypeOK, Stage
    <3>3. CASE ~(integration /\ parentActive)
      <4>1. Finish(r, "invalid_integration_credential") /\ UNCHANGED durable
        BY <2>1, <3>3 DEF Receive
      <4>2. QED
        BY <3>1, <4>1, FinishType DEF TypeOK, Refusal
    <3>4. QED
      BY <3>2, <3>3
  <2>2. ASSUME NEW r \in Request, LookUpKey(r) PROVE TypeOK'
    <3>1. input[r].key \in Key
      BY DEF TypeOK
    <3>2. QED
      BY <2>2, <3>1, KeyVerdictType DEF LookUpKey, TypeOK, Stage
  <2>3. ASSUME NEW r \in Request, LockKey(r) PROVE TypeOK'
    <3>1. input[r].key \in Key
      BY DEF TypeOK
    <3>2. KeyVerdict(input[r].key) \in Verdict /\ verdict[r] \in Verdict
      BY <3>1, KeyVerdictType DEF TypeOK
    <3>3. \A granted : ScopeVerdict(input[r], granted) \in Verdict
      BY DEF ScopeVerdict, Verdict
    <3>4. pc' \in [Request -> Stage] /\ verdict' \in [Request -> Verdict]
      BY <2>3, <3>2, <3>3 DEF LockKey, TypeOK, Stage
    <3>5. QED
      BY <2>3, <3>4 DEF LockKey, TypeOK
  <2>4. ASSUME NEW r \in Request, OpenRecord(r) PROVE TypeOK'
    <3>1. input[r] \in Input /\ input[r].idem \in Idem /\ verdict[r] \in Verdict
      BY DEF TypeOK
    <3>2. verdict[r] # "ok" => verdict[r] \in Decision
      BY <3>1 DEF Verdict, Decision, Denial
    <3>3. CASE record[input[r].idem] # NoEvent
      <4>1. record[input[r].idem].decision \in Decision
        BY <3>1, <3>3 DEF TypeOK, Event
      <4>2. PICK reply \in Decision \cup Refusal : Finish(r, reply)
        BY <2>4, <3>2, <3>3, <4>1 DEF OpenRecord, Replay, Refusal
      <4>3. UNCHANGED <<durable, input>>
        BY <2>4 DEF OpenRecord
      <4>4. QED
        BY <4>2, <4>3, FinishType DEF TypeOK
    <3>4. CASE record[input[r].idem] = NoEvent /\ verdict[r] # "ok"
      BY <2>4, <3>2, <3>4 DEF OpenRecord, TypeOK, Stage
    <3>5. CASE record[input[r].idem] = NoEvent /\ verdict[r] = "ok"
      <4>1. SelectedPolicies(input[r].key) \in SUBSET Policy
        BY DEF SelectedPolicies
      <4>2. /\ pc' = [pc EXCEPT ![r] = "opened"]
            /\ pols' = [pols EXCEPT ![r] = SelectedPolicies(input[r].key)]
            /\ UNCHANGED <<verdict, found, rows, decision, input, durable>>
        BY <2>4, <3>5 DEF OpenRecord
      <4>3. QED
        BY <4>1, <4>2 DEF TypeOK, Stage
    <3>6. QED
      BY <3>3, <3>4, <3>5
  <2>5. ASSUME NEW r \in Request, LockPolicies(r) PROVE TypeOK'
    BY <2>5 DEF LockPolicies, TypeOK, Stage
  <2>6. ASSUME NEW r \in Request, PrepareQuotas(r) PROVE TypeOK'
    <3> DEFINE buckets == QuotaBuckets(r)
               taken == [b \in buckets |->
                           [used |-> used[b], adjustment |-> adjustment[b]]]
    <3>1. buckets \subseteq Bucket
      BY BucketType
    <3>2. taken \in RowTable
      <4>1. taken \in [buckets -> Row]
        BY <3>1 DEF TypeOK
      <4>2. QED
        BY <3>1, <4>1 DEF RowTable
    <3>3. CASE pc' = [pc EXCEPT ![r] = "prepared"]
      <4>1. rows' = [rows EXCEPT ![r] = taken] /\ decision' = decision
        BY <2>6, <3>3 DEF PrepareQuotas, TypeOK
      <4>2. rows' \in [Request -> RowTable]
        <5> HIDE DEF taken
        <5>1. QED
          BY <3>2, <4>1 DEF TypeOK
      <4>3. QED
        BY <2>6, <3>3, <4>1, <4>2 DEF PrepareQuotas, TypeOK, Stage
    <3>4. CASE /\ pc' = [pc EXCEPT ![r] = "decided"]
               /\ rows' = rows
               /\ decision' = [decision EXCEPT ![r] = "quota_exceeded"]
      <4>1. "quota_exceeded" \in Decision
        BY DEF Decision, Denial
      <4>2. QED
        BY <2>6, <3>4, <4>1 DEF PrepareQuotas, TypeOK, Stage
    <3>5. QED
      BY <2>6, <3>3, <3>4 DEF PrepareQuotas
  <2>7. ASSUME NEW r \in Request, ConsumeRates(r) PROVE TypeOK'
    <3>1. rows' \in [Request -> RowTable]
      BY <2>7, NoRowsType DEF ConsumeRates, TypeOK
    <3>2. \E d \in {"allowed", "rate_limited"} : decision' = [decision EXCEPT ![r] = d]
      BY <2>7 DEF ConsumeRates
    <3>3. {"allowed", "rate_limited"} \subseteq Decision
      BY DEF Decision, Denial
    <3>4. pc' = [pc EXCEPT ![r] = "decided"] /\ pc' \in [Request -> Stage]
      BY <2>7 DEF ConsumeRates, TypeOK, Stage
    <3>5. QED
      BY <2>7, <3>1, <3>2, <3>3, <3>4 DEF ConsumeRates, TypeOK
  <2>8. ASSUME NEW r \in Request, NEW reply, Commit(r, reply) PROVE TypeOK'
    <3>1. /\ input[r] \in Input /\ input[r].units \in Nat /\ input[r].idem \in Idem
          /\ rows[r] \in RowTable
      BY DEF TypeOK
    <3>2. PICK S \in SUBSET Bucket : rows[r] \in [S -> Row]
      BY <3>1 DEF RowTable
    <3>3. Charged(r) \subseteq Bucket /\ \A b \in Charged(r) : rows[r][b].used \in Nat
      BY <3>2 DEF Charged
    <3>4. used' \in [Bucket -> Nat]
      BY <2>8, <3>1, <3>3 DEF Commit, TypeOK
    <3>5. decision[r] \in Decision
      BY <2>8 DEF Commit, TypeOK
    <3>6. record' \in [Idem -> Event \cup {NoEvent}]
      BY <2>8, <3>1, <3>3, <3>5 DEF Commit, Settled, TypeOK, Event
    <3>7. reply \in Decision \cup Refusal
      BY <2>8, <3>5 DEF Commit, Refusal
    <3>8. QED
      BY <2>8, <3>4, <3>6, <3>7, FinishType DEF Commit, TypeOK
  <2>9. ASSUME NEW r \in Request, Abort(r) PROVE TypeOK'
    BY <2>9, FinishType DEF Abort, TypeOK, Refusal
  <2>10. ASSUME NEW k \in Key, NEW scopes \in SUBSET Scope, IssueKey(k, scopes)
         PROVE  TypeOK'
    BY <2>10 DEF IssueKey, TypeOK, KeyStatus
  <2>11. ASSUME NEW k \in Key, NEW scopes \in SUBSET Scope, AssignPermissions(k, scopes)
         PROVE  TypeOK'
    BY <2>11 DEF AssignPermissions, TypeOK
  <2>12. ASSUME NEW k \in Key, RevokeKey(k) \/ ExpireKey(k) PROVE TypeOK'
    BY <2>12 DEF RevokeKey, ExpireKey, TypeOK, KeyStatus
  <2>13. ASSUME NEW k \in Key, NEW new \in Key, NEW overlap \in BOOLEAN,
                RotateKey(k, new, overlap)
         PROVE  TypeOK'
    BY <2>13 DEF RotateKey, TypeOK, KeyStatus
  <2>14. ASSUME NEW s \in Scope, SetPermissionStatus(s) PROVE TypeOK'
    BY <2>14 DEF SetPermissionStatus, TypeOK
  <2>15. ASSUME NEW status \in BOOLEAN, SetParentStatus(status) PROVE TypeOK'
    BY <2>15 DEF SetParentStatus, TypeOK
  <2>16. ASSUME RevokeIntegration PROVE TypeOK'
    BY <2>16 DEF RevokeIntegration, TypeOK
  <2>17. ASSUME NEW p \in Policy, NEW active \in BOOLEAN, NEW limit \in Limit,
                UpdatePolicy(p, active, limit)
         PROVE  TypeOK'
    <3>1. policy[p].version + 1 \in Nat \ {0}
      BY DEF TypeOK, PolicyRow
    <3>2. policy' \in [Policy -> PolicyRow]
      BY <2>17, <3>1 DEF UpdatePolicy, TypeOK, PolicyRow
    <3>3. QED
      BY <2>17, <3>2 DEF UpdatePolicy, TypeOK
  <2>18. ASSUME NEW p \in QuotaPolicy, NEW f \in Key \cup {SharedBudget}, NEW delta \in Delta,
                AdjustQuota(p, f, delta)
         PROVE  TypeOK'
    <3>1. adjustment' \in [Bucket -> Int]
      BY <2>18 DEF AdjustQuota, TypeOK, Bucket
    <3>2. QED
      BY <2>18, <3>1 DEF AdjustQuota, TypeOK
  <2>19. ASSUME NextPeriod PROVE TypeOK'
    BY <2>19 DEF NextPeriod, TypeOK
  <2>20. CASE UNCHANGED vars
    BY <2>20 DEF vars, TypeOK
  <2>21. QED
    BY <2>1, <2>2, <2>3, <2>4, <2>5, <2>6, <2>7, <2>8, <2>9, <2>10, <2>11, <2>12,
       <2>13, <2>14, <2>15, <2>16, <2>17, <2>18, <2>19, <2>20
    DEF Next, Verify, Administer
<1>3. QED
  BY <1>1, <1>2, PTL DEF Spec

-----------------------------------------------------------------------------
HIDE RowsTyped

(***************************************************************************)
(* The inductive invariant.  While a call may still decide "allowed", the  *)
(* rows it has locked keep the values it decided from: its key is not      *)
(* revoked, its policies stay as they were, its quota rows still have room *)
(* and its idempotency record is still unsettled.  Two calls never hold    *)
(* one record or one bucket.                                               *)
(***************************************************************************)

\* The call has passed every check so far and may commit an allow.
MayAllow(r) ==
    \/ pc[r] \in {"opened", "policies", "prepared"}
    \/ pc[r] = "decided" /\ decision[r] = "allowed"

KeyHeld(r) ==
    /\ pc[r] = "looked" => (found[r] <=> verdict[r] = "ok")
    /\ MayAllow(r) \/ (pc[r] = "locked" /\ verdict[r] = "ok") =>
         found[r] /\ keyStatus[input[r].key] \in {"live", "expired"}

PoliciesHeld(r) ==
    MayAllow(r) =>
        /\ \A p \in pols[r] : Applies(p, family[input[r].key])
        /\ pc[r] # "opened" => \A p \in pols[r] : policy[p].active
        /\ \A p \in Policy :
             /\ policy[p].active
             /\ policy[p].version = 1
             /\ Applies(p, family[input[r].key])
             => p \in pols[r]

RowsHeld(r) ==
    IF MayAllow(r) /\ pc[r] \in {"prepared", "decided"}
    THEN /\ \A p \in pols[r] \cap QuotaPolicy : \E b \in DOMAIN rows[r] : b[1] = p
         /\ \A b \in DOMAIN rows[r] :
              /\ b \in Bucket
              /\ b[1] \in pols[r]
              /\ b[2] = BudgetOf(b[1], family[input[r].key])
              /\ rows[r][b] = [used |-> used[b], adjustment |-> adjustment[b]]
              /\ used[b] + input[r].units <= Allowance(b)
         /\ \A b, c \in DOMAIN rows[r] : b[1] = c[1] => b = c
    ELSE DOMAIN rows[r] = {}

RecordHeld(r) ==
    pc[r] \in InTransaction \ {"locked"} => record[input[r].idem] = NoEvent

\* A call told "allowed" has a settled decision (AllowedIsSettled, per call).
ReplySettled(r) ==
    pc[r] = "done" /\ decision[r] = "allowed" =>
        LET event == record[input[r].idem]
        IN  event # NoEvent /\ event.decision = "allowed" /\ event.input = input[r]

CallOK(r) ==
    KeyHeld(r) /\ PoliciesHeld(r) /\ RowsHeld(r) /\ RecordHeld(r) /\ ReplySettled(r)

Exclusive ==
    \A r, s \in Request : r # s =>
        /\ \A i \in Idem : ~(HoldsRecord(r, i) /\ HoldsRecord(s, i))
        /\ \A b \in Bucket : ~(HoldsBucket(r, b) /\ HoldsBucket(s, b))

IInv == TypeOK /\ Exclusive /\ \A r \in Request : CallOK(r)

LEMMA InitIInv == Init => IInv
<1> SUFFICES ASSUME Init PROVE IInv
  OBVIOUS
<1>1. TypeOK
  BY InitType
<1>2. Exclusive
  BY DEF Init, Exclusive, HoldsRecord, HoldsBucket
<1>3. ASSUME NEW r \in Request PROVE CallOK(r)
  <2>1. pc[r] = "idle" /\ DOMAIN rows[r] = {}
    BY DEF Init, NoRows
  <2>2. QED
    BY <2>1 DEF CallOK, KeyHeld, PoliciesHeld, RowsHeld, RecordHeld, ReplySettled, MayAllow
<1>4. QED
  BY <1>1, <1>2, <1>3 DEF IInv

\* What a step leaves alone for call r.
Untouched(r) ==
    /\ pc'[r] = pc[r]
    /\ input'[r] = input[r]
    /\ verdict'[r] = verdict[r]
    /\ found'[r] = found[r]
    /\ pols'[r] = pols[r]
    /\ rows'[r] = rows[r]
    /\ decision'[r] = decision[r]

\* A step that changes no durable row keeps every other call as it was.
LEMMA CallFrame ==
  ASSUME NEW r \in Request, CallOK(r), Untouched(r), UNCHANGED durable
  PROVE  CallOK(r)'
BY DEF CallOK, Untouched, durable, KeyHeld, PoliciesHeld, RowsHeld, RecordHeld,
       ReplySettled, MayAllow, Allowance

\* Locks stay exclusive when call s steps and each lock it newly takes was free.
LEMMA ExclusiveStep ==
  ASSUME Exclusive, NEW s \in Request,
         \A r \in Request \ {s} : Untouched(r),
         \A i \in Idem : HoldsRecord(s, i)' => HoldsRecord(s, i) \/ RecordFree(i),
         \A b \in Bucket : HoldsBucket(s, b)' => HoldsBucket(s, b) \/ BucketFree(b)
  PROVE  Exclusive'
<1>1. ASSUME NEW r \in Request \ {s}, NEW i, NEW b
      PROVE  /\ HoldsRecord(r, i)' <=> HoldsRecord(r, i)
             /\ HoldsBucket(r, b)' <=> HoldsBucket(r, b)
  BY DEF Untouched, HoldsRecord, HoldsBucket
<1>2. QED
  BY <1>1 DEF Exclusive, RecordFree, BucketFree

\* A call that ends without a charge disturbs nothing, if "allowed" is true.
LEMMA FinishStep ==
  ASSUME IInv, NEW s \in Request, NEW reply, Finish(s, reply), UNCHANGED durable,
         \A r \in Request \ {s} : input'[r] = input[r],
         reply = "allowed" =>
            LET event == record[input'[s].idem]
            IN  event # NoEvent /\ event.decision = "allowed" /\ event.input = input'[s]
  PROVE  Exclusive' /\ \A r \in Request : CallOK(r)'
<1>1. \A r \in Request \ {s} : Untouched(r)
  BY RowsTyped DEF IInv, TypeOK, Finish, Untouched
<1>2. pc'[s] = "done" /\ decision'[s] = reply /\ rows'[s] = NoRows
  BY RowsTyped DEF IInv, TypeOK, Finish
<1>3. \A r \in Request \ {s} : CallOK(r)'
  BY <1>1, CallFrame DEF IInv
<1>4. CallOK(s)'
  BY <1>2 DEF CallOK, KeyHeld, PoliciesHeld, RowsHeld, RecordHeld, ReplySettled,
              MayAllow, NoRows, durable
<1>5. Exclusive'
  BY <1>1, <1>2, ExclusiveStep DEF IInv, HoldsRecord, HoldsBucket
<1>6. QED
  BY <1>3, <1>4, <1>5

\* A step of call s that changes only its own locals keeps the invariant when
\* it keeps it for s and takes no held lock.
LEMMA LocalStep ==
  ASSUME IInv, NEW s \in Request, UNCHANGED durable,
         \A r \in Request \ {s} : Untouched(r),
         \A i \in Idem : HoldsRecord(s, i)' => HoldsRecord(s, i) \/ RecordFree(i),
         \A b \in Bucket : HoldsBucket(s, b)' => HoldsBucket(s, b) \/ BucketFree(b),
         CallOK(s)'
  PROVE  Exclusive' /\ \A r \in Request : CallOK(r)'
BY CallFrame, ExclusiveStep DEF IInv

LEMMA ReceiveStep ==
  ASSUME IInv, NEW s \in Request, NEW in \in Input, Receive(s, in)
  PROVE  Exclusive' /\ \A r \in Request : CallOK(r)'
<1>1. CASE integration /\ parentActive
  <2>1. \A r \in Request \ {s} : Untouched(r)
    BY <1>1 DEF IInv, TypeOK, Receive, Untouched
  <2>2. pc[s] = "idle" /\ pc'[s] = "received" /\ rows'[s] = rows[s]
    BY <1>1 DEF IInv, TypeOK, Receive
  <2>3. DOMAIN rows[s] = {}
    BY <2>2 DEF IInv, CallOK, RowsHeld, MayAllow
  <2>4. CallOK(s)'
    BY <2>2, <2>3 DEF CallOK, KeyHeld, PoliciesHeld, RowsHeld, RecordHeld,
                      ReplySettled, MayAllow
  <2>5. QED
    BY <1>1, <2>1, <2>2, <2>4, LocalStep DEF Receive, HoldsRecord, HoldsBucket
<1>2. CASE ~(integration /\ parentActive)
  <2>1. Finish(s, "invalid_integration_credential") /\ UNCHANGED durable
    BY <1>2 DEF Receive
  <2>2. \A r \in Request \ {s} : input'[r] = input[r]
    BY DEF Receive, IInv, TypeOK
  <2>3. QED
    BY <2>1, <2>2, FinishStep
<1>3. QED
  BY <1>1, <1>2

LEMMA LookUpKeyStep ==
  ASSUME IInv, NEW s \in Request, LookUpKey(s)
  PROVE  Exclusive' /\ \A r \in Request : CallOK(r)'
<1>1. \A r \in Request \ {s} : Untouched(r)
  BY DEF IInv, TypeOK, LookUpKey, Untouched
<1>2. /\ pc[s] = "received" /\ pc'[s] = "looked" /\ rows'[s] = rows[s]
      /\ found'[s] = (KeyVerdict(input[s].key) = "ok")
      /\ verdict'[s] = KeyVerdict(input[s].key)
  BY DEF IInv, TypeOK, LookUpKey
<1>3. DOMAIN rows[s] = {}
  BY <1>2 DEF IInv, CallOK, RowsHeld, MayAllow
<1>4. CallOK(s)'
  BY <1>2, <1>3 DEF CallOK, KeyHeld, PoliciesHeld, RowsHeld, RecordHeld,
                    ReplySettled, MayAllow
<1>5. QED
  BY <1>1, <1>2, <1>4, LocalStep DEF LookUpKey, HoldsRecord, HoldsBucket

LEMMA LockKeyStep ==
  ASSUME IInv, NEW s \in Request, LockKey(s)
  PROVE  Exclusive' /\ \A r \in Request : CallOK(r)'
<1>1. \A r \in Request \ {s} : Untouched(r)
  BY DEF IInv, TypeOK, LockKey, Untouched
<1>2. /\ pc[s] = "looked" /\ pc'[s] = "locked" /\ rows'[s] = rows[s]
      /\ found'[s] = found[s] /\ input'[s] = input[s]
      /\ UNCHANGED durable
  BY DEF IInv, TypeOK, LockKey
<1>3. DOMAIN rows[s] = {}
  BY <1>2 DEF IInv, CallOK, RowsHeld, MayAllow
<1>4. verdict'[s] = "ok" => found[s] /\ keyStatus[input[s].key] = "live"
  <2>1. found[s] <=> verdict[s] = "ok"
    BY <1>2 DEF IInv, CallOK, KeyHeld
  <2>2. ASSUME verdict'[s] = "ok"
        PROVE  found[s] /\ KeyVerdict(input[s].key) = "ok"
    BY <2>1, <2>2 DEF LockKey, IInv, TypeOK
  <2>3. ASSUME KeyVerdict(input[s].key) = "ok" PROVE keyStatus[input[s].key] = "live"
    BY <2>3 DEF KeyVerdict, IInv, TypeOK, KeyStatus
  <2>4. QED
    BY <2>2, <2>3
<1>5. CallOK(s)'
  BY <1>2, <1>3, <1>4 DEF CallOK, KeyHeld, PoliciesHeld, RowsHeld, RecordHeld,
                          ReplySettled, MayAllow, durable
<1>6. QED
  BY <1>1, <1>2, <1>5, LocalStep DEF HoldsRecord, HoldsBucket

LEMMA OpenRecordStep ==
  ASSUME IInv, NEW s \in Request, OpenRecord(s)
  PROVE  Exclusive' /\ \A r \in Request : CallOK(r)'
<1> DEFINE event == record[input[s].idem]
<1>1. pc[s] = "locked" /\ UNCHANGED durable /\ input' = input /\ RecordFree(input[s].idem)
  BY DEF OpenRecord
<1>2. DOMAIN rows[s] = {}
  BY <1>1 DEF IInv, CallOK, RowsHeld, MayAllow
<1>3. CASE event # NoEvent
  <2>1. Finish(s, IF event.input = input[s] THEN Replay(s) ELSE "idempotency_conflict")
    BY <1>3 DEF OpenRecord, SameRequest
  <2>2. verdict[s] # "allowed"
    BY DEF IInv, TypeOK, Verdict
  <2>3. Replay(s) = "allowed" => event.decision = "allowed"
    BY <2>2 DEF Replay
  <2>4. QED
    BY <1>1, <1>3, <2>1, <2>3, FinishStep DEF durable
<1>4. CASE event = NoEvent /\ verdict[s] # "ok"
  <2>1. /\ pc' = [pc EXCEPT ![s] = "decided"]
        /\ decision' = [decision EXCEPT ![s] = verdict[s]]
        /\ UNCHANGED <<verdict, found, pols, rows>>
    BY <1>4 DEF OpenRecord
  <2>2. verdict[s] # "allowed"
    BY DEF IInv, TypeOK, Verdict
  <2>3. \A r \in Request \ {s} : Untouched(r)
    BY <1>1, <2>1 DEF IInv, TypeOK, Untouched
  <2>4. pc'[s] = "decided" /\ decision'[s] # "allowed"
    BY <2>1, <2>2 DEF IInv, TypeOK
  <2>5. CallOK(s)'
    BY <1>1, <1>2, <1>4, <2>1, <2>4
    DEF CallOK, KeyHeld, PoliciesHeld, RowsHeld, RecordHeld, ReplySettled,
        MayAllow, durable
  <2>6. QED
    BY <1>1, <1>2, <2>1, <2>3, <2>4, <2>5, LocalStep DEF HoldsRecord, HoldsBucket
<1>5. CASE event = NoEvent /\ verdict[s] = "ok"
  <2>1. /\ pc' = [pc EXCEPT ![s] = "opened"]
        /\ pols' = [pols EXCEPT ![s] = SelectedPolicies(input[s].key)]
        /\ UNCHANGED <<verdict, found, rows, decision>>
    BY <1>5 DEF OpenRecord
  <2>2. \A r \in Request \ {s} : Untouched(r)
    BY <1>1, <2>1 DEF IInv, TypeOK, Untouched
  <2>3. pc'[s] = "opened" /\ pols'[s] = SelectedPolicies(input[s].key)
    BY <2>1 DEF IInv, TypeOK
  <2>4. KeyHeld(s)'
    BY <1>1, <1>5, <2>1, <2>3 DEF IInv, CallOK, KeyHeld, MayAllow, durable
  <2>5. PoliciesHeld(s)'
    BY <1>1, <2>3 DEF PoliciesHeld, SelectedPolicies, durable, Applies
  <2>6. CallOK(s)'
    BY <1>1, <1>2, <1>5, <2>1, <2>3, <2>4, <2>5
    DEF CallOK, RowsHeld, RecordHeld, ReplySettled, MayAllow, durable
  <2>7. QED
    BY <1>1, <2>1, <2>2, <2>3, <2>6, LocalStep DEF HoldsRecord, HoldsBucket
<1>6. QED
  BY <1>3, <1>4, <1>5

LEMMA LockPoliciesStep ==
  ASSUME IInv, NEW s \in Request, LockPolicies(s)
  PROVE  Exclusive' /\ \A r \in Request : CallOK(r)'
<1>1. \A r \in Request \ {s} : Untouched(r)
  BY DEF IInv, TypeOK, LockPolicies, Untouched
<1>2. /\ pc[s] = "opened" /\ pc'[s] = "policies"
      /\ pols'[s] = {p \in pols[s] : policy[p].active}
      /\ UNCHANGED <<durable, input, verdict, found, rows, decision>>
  BY DEF IInv, TypeOK, LockPolicies
<1>3. CallOK(s)
  BY DEF IInv
<1>4. KeyHeld(s)'
  BY <1>2, <1>3 DEF CallOK, KeyHeld, MayAllow, durable
<1>5. PoliciesHeld(s)'
  BY <1>2, <1>3 DEF CallOK, PoliciesHeld, MayAllow, durable, Applies
<1>6. CallOK(s)'
  BY <1>2, <1>3, <1>4, <1>5
  DEF CallOK, RowsHeld, RecordHeld, ReplySettled, MayAllow, durable, InTransaction
<1>7. QED
  BY <1>1, <1>2, <1>6, LocalStep DEF HoldsRecord, HoldsBucket

\* The rows taken are the buckets' current values and all have room.
LEMMA PrepareQuotasStep ==
  ASSUME IInv, NEW s \in Request, PrepareQuotas(s)
  PROVE  Exclusive' /\ \A r \in Request : CallOK(r)'
<1> DEFINE buckets == QuotaBuckets(s)
           taken == [b \in buckets |->
                       [used |-> used[b], adjustment |-> adjustment[b]]]
<1>1. \A r \in Request \ {s} : Untouched(r)
  BY RowsTyped DEF IInv, TypeOK, PrepareQuotas, Untouched
<1>2. /\ pc[s] = "policies"
      /\ UNCHANGED <<durable, input, verdict, found, pols>>
      /\ \A b \in buckets : BucketFree(b)
  BY DEF PrepareQuotas
<1>3. CallOK(s)
  BY DEF IInv
<1>4. CASE \A b \in buckets : used[b] + input[s].units <= Allowance(b)
  <2>1. pc'[s] = "prepared" /\ decision' = decision /\ rows'[s] = taken
    BY <1>4, RowsTyped DEF IInv, TypeOK, PrepareQuotas, HasRoom
  <2>2. KeyHeld(s)' /\ PoliciesHeld(s)'
    BY <1>2, <1>3, <2>1
    DEF CallOK, KeyHeld, PoliciesHeld, MayAllow, durable, Applies
  <2>3. buckets \subseteq Bucket
    BY BucketType DEF IInv
  <2>4. ASSUME NEW b \in buckets
        PROVE  /\ b[1] \in pols[s] \cap QuotaPolicy
               /\ b = <<b[1], BudgetOf(b[1], family[input[s].key]), period>>
    BY DEF QuotaBuckets
  <2>5. ASSUME NEW p \in pols[s] \cap QuotaPolicy PROVE \E b \in buckets : b[1] = p
    <3>1. <<p, BudgetOf(p, family[input[s].key]), period>> \in buckets
      BY DEF QuotaBuckets
    <3>2. <<p, BudgetOf(p, family[input[s].key]), period>>[1] = p
      OBVIOUS
    <3> HIDE DEF buckets
    <3>3. QED
      BY <3>1, <3>2
  <2>6. RowsHeld(s)'
    <3>1. DOMAIN rows'[s] = buckets
      BY <2>1
    <3>2. \A b \in buckets :
             rows'[s][b] = [used |-> used[b], adjustment |-> adjustment[b]]
      BY <2>1
    <3>3. /\ used' = used /\ adjustment' = adjustment /\ policy' = policy
          /\ family' = family /\ input' = input /\ pols' = pols
      BY <1>2 DEF durable
    <3>4. \A b \in buckets : Allowance(b)' = Allowance(b)
      BY <3>3 DEF Allowance
    <3>5. \A b, c \in buckets : b[1] = c[1] => b = c
      BY <2>4
    <3>6. \A b \in buckets :
            /\ b \in Bucket
            /\ b[1] \in pols'[s]
            /\ b[2] = BudgetOf(b[1], family'[input'[s].key])
            /\ rows'[s][b] = [used |-> used'[b], adjustment |-> adjustment'[b]]
            /\ used'[b] + input'[s].units <= Allowance(b)'
      <4>1. ASSUME NEW b \in buckets
            PROVE b[2] = BudgetOf(b[1], family[input[s].key])
        BY <2>4
      <4>2. QED
        BY <1>4, <2>3, <2>4, <3>2, <3>3, <3>4, <4>1
    <3>7. \A p \in pols'[s] \cap QuotaPolicy : \E b \in buckets : b[1] = p
      BY <2>5, <3>3
    <3>8. MayAllow(s)' /\ pc'[s] \in {"prepared", "decided"}
      BY <2>1 DEF MayAllow
    <3> HIDE DEF buckets
    <3>9. QED
      BY <3>1, <3>5, <3>6, <3>7, <3>8 DEF RowsHeld
  <2>7. RecordHeld(s)' /\ ReplySettled(s)'
    BY <1>2, <1>3, <2>1 DEF CallOK, RecordHeld, ReplySettled, durable
  <2>8. \A b \in Bucket : HoldsBucket(s, b)' => BucketFree(b)
    BY <1>2, <2>1 DEF HoldsBucket
  <2>9. \A i \in Idem : HoldsRecord(s, i)' => HoldsRecord(s, i)
    BY <1>2, <2>1 DEF HoldsRecord
  <2>10. QED
    BY <1>1, <1>2, <2>2, <2>6, <2>7, <2>8, <2>9, LocalStep DEF CallOK
<1>5. CASE ~(\A b \in buckets : used[b] + input[s].units <= Allowance(b))
  <2>1. pc'[s] = "decided" /\ decision'[s] = "quota_exceeded" /\ rows' = rows
    BY <1>5 DEF IInv, TypeOK, PrepareQuotas, HasRoom
  <2>2. DOMAIN rows[s] = {}
    BY <1>2, <1>3 DEF CallOK, RowsHeld
  <2>3. CallOK(s)'
    BY <1>2, <1>3, <2>1, <2>2
    DEF CallOK, KeyHeld, PoliciesHeld, RowsHeld, RecordHeld, ReplySettled,
        MayAllow, durable
  <2>4. QED
    BY <1>1, <1>2, <2>1, <2>2, <2>3, LocalStep DEF HoldsRecord, HoldsBucket
<1>6. QED
  BY <1>4, <1>5

LEMMA ConsumeRatesStep ==
  ASSUME IInv, NEW s \in Request, ConsumeRates(s)
  PROVE  Exclusive' /\ \A r \in Request : CallOK(r)'
<1>1. \A r \in Request \ {s} : Untouched(r)
  BY RowsTyped DEF IInv, TypeOK, ConsumeRates, Untouched
<1>2. /\ pc[s] = "prepared" /\ pc'[s] = "decided"
      /\ UNCHANGED <<durable, input, verdict, found, pols>>
      /\ \/ decision'[s] = "allowed" /\ rows' = rows
         \/ decision'[s] = "rate_limited" /\ rows'[s] = NoRows
  BY RowsTyped DEF IInv, TypeOK, ConsumeRates
<1>3. CallOK(s)
  BY DEF IInv
<1>4. KeyHeld(s)' /\ PoliciesHeld(s)' /\ RecordHeld(s)' /\ ReplySettled(s)'
  BY <1>2, <1>3 DEF CallOK, KeyHeld, PoliciesHeld, RecordHeld, ReplySettled,
                    MayAllow, durable, Applies
<1>5. RowsHeld(s)'
  <2>1. CASE decision'[s] = "allowed" /\ rows' = rows
    BY <1>2, <1>3, <2>1 DEF CallOK, RowsHeld, MayAllow, durable, Allowance
  <2>2. CASE decision'[s] = "rate_limited" /\ rows'[s] = NoRows
    BY <1>2, <2>2 DEF RowsHeld, MayAllow, NoRows
  <2>3. QED
    BY <1>2, <2>1, <2>2
<1>6. DOMAIN rows'[s] \subseteq DOMAIN rows[s]
  BY <1>2 DEF NoRows
<1>7. QED
  BY <1>1, <1>2, <1>4, <1>5, <1>6, LocalStep DEF CallOK, HoldsRecord, HoldsBucket

\* What Commit writes, from the cached rows: the sum of the current count and
\* the request's units in each bucket it holds, and an event of its own.
LEMMA CommitWrites ==
  ASSUME IInv, NEW s \in Request, NEW reply, Commit(s, reply)
  PROVE  /\ Charged(s) \subseteq Bucket
         /\ \A b \in Charged(s) : used'[b] = used[b] + input[s].units
         /\ \A b \in Bucket \ Charged(s) : used'[b] = used[b]
         /\ record[input[s].idem] = NoEvent
         /\ record'[input[s].idem] = Settled(s)
         /\ record'[input[s].idem] # NoEvent
         /\ \A i \in Idem \ {input[s].idem} : record'[i] = record[i]
         /\ decision[s] \in Decision
<1>1. /\ pc[s] = "decided" /\ CallOK(s) /\ input[s] \in Input
      /\ input[s].idem \in Idem /\ input[s].units \in Nat
  BY DEF IInv, Commit, TypeOK
<1>2. Charged(s) \subseteq Bucket
  BY <1>1 DEF CallOK, RowsHeld, MayAllow, Charged
<1>3. ASSUME NEW b \in Charged(s)
      PROVE  rows[s][b].used = used[b]
  <2>1. rows[s][b] = [used |-> used[b], adjustment |-> adjustment[b]]
    BY <1>1 DEF CallOK, RowsHeld, MayAllow, Charged
  <2>2. QED
    BY <2>1
<1>4. /\ \A b \in Charged(s) : used'[b] = used[b] + input[s].units
      /\ \A b \in Bucket \ Charged(s) : used'[b] = used[b]
  BY <1>2, <1>3 DEF Commit
<1>5. decision[s] \in Decision
  BY <1>1 DEF IInv, TypeOK
<1>6. Settled(s) \in Event
  BY <1>1, <1>2, <1>5 DEF Event, Settled
<1>7. record' = [record EXCEPT ![input[s].idem] = Settled(s)]
  BY DEF Commit
<1>8. /\ record'[input[s].idem] = Settled(s)
      /\ \A i \in Idem \ {input[s].idem} : record'[i] = record[i]
  BY <1>1, <1>7 DEF IInv, TypeOK
<1>9. record[input[s].idem] = NoEvent
  BY <1>1 DEF CallOK, RecordHeld
<1>10. QED
  BY <1>2, <1>4, <1>5, <1>6, <1>8, <1>9, NoEventAssumption

LEMMA CommitStep ==
  ASSUME IInv, NEW s \in Request, NEW reply, Commit(s, reply)
  PROVE  Exclusive' /\ \A r \in Request : CallOK(r)'
<1>1. /\ Charged(s) \subseteq Bucket
      /\ \A b \in Bucket \ Charged(s) : used'[b] = used[b]
      /\ record[input[s].idem] = NoEvent
      /\ record'[input[s].idem] = Settled(s)
      /\ record'[input[s].idem] # NoEvent
      /\ \A i \in Idem \ {input[s].idem} : record'[i] = record[i]
  BY CommitWrites
<1>2. /\ pc[s] = "decided" /\ Finish(s, reply) /\ reply \in {decision[s], "lost"}
      /\ UNCHANGED <<keyStatus, family, policy, adjustment, input>>
  BY DEF Commit
<1>3. pc'[s] = "done" /\ decision'[s] = reply /\ rows'[s] = NoRows
  BY <1>2, RowsTyped DEF IInv, TypeOK, Finish
<1>4. \A r \in Request \ {s} : Untouched(r)
  BY <1>2, RowsTyped DEF IInv, TypeOK, Finish, Untouched
<1>5. ASSUME NEW r \in Request \ {s} PROVE CallOK(r)'
  <2>1. CallOK(r) /\ Untouched(r)
    BY <1>4 DEF IInv
  <2>2. HoldsRecord(s, input[s].idem) /\ input[s].idem \in Idem /\ input[r].idem \in Idem
    BY <1>2 DEF HoldsRecord, IInv, TypeOK
  <2>3. HoldsRecord(r, input[r].idem) => input[r].idem # input[s].idem
    BY <2>2 DEF IInv, Exclusive
  <2>4. input[r].idem # input[s].idem => record'[input[r].idem] = record[input[r].idem]
    BY <1>1, <2>2
  <2>5. KeyHeld(r)' /\ PoliciesHeld(r)'
    BY <1>2, <2>1 DEF CallOK, Untouched, KeyHeld, PoliciesHeld, MayAllow, Applies
  <2>6. RecordHeld(r)'
    BY <2>1, <2>3, <2>4 DEF CallOK, Untouched, RecordHeld, HoldsRecord
  <2>7. ReplySettled(r)'
    BY <1>1, <2>1, <2>4 DEF CallOK, Untouched, ReplySettled
  <2>8. RowsHeld(r)'
    <3>1. ASSUME NEW b \in Bucket, HoldsBucket(r, b)
          PROVE  used'[b] = used[b]
      <4>1. ~HoldsBucket(s, b)
        BY <3>1 DEF IInv, Exclusive
      <4>2. b \notin Charged(s)
        BY <1>2, <4>1 DEF HoldsBucket, Charged
      <4>3. QED
        BY <1>1, <4>2
    <3>2. CASE MayAllow(r) /\ pc[r] \in {"prepared", "decided"}
      <4>1. \A b \in DOMAIN rows[r] : b \in Bucket /\ used'[b] = used[b]
        BY <2>1, <3>1, <3>2 DEF CallOK, RowsHeld, HoldsBucket
      <4>2. \A b \in DOMAIN rows[r] : Allowance(b)' = Allowance(b)
        BY <1>2 DEF Allowance
      <4>3. QED
        BY <1>2, <2>1, <3>2, <4>1, <4>2 DEF CallOK, Untouched, RowsHeld, MayAllow
    <3>3. CASE ~(MayAllow(r) /\ pc[r] \in {"prepared", "decided"})
      BY <2>1, <3>3 DEF CallOK, Untouched, RowsHeld, MayAllow
    <3>4. QED
      BY <3>2, <3>3
  <2>9. QED
    BY <2>5, <2>6, <2>7, <2>8 DEF CallOK
<1>6. CallOK(s)'
  <2>1. ReplySettled(s)'
    BY <1>1, <1>2, <1>3 DEF ReplySettled, Settled
  <2>2. QED
    BY <1>3, <2>1 DEF CallOK, KeyHeld, PoliciesHeld, RowsHeld, RecordHeld, MayAllow, NoRows
<1>7. Exclusive'
  BY <1>3, <1>4, ExclusiveStep DEF IInv, HoldsRecord, HoldsBucket
<1>8. QED
  BY <1>5, <1>6, <1>7

\* Operators: no transaction of theirs touches a call, and each leaves the rows
\* a deciding call holds as they were.
LEMMA AdministerFrame ==
  ASSUME IInv, UNCHANGED calls, UNCHANGED <<used, record>>,
         \A r \in Request : KeyHeld(r)' /\ PoliciesHeld(r)',
         \A r \in Request : \A b \in Bucket : HoldsBucket(r, b) /\ MayAllow(r) =>
            adjustment'[b] = adjustment[b] /\ Allowance(b)' = Allowance(b),
         \A r \in Request : MayAllow(r) => family'[input[r].key] = family[input[r].key]
  PROVE  Exclusive' /\ \A r \in Request : CallOK(r)'
<1>1. \A r \in Request : Untouched(r)
  BY DEF calls, Untouched
<1>2. Exclusive'
  BY DEF IInv, Exclusive, HoldsRecord, HoldsBucket, calls
<1>3. ASSUME NEW r \in Request PROVE CallOK(r)'
  <2>1. CallOK(r) /\ Untouched(r)
    BY <1>1 DEF IInv
  <2>2. RecordHeld(r)' /\ ReplySettled(r)'
    BY <2>1 DEF CallOK, Untouched, RecordHeld, ReplySettled
  <2>3. RowsHeld(r)'
    <3>1. CASE MayAllow(r) /\ pc[r] \in {"prepared", "decided"}
      <4>1. \A b \in DOMAIN rows[r] :
               b \in Bucket /\ adjustment'[b] = adjustment[b] /\ Allowance(b)' = Allowance(b)
        BY <2>1, <3>1 DEF CallOK, RowsHeld, HoldsBucket
      <4>2. QED
        BY <2>1, <3>1, <4>1 DEF CallOK, Untouched, RowsHeld, MayAllow
    <3>2. CASE ~(MayAllow(r) /\ pc[r] \in {"prepared", "decided"})
      BY <2>1, <3>2 DEF CallOK, Untouched, RowsHeld, MayAllow
    <3>3. QED
      BY <3>1, <3>2
  <2>4. QED
    BY <2>2, <2>3 DEF CallOK
<1>4. QED
  BY <1>2, <1>3

\* A transaction on keys keeps the key of a deciding call usable and in its
\* family: it needs the key's row, or only lets it expire, or makes a new key.
LEMMA KeyTransaction ==
  ASSUME IInv, UNCHANGED calls, UNCHANGED <<used, record, policy, adjustment>>,
         \A k \in Key : keyStatus[k] \in {"live", "expired"} /\ ~KeyFree(k) =>
            keyStatus'[k] \in {"live", "expired"} /\ family'[k] = family[k]
  PROVE  Exclusive' /\ \A r \in Request : CallOK(r)'
<1>1. ASSUME NEW r \in Request,
             MayAllow(r) \/ (pc[r] = "locked" /\ verdict[r] = "ok")
      PROVE  /\ family'[input[r].key] = family[input[r].key]
             /\ keyStatus'[input[r].key] \in {"live", "expired"}
             /\ found[r]
  <2>1. found[r] /\ keyStatus[input[r].key] \in {"live", "expired"} /\ input[r].key \in Key
    BY <1>1 DEF IInv, CallOK, KeyHeld, TypeOK
  <2>2. HoldsKey(r, input[r].key)
    BY <1>1, <2>1 DEF HoldsKey, MayAllow
  <2>3. QED
    BY <2>1, <2>2 DEF KeyFree
<1>2. ASSUME NEW r \in Request PROVE KeyHeld(r)' /\ PoliciesHeld(r)'
  <2>1. KeyHeld(r)'
    BY <1>1 DEF KeyHeld, MayAllow, calls, IInv, CallOK
  <2>2. PoliciesHeld(r)'
    BY <1>1 DEF PoliciesHeld, MayAllow, calls, IInv, CallOK, Applies
  <2>3. QED
    BY <2>1, <2>2
<1>3. \A r \in Request : MayAllow(r) => family'[input[r].key] = family[input[r].key]
  BY <1>1
<1>4. \A b : adjustment'[b] = adjustment[b] /\ Allowance(b)' = Allowance(b)
  BY DEF Allowance
<1>5. QED
  BY <1>2, <1>3, <1>4, AdministerFrame

\* A transaction on anything but keys, policies and buckets changes nothing the
\* invariant speaks of.
LEMMA OtherTransaction ==
  ASSUME IInv, UNCHANGED calls,
         UNCHANGED <<keyStatus, family, policy, used, adjustment, record>>
  PROVE  Exclusive' /\ \A r \in Request : CallOK(r)'
BY KeyTransaction

LEMMA UpdatePolicyStep ==
  ASSUME IInv, NEW p \in Policy, NEW active \in BOOLEAN, NEW limit \in Limit,
         UpdatePolicy(p, active, limit)
  PROVE  Exclusive' /\ \A r \in Request : CallOK(r)'
<1>1. /\ UNCHANGED calls /\ PolicyFree(p)
      /\ UNCHANGED <<keyStatus, family, used, adjustment, record>>
  BY DEF UpdatePolicy
<1>2. /\ \A q \in Policy \ {p} : policy'[q] = policy[q]
      /\ policy'[p].version # 1
  <2>1. policy \in [Policy -> PolicyRow] /\ policy[p].version \in Nat \ {0}
    BY DEF IInv, TypeOK, PolicyRow
  <2>2. policy' = [policy EXCEPT ![p] =
                     [active |-> active, version |-> policy[p].version + 1,
                      limit |-> limit]]
    BY DEF UpdatePolicy
  <2>3. policy'[p] = [active |-> active, version |-> policy[p].version + 1,
                      limit |-> limit]
    BY <2>1, <2>2
  <2>4. policy'[p].version = policy[p].version + 1
    BY <2>3
  <2>5. QED
    BY <2>1, <2>2, <2>4
<1>3. ASSUME NEW r \in Request PROVE KeyHeld(r)' /\ PoliciesHeld(r)'
  <2>1. KeyHeld(r)'
    BY <1>1 DEF KeyHeld, MayAllow, calls, IInv, CallOK
  <2>2. ASSUME MayAllow(r), pc[r] # "opened" PROVE p \notin pols[r]
    BY <1>1, <2>2 DEF PolicyFree, HoldsPolicy, MayAllow
  <2>3. pols[r] \subseteq Policy
    BY DEF IInv, TypeOK
  <2>4. PoliciesHeld(r)'
    BY <1>1, <1>2, <2>2, <2>3 DEF PoliciesHeld, MayAllow, calls, IInv, CallOK, Applies
  <2>5. QED
    BY <2>1, <2>4
<1>4. ASSUME NEW r \in Request, NEW b \in Bucket, HoldsBucket(r, b), MayAllow(r)
      PROVE  Allowance(b)' = Allowance(b)
  <2>1. b[1] \in pols[r] /\ pols[r] \subseteq Policy /\ HoldsPolicy(r, b[1])
    BY <1>4 DEF IInv, TypeOK, CallOK, RowsHeld, HoldsBucket, HoldsPolicy
  <2>2. b[1] # p
    BY <1>1, <2>1 DEF PolicyFree
  <2>3. QED
    BY <1>1, <1>2, <2>1, <2>2 DEF Allowance
<1>5. QED
  BY <1>1, <1>3, <1>4, AdministerFrame

LEMMA AdjustQuotaStep ==
  ASSUME IInv, NEW p \in QuotaPolicy, NEW f \in Key \cup {SharedBudget},
         NEW delta \in Delta, AdjustQuota(p, f, delta)
  PROVE  Exclusive' /\ \A r \in Request : CallOK(r)'
<1> DEFINE a == <<p, f, period>>
<1>1. /\ UNCHANGED calls /\ BucketFree(a) /\ a \in Bucket
      /\ UNCHANGED <<keyStatus, family, policy, used, record>>
      /\ adjustment' = [adjustment EXCEPT ![a] = @ + delta]
  BY DEF AdjustQuota, IInv, TypeOK, Bucket
<1> HIDE DEF a
<1>2. \A b \in Bucket \ {a} : adjustment'[b] = adjustment[b]
  BY <1>1 DEF IInv, TypeOK
<1>3. ASSUME NEW r \in Request PROVE KeyHeld(r)' /\ PoliciesHeld(r)'
  BY <1>1 DEF KeyHeld, PoliciesHeld, MayAllow, calls, IInv, CallOK, Applies
<1>4. ASSUME NEW r \in Request, NEW b \in Bucket, HoldsBucket(r, b)
      PROVE  adjustment'[b] = adjustment[b] /\ Allowance(b)' = Allowance(b)
  <2>1. b # a
    BY <1>1, <1>4 DEF BucketFree
  <2>2. QED
    BY <1>1, <1>2, <2>1 DEF Allowance
<1>5. QED
  BY <1>1, <1>3, <1>4, AdministerFrame

\* Every step of a call or of an operator keeps the invariant.
LEMMA StepIInv == IInv /\ TypeOK' /\ [Next]_vars => IInv'
<1> SUFFICES ASSUME IInv, TypeOK', [Next]_vars
             PROVE  Exclusive' /\ \A r \in Request : CallOK(r)'
  BY DEF IInv
<1>1. ASSUME NEW r \in Request, NEW in \in Input, Receive(r, in)
      PROVE  Exclusive' /\ \A q \in Request : CallOK(q)'
  BY <1>1, ReceiveStep
<1>2. ASSUME NEW r \in Request, Verify(r)
      PROVE  Exclusive' /\ \A q \in Request : CallOK(q)'
  BY <1>2, LookUpKeyStep, LockKeyStep, OpenRecordStep, LockPoliciesStep,
     PrepareQuotasStep, ConsumeRatesStep, CommitStep DEF Verify
<1>3. ASSUME NEW r \in Request, Abort(r)
      PROVE  Exclusive' /\ \A q \in Request : CallOK(q)'
  <2>1. Finish(r, "unavailable") /\ UNCHANGED durable /\ input' = input
    BY <1>3 DEF Abort
  <2>2. QED
    BY <2>1, FinishStep
<1>4. ASSUME NEW k \in Key, NEW scopes \in SUBSET Scope,
             IssueKey(k, scopes) \/ AssignPermissions(k, scopes)
      PROVE  Exclusive' /\ \A q \in Request : CallOK(q)'
  <2>1. CASE IssueKey(k, scopes)
    <3>1. \A j \in Key : keyStatus[j] \in {"live", "expired"} =>
             keyStatus'[j] = keyStatus[j] /\ family'[j] = family[j]
      BY <2>1 DEF IssueKey, IInv, TypeOK
    <3>2. QED
      BY <2>1, <3>1, KeyTransaction DEF IssueKey
  <2>2. CASE AssignPermissions(k, scopes)
    BY <2>2, OtherTransaction DEF AssignPermissions
  <2>3. QED
    BY <1>4, <2>1, <2>2
<1>5. ASSUME NEW k \in Key, RevokeKey(k) \/ ExpireKey(k)
      PROVE  Exclusive' /\ \A q \in Request : CallOK(q)'
  <2>1. CASE RevokeKey(k)
    <3>1. \A j \in Key : keyStatus[j] \in {"live", "expired"} /\ ~KeyFree(j) =>
             keyStatus'[j] = keyStatus[j] /\ family'[j] = family[j]
      BY <2>1 DEF RevokeKey, IInv, TypeOK
    <3>2. QED
      BY <2>1, <3>1, KeyTransaction DEF RevokeKey
  <2>2. CASE ExpireKey(k)
    <3>1. \A j \in Key : keyStatus[j] \in {"live", "expired"} =>
             keyStatus'[j] \in {"live", "expired"} /\ family'[j] = family[j]
      BY <2>2 DEF ExpireKey, IInv, TypeOK
    <3>2. QED
      BY <2>2, <3>1, KeyTransaction DEF ExpireKey
  <2>3. QED
    BY <1>5, <2>1, <2>2
<1>6. ASSUME NEW k \in Key, NEW new \in Key, NEW overlap \in BOOLEAN,
             RotateKey(k, new, overlap)
      PROVE  Exclusive' /\ \A q \in Request : CallOK(q)'
  <2>1. KeyFree(k) /\ keyStatus[new] = "absent"
    BY <1>6 DEF RotateKey
  <2>2. \A j \in Key : keyStatus[j] \in {"live", "expired"} /\ ~KeyFree(j) =>
           keyStatus'[j] = keyStatus[j] /\ family'[j] = family[j]
    BY <1>6, <2>1 DEF RotateKey, IInv, TypeOK
  <2>3. QED
    BY <1>6, <2>2, KeyTransaction DEF RotateKey
<1>7. ASSUME \/ \E s \in Scope : SetPermissionStatus(s)
             \/ \E status \in BOOLEAN : SetParentStatus(status)
             \/ RevokeIntegration
             \/ NextPeriod
      PROVE  Exclusive' /\ \A q \in Request : CallOK(q)'
  BY <1>7, OtherTransaction
  DEF SetPermissionStatus, SetParentStatus, RevokeIntegration, NextPeriod
<1>8. ASSUME NEW p \in Policy, NEW active \in BOOLEAN, NEW limit \in Limit,
             UpdatePolicy(p, active, limit)
      PROVE  Exclusive' /\ \A q \in Request : CallOK(q)'
  BY <1>8, UpdatePolicyStep
<1>9. ASSUME NEW p \in QuotaPolicy, NEW f \in Key \cup {SharedBudget},
             NEW delta \in Delta, AdjustQuota(p, f, delta)
      PROVE  Exclusive' /\ \A q \in Request : CallOK(q)'
  BY <1>9, AdjustQuotaStep
<1>10. CASE UNCHANGED vars
  BY <1>10, OtherTransaction DEF vars, durable
<1>11. QED
  BY <1>1, <1>2, <1>3, <1>4, <1>5, <1>6, <1>7, <1>8, <1>9, <1>10 DEF Next, Administer

\* The row locks of verify_access keep IInv in every reachable state.
THEOREM LocksHold == Spec => []IInv
<1>1. Init => IInv
  BY InitIInv
<1>2. IInv /\ TypeOK' /\ [Next]_vars => IInv'
  BY StepIInv
<1>3. QED
  BY <1>1, <1>2, TypeCorrect, PTL DEF Spec

\* consume_quotas adds to counts nobody changed since prepare_quotas read them.
THEOREM CachedRowsStayCurrent == Spec => []CachedRowsCurrent
<1>1. IInv => CachedRowsCurrent
  BY DEF IInv, CallOK, RowsHeld, MayAllow, CachedRowsCurrent
<1>2. QED
  BY <1>1, LocksHold, PTL

\* A reply "allowed", first answer or replay, is backed by a committed event.
THEOREM AllowedSettled == Spec => []AllowedIsSettled
<1>1. IInv => AllowedIsSettled
  BY DEF IInv, CallOK, ReplySettled, AllowedIsSettled
<1>2. QED
  BY <1>1, LocksHold, PTL

-----------------------------------------------------------------------------
(***************************************************************************)
(* What follows for each step.                                             *)
(***************************************************************************)

\* Only a commit settles a record or moves a used count.
LEMMA OnlyCommitCharges ==
  ASSUME [Next]_vars,
         \A r \in Request : \A reply \in {decision[r], "lost"} : ~Commit(r, reply)
  PROVE  UNCHANGED <<used, record>>
<1>1. ASSUME NEW r \in Request, NEW in \in Input, Receive(r, in)
      PROVE  UNCHANGED <<used, record>>
  BY <1>1 DEF Receive, durable
<1>2. ASSUME NEW r \in Request, Verify(r) \/ Abort(r) PROVE UNCHANGED <<used, record>>
  BY <1>2 DEF Verify, LookUpKey, LockKey, OpenRecord, LockPolicies, PrepareQuotas,
              ConsumeRates, Abort, durable
<1>3. ASSUME Administer PROVE UNCHANGED <<used, record>>
  BY <1>3 DEF Administer, IssueKey, AssignPermissions, RevokeKey, ExpireKey, RotateKey,
              SetPermissionStatus, SetParentStatus, RevokeIntegration, UpdatePolicy,
              AdjustQuota, NextPeriod
<1>4. CASE UNCHANGED vars
  BY <1>4 DEF vars, durable
<1>5. QED
  BY <1>1, <1>2, <1>3, <1>4 DEF Next

\* The ledger and the events balance, and a bucket has finitely many of them.
Balanced(b) ==
    /\ IsFiniteSet(Reservations(b))
    /\ used[b] = SumFunction([i \in Reservations(b) |-> record[i].input.units])

LEMMA InitBalanced == Init => \A b \in Bucket : Balanced(b)
<1> SUFFICES ASSUME Init, NEW b \in Bucket PROVE Balanced(b)
  OBVIOUS
<1>1. Reservations(b) = {}
  BY DEF Init, Reservations
<1>2. SumFunction([i \in {} |-> record[i].input.units]) = 0
  BY SumEmpty DEF SumFunction
<1>3. used[b] = 0
  BY DEF Init
<1>4. QED
  BY <1>1, <1>2, <1>3, FS_EmptySet, Zenon DEF Balanced

\* A commit adds its units to the count of a bucket it charges, and one event
\* with those units to the bucket's reservations.
LEMMA CommitBalanced ==
  ASSUME IInv, NEW s \in Request, NEW reply, Commit(s, reply),
         NEW b \in Bucket, Balanced(b)
  PROVE  Balanced(b)'
<1> DEFINE e == input[s].idem
           Units == [i \in Reservations(b) |-> record[i].input.units]
<1>1. /\ \A c \in Charged(s) : used'[c] = used[c] + input[s].units
      /\ \A c \in Bucket \ Charged(s) : used'[c] = used[c]
      /\ record[e] = NoEvent /\ record'[e] = Settled(s) /\ record'[e] # NoEvent
      /\ \A i \in Idem \ {e} : record'[i] = record[i]
  BY CommitWrites
<1>2. e \in Idem /\ input[s].units \in Int
  BY DEF IInv, TypeOK
<1>3. record'[e].charged = Charged(s) /\ record'[e].input = input[s]
  BY <1>1 DEF Settled
<1>4. e \notin Reservations(b)
  BY <1>1 DEF Reservations
<1>5. \A i \in Reservations(b) :
         /\ i \in Idem \ {e} /\ record'[i] = record[i]
         /\ record[i].input.units \in Int
  BY <1>1, <1>4 DEF Reservations, IInv, TypeOK, Event
<1>6. CASE b \in Charged(s)
  <2>1. Reservations(b)' = Reservations(b) \cup {e}
    <3>1. ASSUME NEW i \in Idem
          PROVE  i \in Reservations(b)' <=> i \in Reservations(b) \/ i = e
      <4>1. CASE i = e
        BY <1>1, <1>2, <1>3, <1>6, <4>1 DEF Reservations
      <4>2. CASE i # e
        BY <1>1, <4>2 DEF Reservations
      <4>3. QED
        BY <4>1, <4>2
    <3>2. Reservations(b) \subseteq Idem /\ Reservations(b)' \subseteq Idem
      BY DEF Reservations
    <3>3. PICK R, Q, d : R = Reservations(b) /\ Q = Reservations(b)' /\ d = e
      OBVIOUS
    <3>4. /\ R \subseteq Idem /\ Q \subseteq Idem /\ d \in Idem
          /\ \A i \in Idem : i \in Q <=> i \in R \/ i = d
      BY <1>2, <3>1, <3>2, <3>3
    <3>5. Q = R \cup {d}
      BY <3>4
    <3>6. QED
      BY <3>3, <3>5
  <2>2. IsFiniteSet(Reservations(b)')
    <3>1. PICK R, d : R = Reservations(b) /\ d = e /\ IsFiniteSet(R)
      BY DEF Balanced
    <3>2. IsFiniteSet(R \cup {d})
      BY <3>1, FS_AddElement
    <3>3. QED
      BY <2>1, <3>1, <3>2
  <2>3. SumFunction(Units') = SumFunction(Units) + record'[e].input.units
    <3>1. DOMAIN Units = Reservations(b) /\ DOMAIN Units' = Reservations(b) \cup {e}
      BY <2>1
    <3>2. \A i \in Reservations(b) : Units[i] \in Int /\ Units'[i] = Units[i]
      BY <1>5, <2>1
    <3>3. Units'[e] = record'[e].input.units /\ Units'[e] \in Int
      BY <1>2, <1>3, <2>1
    <3> HIDE DEF Units, e
    <3>4. QED
      BY <1>4, <3>1, <3>2, <3>3, SumExtended DEF Balanced
  <2>4. QED
    BY <1>1, <1>3, <1>6, <2>2, <2>3 DEF Balanced
<1>7. CASE b \notin Charged(s)
  <2>1. Reservations(b)' = Reservations(b)
    <3>1. \A i \in Idem : record'[i] = record[i] \/ i = e
      BY <1>1
    <3>2. e \notin Reservations(b) /\ e \notin Reservations(b)'
      BY <1>3, <1>4, <1>7 DEF Reservations
    <3>3. \A i \in Idem : i \in Reservations(b)' <=> i \in Reservations(b)
      BY <3>1, <3>2 DEF Reservations
    <3>4. QED
      BY <3>3 DEF Reservations
  <2>2. Units' = Units
    BY <1>5, <2>1
  <2>3. QED
    BY <1>1, <1>7, <2>1, <2>2 DEF Balanced
<1>8. QED
  BY <1>6, <1>7

\* reconcile_usage: a bucket's used count is the sum of its reservations, for
\* every number of concurrent calls, retries, aborts and rotations.
THEOREM LedgerIsBalanced == Spec => []LedgerBalanced
<1> DEFINE AllBalanced == \A b \in Bucket : Balanced(b)
<1>1. IInv /\ AllBalanced /\ [Next]_vars => AllBalanced'
  <2> SUFFICES ASSUME IInv, [Next]_vars, NEW b \in Bucket, Balanced(b)
               PROVE  Balanced(b)'
    OBVIOUS
  <2>1. CASE \A r \in Request : \A reply \in {decision[r], "lost"} : ~Commit(r, reply)
    <3>1. used' = used /\ record' = record
      BY <2>1, OnlyCommitCharges
    <3>2. QED
      BY <3>1 DEF Balanced, Reservations
  <2>2. ASSUME NEW r \in Request, NEW reply, Commit(r, reply) PROVE Balanced(b)'
    BY <2>2, CommitBalanced
  <2>3. QED
    BY <2>1, <2>2
<1>2. AllBalanced => LedgerBalanced
  BY DEF Balanced, LedgerBalanced
<1>3. Init => AllBalanced
  BY InitBalanced
<1> HIDE DEF AllBalanced
<1>4. QED
  BY <1>1, <1>2, <1>3, LocksHold, PTL DEF Spec

\* verify_access commits no allow for a key after its revocation has committed.
THEOREM RevocationIsFinal == Spec => NoAllowAfterRevocation
<1>1. ASSUME IInv, [Next]_vars, NEW i \in Idem,
             record'[i] # record[i], record'[i].decision = "allowed"
      PROVE  keyStatus[record'[i].input.key] # "revoked"
  <2>0. PICK r \in Request : \E reply \in {decision[r], "lost"} : Commit(r, reply)
    BY <1>1, OnlyCommitCharges
  <2>1. PICK reply \in {decision[r], "lost"} : Commit(r, reply)
    BY <2>0
  <2>2. /\ record'[input[r].idem] = Settled(r)
        /\ \A j \in Idem \ {input[r].idem} : record'[j] = record[j]
    BY <1>1, <2>1, CommitWrites
  <2>3. record'[i] = Settled(r)
    BY <1>1, <2>2
  <2>4. decision[r] = "allowed" /\ record'[i].input = input[r]
    BY <1>1, <2>3 DEF Settled
  <2>5. MayAllow(r) /\ CallOK(r)
    BY <1>1, <2>1, <2>4 DEF Commit, MayAllow, IInv
  <2>6. QED
    BY <2>4, <2>5 DEF CallOK, KeyHeld
<1>2. IInv /\ [Next]_vars =>
        \A i \in Idem : record'[i] # record[i] /\ record'[i].decision = "allowed"
           => keyStatus[record'[i].input.key] # "revoked"
  BY <1>1
<1>3. QED
  BY <1>2, LocksHold, PTL DEF Spec, NoAllowAfterRevocation

\* Each charge raises a bucket's count to at most the allowance in force.
THEOREM NeverOverspent == Spec => QuotaNeverOverspent
<1>1. ASSUME IInv, [Next]_vars, NEW b \in Bucket, used'[b] # used[b]
      PROVE  used'[b] > used[b] /\ used'[b] <= Allowance(b)
  <2>0. PICK r \in Request : \E reply \in {decision[r], "lost"} : Commit(r, reply)
    BY <1>1, OnlyCommitCharges
  <2>1. PICK reply \in {decision[r], "lost"} : Commit(r, reply)
    BY <2>0
  <2>2. /\ \A c \in Charged(r) : used'[c] = used[c] + input[r].units
        /\ \A c \in Bucket \ Charged(r) : used'[c] = used[c]
    BY <1>1, <2>1, CommitWrites
  <2>3. b \in DOMAIN rows[r] /\ decision[r] = "allowed"
    BY <1>1, <2>2 DEF Charged
  <2>4. used'[b] = used[b] + input[r].units
    BY <2>2, <2>3 DEF Charged
  <2>5. used[b] + input[r].units <= Allowance(b)
    BY <1>1, <2>1, <2>3 DEF IInv, CallOK, RowsHeld, MayAllow, Commit
  <2>6. used[b] \in Nat /\ input[r].units \in 1..MaxUnits
    BY <1>1 DEF IInv, TypeOK
  <2>7. QED
    BY <2>4, <2>5, <2>6
<1>2. IInv /\ [Next]_vars =>
        \A b \in Bucket : used'[b] # used[b] =>
           used'[b] > used[b] /\ used'[b] <= Allowance(b)
  BY <1>1
<1>3. QED
  BY <1>2, LocksHold, PTL DEF Spec, QuotaNeverOverspent

-----------------------------------------------------------------------------
(***************************************************************************)
(* Rotation.  A key and its successor share a family for ever, and every   *)
(* charge is on the budget of the family of the key it was made for.       *)
(***************************************************************************)

ChainsKept ==
    \A k \in Key :
        /\ keyStatus[k] = "absent" => successor[k] = k
        /\ keyStatus[k] # "absent" => /\ keyStatus[successor[k]] # "absent"
                                      /\ family[successor[k]] = family[k]

ChargeKept(i) ==
    record[i] # NoEvent =>
        \A b \in record[i].charged :
            /\ keyStatus[record[i].input.key] # "absent"
            /\ b[2] = BudgetOf(b[1], family[record[i].input.key])

RInv == ChainsKept /\ \A i \in Idem : ChargeKept(i)

LEMMA InitRInv == Init => RInv
BY DEF Init, RInv, ChainsKept, ChargeKept

LEMMA IssueKeyChains ==
  ASSUME TypeOK, ChainsKept, NEW k \in Key, NEW scopes, IssueKey(k, scopes)
  PROVE  ChainsKept'
<1>1. /\ keyStatus[k] = "absent" /\ keyStatus'[k] = "live" /\ successor' = successor
      /\ family'[k] = k
      /\ \A j \in Key \ {k} : keyStatus'[j] = keyStatus[j] /\ family'[j] = family[j]
  BY DEF IssueKey, TypeOK
<1>2. \A j \in Key : successor[j] \in Key
  BY DEF TypeOK
<1>3. QED
  BY <1>1, <1>2, SMTT(30) DEF ChainsKept

LEMMA RotateKeyChains ==
  ASSUME TypeOK, ChainsKept, NEW k \in Key, NEW new \in Key, NEW overlap,
         RotateKey(k, new, overlap)
  PROVE  ChainsKept'
<1>1. /\ keyStatus[k] = "live" /\ keyStatus[new] = "absent" /\ k # new
      /\ keyStatus'[k] # "absent" /\ keyStatus'[new] = "live"
      /\ \A j \in Key \ {k, new} : keyStatus'[j] = keyStatus[j]
  BY DEF RotateKey, TypeOK
<1>2. /\ family'[new] = family[k]
      /\ \A j \in Key \ {new} : family'[j] = family[j]
  BY DEF RotateKey, TypeOK
<1>3. /\ successor'[k] = new
      /\ \A j \in Key \ {k} : successor'[j] = successor[j]
  BY DEF RotateKey, TypeOK
<1>4. \A j \in Key : successor[j] \in Key
  BY DEF TypeOK
<1>5. ASSUME NEW j \in Key
      PROVE  /\ keyStatus'[j] = "absent" => successor'[j] = j
             /\ keyStatus'[j] # "absent" => /\ keyStatus'[successor'[j]] # "absent"
                                            /\ family'[successor'[j]] = family'[j]
  <2>1. CASE j = k
    BY <2>1, <1>1, <1>2, <1>3
  <2>2. CASE j = new
    BY <2>2, <1>1, <1>3 DEF ChainsKept
  <2>3. CASE j \notin {k, new}
    <3>1. keyStatus'[j] = keyStatus[j] /\ family'[j] = family[j] /\ successor'[j] = successor[j]
      BY <2>3, <1>1, <1>2, <1>3
    <3>2. keyStatus[j] # "absent" => successor[j] # new
      BY <1>1 DEF ChainsKept
    <3>3. QED
      BY <3>1, <3>2, <1>1, <1>2, <1>4 DEF ChainsKept
  <2>4. QED
    BY <2>1, <2>2, <2>3
<1>6. QED
  BY <1>5 DEF ChainsKept

\* A key that exists goes on existing, in the same family.
LEMMA FamiliesKept ==
  ASSUME TypeOK, ChainsKept, [Next]_vars
  PROVE  /\ ChainsKept'
         /\ \A k \in Key : keyStatus[k] # "absent" =>
              keyStatus'[k] # "absent" /\ family'[k] = family[k]
<1> DEFINE Kept == \A k \in Key : keyStatus[k] # "absent" =>
                     keyStatus'[k] # "absent" /\ family'[k] = family[k]
<1>1. CASE UNCHANGED <<keyStatus, family, successor>>
  BY <1>1 DEF ChainsKept
<1>2. ASSUME NEW k \in Key, NEW scopes \in SUBSET Scope, IssueKey(k, scopes)
      PROVE  ChainsKept' /\ Kept
  <2>1. Kept
    BY <1>2 DEF IssueKey, TypeOK
  <2>2. QED
    BY <1>2, <2>1, IssueKeyChains
<1>3. ASSUME NEW k \in Key, NEW new \in Key, NEW overlap \in BOOLEAN, RotateKey(k, new, overlap)
      PROVE  ChainsKept' /\ Kept
  <2>1. Kept
    BY <1>3 DEF RotateKey, TypeOK
  <2>2. QED
    BY <1>3, <2>1, RotateKeyChains
<1>4. ASSUME NEW k \in Key, RevokeKey(k) \/ ExpireKey(k)
      PROVE  ChainsKept' /\ Kept
  <2>1. /\ keyStatus[k] # "absent" /\ keyStatus'[k] # "absent"
        /\ \A j \in Key \ {k} : keyStatus'[j] = keyStatus[j]
        /\ UNCHANGED <<family, successor>>
    BY <1>4 DEF RevokeKey, ExpireKey, TypeOK
  <2>2. \A j \in Key : successor[j] \in Key
    BY DEF TypeOK
  <2>3. Kept
    BY <2>1
  <2>4. ChainsKept'
    BY <2>1, <2>2 DEF ChainsKept
  <2>5. QED
    BY <2>3, <2>4
<1>5. CASE \E r \in Request, in \in Input : Receive(r, in)
  BY <1>5, <1>1 DEF Receive, durable
<1>6. CASE \E r \in Request : Verify(r) \/ Abort(r)
  BY <1>6, <1>1 DEF Verify, LookUpKey, LockKey, OpenRecord, LockPolicies, PrepareQuotas,
                    ConsumeRates, Commit, Abort, durable
<1>7. CASE Administer
  BY <1>7, <1>1, <1>2, <1>3, <1>4
     DEF Administer, AssignPermissions, SetPermissionStatus, SetParentStatus,
         RevokeIntegration, UpdatePolicy, AdjustQuota, NextPeriod
<1>8. CASE UNCHANGED vars
  BY <1>8, <1>1 DEF vars, durable
<1>9. QED
  BY <1>5, <1>6, <1>7, <1>8 DEF Next

LEMMA StepRInv == IInv /\ RInv /\ [Next]_vars => RInv'
<1> SUFFICES ASSUME IInv, RInv, [Next]_vars PROVE RInv'
  OBVIOUS
<1>1. /\ ChainsKept'
      /\ \A k \in Key : keyStatus[k] # "absent" =>
           keyStatus'[k] # "absent" /\ family'[k] = family[k]
  BY FamiliesKept DEF IInv, RInv
<1>2. ASSUME NEW i \in Idem, record'[i] = record[i]
      PROVE  ChargeKept(i)'
  <2>1. ChargeKept(i)
    BY DEF RInv
  <2>2. record[i] # NoEvent => record[i].input.key \in Key
    BY DEF IInv, TypeOK, Event
  <2>3. QED
    BY <1>1, <1>2, <2>1, <2>2 DEF ChargeKept, BudgetOf
<1>3. CASE \A r \in Request : \A reply \in {decision[r], "lost"} : ~Commit(r, reply)
  BY <1>1, <1>2, <1>3, OnlyCommitCharges DEF RInv
<1>4. ASSUME NEW r \in Request, NEW reply \in {decision[r], "lost"}, Commit(r, reply)
      PROVE  RInv'
  <2>1. /\ record'[input[r].idem] = Settled(r)
        /\ \A i \in Idem \ {input[r].idem} : record'[i] = record[i]
    BY <1>4, CommitWrites
  <2>2. /\ keyStatus' = keyStatus /\ family' = family
        /\ pc[r] = "decided" /\ CallOK(r)
    BY <1>4 DEF Commit, IInv
  <2>3. ASSUME NEW b \in Charged(r)
        PROVE  /\ keyStatus[input[r].key] # "absent"
               /\ b[2] = BudgetOf(b[1], family[input[r].key])
    <3>1. decision[r] = "allowed" /\ b \in DOMAIN rows[r]
      BY <2>3 DEF Charged
    <3>2. MayAllow(r)
      BY <2>2, <3>1 DEF MayAllow
    <3>3. QED
      BY <2>2, <3>1, <3>2 DEF CallOK, KeyHeld, RowsHeld
  <2>4. record'[input[r].idem].charged = Charged(r) /\ record'[input[r].idem].input = input[r]
    BY <2>1 DEF Settled
  <2>5. ASSUME NEW i \in Idem, i = input[r].idem
        PROVE  ChargeKept(i)'
    BY <2>2, <2>3, <2>4, <2>5 DEF ChargeKept, BudgetOf
  <2>6. \A i \in Idem : ChargeKept(i)'
    BY <1>2, <2>1, <2>5
  <2>7. QED
    BY <1>1, <2>6 DEF RInv
<1>5. QED
  BY <1>3, <1>4

LEMMA RInvSharesBudget == TypeOK /\ RInv => RotationKeepsBudget
<1> SUFFICES ASSUME TypeOK, RInv,
                    NEW i \in Idem, NEW j \in Idem, record[i] # NoEvent, record[j] # NoEvent,
                    record[j].input.key = successor[record[i].input.key],
                    NEW b \in record[i].charged, NEW c \in record[j].charged, b[1] = c[1]
             PROVE  b[2] = c[2]
  BY DEF RotationKeepsBudget
<1>1. record[i].input.key \in Key
  BY DEF TypeOK, Event
<1>2. /\ keyStatus[record[i].input.key] # "absent"
      /\ b[2] = BudgetOf(b[1], family[record[i].input.key])
      /\ c[2] = BudgetOf(c[1], family[record[j].input.key])
  BY DEF RInv, ChargeKept
<1>3. family[record[j].input.key] = family[record[i].input.key]
  BY <1>1, <1>2 DEF RInv, ChainsKept
<1>4. QED
  BY <1>2, <1>3

\* rotate_key copies family_id to the successor, and a quota bucket of a
\* key-dimension policy is named by the family: rotation refills no budget.
THEOREM RotationRefillsNothing == Spec => []RotationKeepsBudget
<1>1. Spec => []RInv
  BY InitRInv, StepRInv, LocksHold, PTL DEF Spec
<1>2. IInv => TypeOK
  BY DEF IInv
<1>3. QED
  BY <1>1, <1>2, RInvSharesBudget, LocksHold, PTL

-----------------------------------------------------------------------------
(***************************************************************************)
(* Refinement: seen through the ledger's variables, the whole protocol is  *)
(* AccessLedger, in which a decision is one step.                          *)
(***************************************************************************)

\* The two specifications read the state through the same operators.
LEMMA SameState ==
  /\ Ledger!Bucket = Bucket
  /\ Ledger!KeyStatus = KeyStatus
  /\ Ledger!Denial = Denial
  /\ \A p, f : (Ledger!Applies(p, f) <=> Applies(p, f)) /\ Ledger!BudgetOf(p, f) = BudgetOf(p, f)
  /\ \A b : Ledger!Allowance(b) = Allowance(b)
<1>1. \A n : Ledger!NonNegative(n) = NonNegative(n)
  BY DEF Ledger!NonNegative, NonNegative
<1>2. QED
  BY <1>1 DEF Ledger!Bucket, Bucket, Ledger!KeyStatus, KeyStatus, Ledger!Denial, Denial,
              Ledger!Applies, Applies, Ledger!BudgetOf, BudgetOf,
              Ledger!Allowance, Allowance

LEMMA InitRefines == Init => Ledger!Init
BY SameState DEF Init, Ledger!Init

\* The commit of an allow is Ledger!Allow; the commit of a refusal, Deny.
LEMMA CommitRefines ==
  ASSUME IInv, NEW s \in Request, NEW reply, Commit(s, reply)
  PROVE  \/ \E charged \in SUBSET Bucket : Ledger!Allow(input[s], charged)
         \/ \E d \in Denial : Ledger!Deny(input[s], d)
<1>1. /\ pc[s] = "decided" /\ CallOK(s) /\ input[s] \in Input
      /\ record' = [record EXCEPT ![input[s].idem] = Settled(s)]
      /\ UNCHANGED <<keyStatus, family, policy, adjustment>>
  BY DEF IInv, TypeOK, Commit
<1>2. /\ Charged(s) \in SUBSET Bucket
      /\ \A b \in Charged(s) : used'[b] = used[b] + input[s].units
      /\ \A b \in Bucket \ Charged(s) : used'[b] = used[b]
      /\ record[input[s].idem] = NoEvent
      /\ decision[s] \in Decision
  BY CommitWrites
<1>3. used' = [b \in Bucket |-> IF b \in Charged(s) THEN used[b] + input[s].units
                                                    ELSE used[b]]
  <2>1. used' = [b \in Bucket |-> used'[b]]
    BY DEF Commit
  <2>2. QED
    BY <1>2, <2>1
<1>4. CASE decision[s] = "allowed"
  <2>1. MayAllow(s) /\ Charged(s) = DOMAIN rows[s]
    BY <1>1, <1>4 DEF MayAllow, Charged
  <2>2. keyStatus[input[s].key] \in {"live", "expired"}
    BY <1>1, <2>1 DEF CallOK, KeyHeld
  <2>3. /\ \A p \in pols[s] : Applies(p, family[input[s].key]) /\ policy[p].active
        /\ \A p \in Policy :
             policy[p].active /\ policy[p].version = 1 /\ Applies(p, family[input[s].key])
                => p \in pols[s]
    BY <1>1, <2>1 DEF CallOK, PoliciesHeld
  <2>4. /\ \A p \in pols[s] \cap QuotaPolicy : \E b \in Charged(s) : b[1] = p
        /\ \A b \in Charged(s) :
             /\ b[1] \in pols[s]
             /\ b[2] = BudgetOf(b[1], family[input[s].key])
             /\ used[b] + input[s].units <= Allowance(b)
        /\ \A b, c \in Charged(s) : b[1] = c[1] => b = c
    BY <1>1, <2>1 DEF CallOK, RowsHeld
  <2>5. Ledger!CoversPolicies(input[s], Charged(s))
    BY <2>3, <2>4, SameState DEF Ledger!CoversPolicies
  <2>6. Ledger!Allow(input[s], Charged(s))
    BY <1>1, <1>2, <1>3, <1>4, <2>2, <2>3, <2>4, <2>5, SameState
    DEF Ledger!Allow, Settled
  <2>7. QED
    BY <1>2, <2>6
<1>5. CASE decision[s] # "allowed"
  <2>1. decision[s] \in Denial /\ Charged(s) = {}
    BY <1>2, <1>5 DEF Decision, Charged
  <2>2. used' = used
    BY <1>3, <2>1 DEF IInv, TypeOK
  <2>3. Ledger!Deny(input[s], decision[s])
    BY <1>1, <1>2, <2>1, <2>2 DEF Ledger!Deny, Settled
  <2>4. QED
    BY <2>1, <2>3
<1>6. QED
  BY <1>4, <1>5

\* Issuing, rotating, revoking and expiring a key are steps on keys that keep
\* revocation final and a rotation inside its family.
LEMMA KeyRefines ==
  ASSUME TypeOK, NEW k \in Key,
         \/ \E scopes \in SUBSET Scope : IssueKey(k, scopes)
         \/ RevokeKey(k) \/ ExpireKey(k)
         \/ \E new \in Key, overlap \in BOOLEAN : RotateKey(k, new, overlap)
  PROVE  Ledger!KeyStep
<1>1. ASSUME NEW scopes, IssueKey(k, scopes) PROVE Ledger!KeyStep
  BY <1>1, SameState DEF IssueKey, TypeOK, Ledger!KeyStep, KeyStatus
<1>2. CASE RevokeKey(k)
  BY <1>2, SameState DEF RevokeKey, TypeOK, Ledger!KeyStep, KeyStatus
<1>3. CASE ExpireKey(k)
  BY <1>3, SameState DEF ExpireKey, TypeOK, Ledger!KeyStep, KeyStatus
<1>4. ASSUME NEW new \in Key, NEW overlap \in BOOLEAN, RotateKey(k, new, overlap)
      PROVE  Ledger!KeyStep
  BY <1>4, SameState DEF RotateKey, TypeOK, Ledger!KeyStep, KeyStatus
<1>5. QED
  BY <1>1, <1>2, <1>3, <1>4

LEMMA StepRefines == IInv /\ [Next]_vars => [Ledger!Next]_(Ledger!ledgerVars)
<1> SUFFICES ASSUME IInv, [Next]_vars PROVE Ledger!Next \/ UNCHANGED ledgerVars
  BY DEF ledgerVars, Ledger!ledgerVars
<1> USE DEF ledgerVars
<1>1. ASSUME NEW r \in Request, NEW in \in Input, Receive(r, in)
      PROVE  UNCHANGED ledgerVars
  BY <1>1 DEF Receive, durable
<1>2. ASSUME NEW r \in Request,
             \/ LookUpKey(r) \/ LockKey(r) \/ OpenRecord(r) \/ LockPolicies(r)
             \/ PrepareQuotas(r) \/ ConsumeRates(r) \/ Abort(r)
      PROVE  UNCHANGED ledgerVars
  BY <1>2 DEF LookUpKey, LockKey, OpenRecord, LockPolicies, PrepareQuotas,
              ConsumeRates, Abort, durable
<1>3. ASSUME NEW r \in Request, NEW reply, Commit(r, reply) PROVE Ledger!Next
  <2>1. input[r] \in Input
    BY DEF IInv, TypeOK
  <2>2. QED
    BY <1>3, <2>1, CommitRefines, SameState DEF Ledger!Next
<1>4. ASSUME NEW k \in Key,
             \/ \E scopes \in SUBSET Scope : IssueKey(k, scopes)
             \/ RevokeKey(k) \/ ExpireKey(k)
             \/ \E new \in Key, overlap \in BOOLEAN : RotateKey(k, new, overlap)
      PROVE  Ledger!Next
  BY <1>4, KeyRefines DEF IInv, Ledger!Next
<1>5. ASSUME \/ \E k \in Key, scopes \in SUBSET Scope : AssignPermissions(k, scopes)
             \/ \E s \in Scope : SetPermissionStatus(s)
             \/ \E status \in BOOLEAN : SetParentStatus(status)
             \/ RevokeIntegration
             \/ NextPeriod
      PROVE  UNCHANGED ledgerVars
  BY <1>5 DEF AssignPermissions, SetPermissionStatus, SetParentStatus,
              RevokeIntegration, NextPeriod
<1>6. ASSUME NEW p \in Policy, NEW active \in BOOLEAN, NEW limit \in Limit,
             UpdatePolicy(p, active, limit)
      PROVE  Ledger!Next
  BY <1>6 DEF UpdatePolicy, Ledger!Next, Ledger!PolicyStep
<1>7. ASSUME NEW p \in QuotaPolicy, NEW f \in Key \cup {SharedBudget},
             NEW delta \in Delta, AdjustQuota(p, f, delta)
      PROVE  Ledger!Next
  <2>1. <<p, f, period>> \in Bucket
    BY DEF IInv, TypeOK, Bucket
  <2>2. Ledger!AdjustStep(<<p, f, period>>, delta)
    BY <1>7 DEF AdjustQuota, Ledger!AdjustStep
  <2>3. QED
    BY <2>1, <2>2, SameState DEF Ledger!Next
<1>8. CASE UNCHANGED vars
  BY <1>8 DEF vars, durable
<1>9. QED
  BY <1>1, <1>2, <1>3, <1>4, <1>5, <1>6, <1>7, <1>8 DEF Next, Verify, Administer

\* verify_access with its operators implements one-step decisions.
THEOREM Refinement == Spec => ImplementsLedger
<1>1. Init => Ledger!Init
  BY InitRefines
<1>2. IInv /\ [Next]_vars => [Ledger!Next]_(Ledger!ledgerVars)
  BY StepRefines
<1>3. QED
  BY <1>1, <1>2, LocksHold, PTL DEF Spec, ImplementsLedger, Ledger!Spec
=============================================================================
