---------------------------- MODULE AccessState -----------------------------
(***************************************************************************)
(* The durable state an access decision reads and writes: the keys of one  *)
(* API service, the policies that constrain them, the quota buckets and    *)
(* the decision events settled under idempotency keys.  Shared by          *)
(* AccessLedger (what a decision promises) and Verification (how the code  *)
(* takes it).                                                              *)
(***************************************************************************)
EXTENDS Integers

CONSTANTS
    Key,            \* API keys of one service; a family is named by its first key
    Idem,           \* Idempotency-Key values the trusted backend sends
    Policy,         \* policies of the service's organization and environment kind
    QuotaPolicy,    \* the daily and monthly ones; the others are rate policies
    Dimension,      \* Dimension[p] is "shared" or "key"
    Target,         \* Target[p] is the key family p is limited to, or AnyFamily
    AnyFamily,
    SharedBudget,   \* the dimension of every bucket of a shared policy
    Scope,          \* permission names of the service
    Input,          \* the verification requests the backend may send
    MaxUnits,       \* the weight a request may carry (10^6)
    Limit,          \* limits a policy may be configured with
    Delta,          \* adjustments an operator may make
    AdjustmentCap,  \* the bound on a period's total adjustment (10^12)
    MaxPeriod,      \* bound: quota periods that are explored
    NoEvent         \* the idempotency key has no decision event

ASSUME ConstantsAssumption ==
    /\ Input # {}
    /\ QuotaPolicy \subseteq Policy
    /\ Dimension \in [Policy -> {"shared", "key"}]
    /\ Target \in [Policy -> Key \cup {AnyFamily}]
    /\ Input \subseteq [key : Key, idem : Idem, units : 1..MaxUnits,
                        scopes : SUBSET Scope, mode : {"all", "any"}]
    /\ MaxUnits \in Nat
    /\ Limit \subseteq Nat
    /\ Delta \subseteq Int \ {0}
    /\ AdjustmentCap \in Nat
    /\ MaxPeriod \in Nat \ {0}
    /\ AnyFamily \notin Key
    /\ SharedBudget \notin Key

VARIABLES
    keyStatus,   \* keyStatus[k]: absent, live, expired or revoked
    family,      \* family[k]: the first key of k's rotation chain
    policy,      \* policy[p]: [active, version, limit]
    used,        \* used[b]: units charged to quota bucket b
    adjustment,  \* adjustment[b]: operator credit or debit of bucket b
    record       \* record[i]: the decision event settled under i, or NoEvent

ledgerVars == <<keyStatus, family, policy, used, adjustment, record>>

-----------------------------------------------------------------------------
KeyStatus == {"absent", "live", "expired", "revoked"}
PolicyRow == [active : BOOLEAN, version : Nat \ {0}, limit : Limit]

Denial == {"invalid_credential", "revoked", "expired", "insufficient_scope",
           "quota_exceeded", "rate_limited"}
Decision == Denial \cup {"allowed"}

\* A quota bucket: one policy, one budget holder, one UTC period.
Bucket == QuotaPolicy \X (Key \cup {SharedBudget}) \X (1..MaxPeriod)

Event == [input : Input, decision : Decision, charged : SUBSET Bucket]

ASSUME NoEventAssumption == NoEvent \notin Event

BudgetOf(p, f) == IF Dimension[p] = "key" THEN f ELSE SharedBudget
Applies(p, f) == Target[p] \in {AnyFamily, f}
NonNegative(n) == IF n < 0 THEN 0 ELSE n
Allowance(b) == NonNegative(policy[b[1]].limit + adjustment[b])
=============================================================================
