---------------------------- MODULE AccessLedger ----------------------------
(***************************************************************************)
(* What access verification promises, with every decision a single step:   *)
(* the caller's idempotency key is settled at most once, an allow charges  *)
(* a set of quota buckets that all have room for it, it is never for a     *)
(* revoked key, and nothing else moves the counters.  The locks, the       *)
(* cached rows, Redis and the crashes of the code are in Verification,     *)
(* which implements this module.                                           *)
(***************************************************************************)
EXTENDS AccessState

Init ==
    /\ keyStatus = [k \in Key |-> "absent"]
    /\ family = [k \in Key |-> k]
    /\ policy \in [Policy -> [active : BOOLEAN, version : {1}, limit : Limit]]
    /\ used = [b \in Bucket |-> 0]
    /\ adjustment = [b \in Bucket |-> 0]
    /\ record = [i \in Idem |-> NoEvent]

\* The policies an allow for input in, in family f, must have charged: every
\* applicable active quota policy, except that one edited since the service
\* went live may have been switched on while the decision was under way.
CoversPolicies(in, charged) ==
    \A p \in QuotaPolicy :
        policy[p].active /\ policy[p].version = 1 /\ Applies(p, family[in.key])
            => \E b \in charged : b[1] = p

\* An allow: the key is not revoked, each bucket is one of the key's own and
\* has room for the whole request, and the charge and the event are one step.
Allow(in, charged) ==
    /\ record[in.idem] = NoEvent
    /\ keyStatus[in.key] \in {"live", "expired"}
    /\ CoversPolicies(in, charged)
    /\ \A b \in charged :
         /\ policy[b[1]].active
         /\ Applies(b[1], family[in.key])
         /\ b[2] = BudgetOf(b[1], family[in.key])
         /\ used[b] + in.units <= Allowance(b)
    /\ \A b, c \in charged : b[1] = c[1] => b = c
    /\ used' = [b \in Bucket |-> IF b \in charged THEN used[b] + in.units
                                                  ELSE used[b]]
    /\ record' = [record EXCEPT ![in.idem] =
                    [input |-> in, decision |-> "allowed", charged |-> charged]]
    /\ UNCHANGED <<keyStatus, family, policy, adjustment>>

Deny(in, d) ==
    /\ record[in.idem] = NoEvent
    /\ record' = [record EXCEPT ![in.idem] =
                    [input |-> in, decision |-> d, charged |-> {}]]
    /\ UNCHANGED <<keyStatus, family, policy, used, adjustment>>

\* Keys: issued once, expired and revoked for good, rotated inside a family.
KeyStep ==
    /\ \A k \in Key :
         /\ keyStatus[k] # "absent" => family'[k] = family[k] /\ keyStatus'[k] # "absent"
         /\ keyStatus[k] = "expired" => keyStatus'[k] # "live"
         /\ keyStatus[k] = "revoked" => keyStatus'[k] = "revoked"
         /\ family'[k] = k \/ \E j \in Key : family'[k] = family[j]
    /\ keyStatus' \in [Key -> KeyStatus]
    /\ family' \in [Key -> Key]
    /\ UNCHANGED <<policy, used, adjustment, record>>

PolicyStep(p) ==
    /\ \E a \in BOOLEAN, l \in Limit :
         policy' = [policy EXCEPT ![p] =
                      [active |-> a, version |-> policy[p].version + 1, limit |-> l]]
    /\ UNCHANGED <<keyStatus, family, used, adjustment, record>>

AdjustStep(b, d) ==
    /\ adjustment[b] + d \in -AdjustmentCap..AdjustmentCap
    /\ adjustment' = [adjustment EXCEPT ![b] = @ + d]
    /\ UNCHANGED <<keyStatus, family, policy, used, record>>

Next ==
    \/ \E in \in Input, charged \in SUBSET Bucket : Allow(in, charged)
    \/ \E in \in Input, d \in Denial : Deny(in, d)
    \/ KeyStep
    \/ \E p \in Policy : PolicyStep(p)
    \/ \E b \in Bucket, d \in Delta : AdjustStep(b, d)

Spec == Init /\ [][Next]_ledgerVars
=============================================================================
