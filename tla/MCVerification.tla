--------------------------- MODULE MCVerification ---------------------------
(* Small instances of Verification for TLC. *)
EXTENDS Verification, TLC

CONSTANTS r1, r2, k1, k2, i1, i2, rate, quota, read

Call(k, i, u, scopes) ==
    [key |-> k, idem |-> i, units |-> u, scopes |-> scopes, mode |-> "all"]

\* Two charges; two keys of one chain; a scoped call and its careless retry.
SpendInput == {Call(k1, i1, 1, {}), Call(k1, i2, 2, {})}
RotateInput == {Call(k1, i1, 1, {}), Call(k2, i2, 1, {})}
RetryInput == {Call(k1, i1, 1, {read}), Call(k1, i1, 1, {})}
AllInput == SpendInput \cup RotateInput \cup RetryInput
OneInput == {Call(k1, i1, 1, {})}

KeyDimension == [p \in Policy |-> "key"]
MixedDimension == [p \in Policy |-> IF p = quota THEN "shared" ELSE "key"]
AnyTarget == [p \in Policy |-> AnyFamily]
OneTarget == [p \in Policy |-> IF p = quota THEN k1 ELSE AnyFamily]

Credit == {1}
CreditDebit == {-1, 1}

-----------------------------------------------------------------------------
(* Three stories the safety run explores, each from its first step to the   *)
(* step that leaves it                                                      *)
Made(inputs) == \A r \in Request : pc[r] # "idle" => input[r] \in inputs
Only(p) == \A o \in Policy : policy[o].active <=> o = p
Fixed(p) == policy[p].version = 1 /\ policy[p].limit = 2
Undisturbed == parentActive /\ integration /\ activeScope = Scope

\* Two charges meet edits of the policy and of the bucket.
Spending ==
    /\ Made(SpendInput)
    /\ Fixed(rate) /\ ~policy[rate].active
    /\ Undisturbed
    /\ keyStatus[k2] = "absent" /\ keyStatus[k1] # "expired"
    /\ \A k \in Key : grants[k] = {}

\* A key is rotated, revoked and expires under its calls.
Rotating ==
    /\ Made(RotateInput)
    /\ Fixed(rate) /\ Fixed(quota) /\ Only(quota)
    /\ Undisturbed
    /\ \A k \in Key : grants[k] = {}
    /\ \A b \in Bucket : adjustment[b] = 0

\* A call is retried while permissions, parents and the credential change.
Retrying ==
    /\ Made(RetryInput)
    /\ Fixed(rate) /\ Fixed(quota) /\ Only(rate)
    /\ keyStatus[k2] = "absent"
    /\ \A b \in Bucket : adjustment[b] = 0

Stories == Spending \/ Rotating \/ Retrying

Calls == Permutations(Request)
=============================================================================
