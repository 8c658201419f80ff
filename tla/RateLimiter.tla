----------------------------- MODULE RateLimiter -----------------------------
(***************************************************************************)
(* The Redis script that consumes the rate policies of a decision: all of  *)
(* them or none, in fixed windows and token buckets, on keys that expire.  *)
(*                                                                         *)
(* Time is counted in ticks, Second of them in a second, so that an answer *)
(* in whole seconds is rounded.  It does not go back.  The tokens of a     *)
(* bucket are counted in parts that a tick refills a whole number of; the  *)
(* script counts them in floating point.                                   *)
(***************************************************************************)
EXTENDS Integers, Sequences, FiniteSets

CONSTANTS
    Policy,       \* rate policies
    Family,       \* key families that ask for decisions
    PerKey,       \* the policies whose dimension is "key"
    Applicable,   \* Applicable[f]: the policies that apply to family f
    Config,       \* their configurations
    Initial,      \* Initial[p]: the configuration a policy was created with
    Second,       \* ticks of a second
    MaxTime,      \* bound: ticks
    MaxVersion,   \* bound: versions of a policy
    Shared, NoBucket, NoPromise

FixedWindow == {c \in Config : c.algorithm = "fixed_window"}
TokenBucket == {c \in Config : c.algorithm = "token_bucket"}

(* validate_policy_config: positive integers, and a bucket that refills     *)
(* within a day.                                                            *)
Day == 86400
Most == 1000000000
Valid(c) ==
    \/ /\ c.algorithm = "fixed_window"
       /\ c.limit \in 1..Most
       /\ c.window_seconds \in 1..Day
    \/ /\ c.algorithm = "token_bucket"
       /\ {c.capacity, c.refill_tokens} \subseteq 1..Most
       /\ c.refill_seconds \in 1..Day
       /\ c.capacity * c.refill_seconds <= Day * c.refill_tokens

(* What HSET stores under a key, with the time EXPIRE gives it.            *)
Hash ==
    [window : Nat, count : Nat, expires : Nat] \cup [tokens : Nat, at : Nat, expires : Nat]

ASSUME RateAssumption ==
    /\ \A c \in Config : Valid(c)
    /\ Initial \in [Policy -> Config]
    /\ Applicable \in [Family -> SUBSET Policy]
    /\ PerKey \subseteq Policy
    /\ Shared \notin Family
    /\ Second \in Nat \ {0}
    /\ MaxTime \in Nat
    /\ MaxVersion \in Nat \ {0}
    /\ NoBucket \notin Hash

VARIABLES
    now,
    revision,   \* revision[p]: the rows of policy p, one for each version
    bucket,     \* bucket[k]: the hash stored under a key, or NoBucket
    grants,     \* history: grants[k]: when a unit of key k was consumed
    promise     \* history: the last denial, and when it said to come back

rateVars == <<now, revision, bucket, grants, promise>>

BucketKey == Policy \X (1..MaxVersion) \X (Family \union {Shared})

Version(p) == Len(revision[p])
Current(p) == revision[p][Version(p)]

(* The policy, its version and its dimension name the key.                  *)
KeyOf(p, f) == <<p, Version(p), IF p \in PerKey THEN f ELSE Shared>>

RatePolicies(f) == {p \in Applicable[f] : Current(p).active}

-----------------------------------------------------------------------------
Ceiling(a, b) == (a + b - 1) \div b
Larger(a, b) == IF a > b THEN a ELSE b
Smaller(a, b) == IF a < b THEN a ELSE b

(* A key that has expired reads as if it had never been written.            *)
Stored(k) == bucket[k] # NoBucket /\ now < bucket[k].expires

WindowOf(c, t) == t \div (c.window_seconds * Second)
WindowEnd(c, t) == (WindowOf(c, t) + 1) * c.window_seconds * Second

Count(c, k) ==
    IF Stored(k) /\ bucket[k].window = WindowOf(c, now) THEN bucket[k].count ELSE 0

Part(c) == c.refill_seconds * Second
Full(c) == c.capacity * Part(c)

Tokens(c, k) ==
    IF Stored(k)
    THEN Smaller(Full(c), bucket[k].tokens + Larger(0, now - bucket[k].at) * c.refill_tokens)
    ELSE Full(c)

Denies(c, k) ==
    IF c \in FixedWindow THEN Count(c, k) >= c.limit ELSE Tokens(c, k) < Part(c)

(* Whole seconds until there is room.                                       *)
\* (_Floor: as if they were rounded down.)
RetryAfter_Floor(c, k) ==
    IF c \in FixedWindow THEN (WindowEnd(c, now) - now) \div Second
    ELSE (Part(c) - Tokens(c, k)) \div (c.refill_tokens * Second)
RetryAfter(c, k) ==
    IF c \in FixedWindow THEN Ceiling(WindowEnd(c, now) - now, Second)
    ELSE Ceiling(Part(c) - Tokens(c, k), c.refill_tokens * Second)

(* How many seconds the key is kept.                                        *)
\* (_Short: as if a bucket were kept until its next token.)
TimeToLive_Short(c) ==
    IF c \in FixedWindow THEN Ceiling(WindowEnd(c, now) - now, Second) + 1
    ELSE Ceiling(c.refill_seconds, c.refill_tokens)
TimeToLive(c) ==
    IF c \in FixedWindow THEN Ceiling(WindowEnd(c, now) - now, Second) + 1
    ELSE Larger(1, Ceiling(c.capacity * c.refill_seconds, c.refill_tokens) + 1)

Consumed(c, k) ==
    IF c \in FixedWindow
    THEN [window |-> WindowOf(c, now), count |-> Count(c, k) + 1,
          expires |-> now + TimeToLive(c) * Second]
    ELSE [tokens |-> Larger(0, Tokens(c, k) - Part(c)), at |-> now,
          expires |-> now + TimeToLive(c) * Second]

-----------------------------------------------------------------------------
RateInit ==
    /\ now = 0
    /\ revision = [p \in Policy |-> <<[config |-> Initial[p], active |-> TRUE]>>]
    /\ bucket = [k \in BucketKey |-> NoBucket]
    /\ grants = [k \in BucketKey |-> <<>>]
    /\ promise = NoPromise

Refusing(f) == {p \in RatePolicies(f) : Denies(Current(p).config, KeyOf(p, f))}

Allowed(f) == Refusing(f) = {}

Keys(f) == {KeyOf(p, f) : p \in RatePolicies(f)}

(* "if not denied": every key is written, or none.                          *)
\* (_Greedy: as if each policy consumed for itself.)
Written_Greedy(f) == {KeyOf(p, f) : p \in RatePolicies(f) \ Refusing(f)}
Written(f) == IF Allowed(f) THEN Keys(f) ELSE {}

ConfigOf(k) == revision[k[1]][k[2]].config

Consume(f) ==
    /\ bucket' = [k \in BucketKey |->
                    IF k \in Written(f) THEN Consumed(ConfigOf(k), k) ELSE bucket[k]]
    /\ IF Allowed(f)
       THEN /\ grants' = [k \in BucketKey |->
                            IF k \in Keys(f) THEN Append(grants[k], now) ELSE grants[k]]
            /\ promise' = NoPromise
       ELSE LET waits == {RetryAfter(Current(p).config, KeyOf(p, f)) : p \in Refusing(f)}
                retry == CHOOSE r \in waits : \A s \in waits : s <= r
            IN /\ promise' = [family |-> f, from |-> now + retry * Second]
               /\ UNCHANGED grants
    /\ UNCHANGED <<now, revision>>

(* update_policy: the next version starts on keys of its own.               *)
EditPolicy(p, c, active) ==
    /\ Version(p) < MaxVersion
    /\ c.algorithm = Current(p).config.algorithm
    /\ revision' = [revision EXCEPT ![p] = Append(@, [config |-> c, active |-> active])]
    /\ promise' = NoPromise
    /\ UNCHANGED <<now, bucket, grants>>

(* redis.call('TIME'), as far as MaxTime.                                   *)
Tick ==
    /\ now < MaxTime
    /\ now' = now + 1
    /\ UNCHANGED <<revision, bucket, grants, promise>>

RateNext ==
    \/ \E f \in Family : Consume(f)
    \/ \E p \in Policy, c \in Config, active \in BOOLEAN : EditPolicy(p, c, active)
    \/ Tick

RateSpec == RateInit /\ [][RateNext]_rateVars

-----------------------------------------------------------------------------
Used == {k \in BucketKey : grants[k] # <<>>}

(* Every key holds the hash of its own algorithm.                           *)
RateTypeOK ==
    /\ now \in 0..MaxTime
    /\ \A p \in Policy : Version(p) \in 1..MaxVersion
    /\ \A k \in BucketKey :
          \/ bucket[k] = NoBucket
          \/ /\ ConfigOf(k) \in FixedWindow
             /\ bucket[k].count \in 1..ConfigOf(k).limit
             /\ bucket[k].window \in 0..MaxTime
          \/ /\ ConfigOf(k) \in TokenBucket
             /\ bucket[k].tokens \in 0..Full(ConfigOf(k))
             /\ bucket[k].at \in 0..MaxTime

(* What a policy promises, counted on the calls it let through and not on   *)
(* what Redis stores: no window passes its limit, and between any two calls *)
(* no more pass than a full bucket and its refill in between.               *)
BudgetRespected ==
    \A k \in Used :
        LET g == grants[k]
            c == ConfigOf(k)
        IN IF c \in FixedWindow
           THEN \A i \in DOMAIN g :
                   Cardinality({j \in DOMAIN g : WindowOf(c, g[j]) = WindowOf(c, g[i])}) <= c.limit
           ELSE \A i, j \in DOMAIN g :
                   i <= j => (j - i + 1) * Part(c) <= Full(c) + (g[j] - g[i]) * c.refill_tokens

(* What is left in a bucket after the first n of its grants.                *)
Left(c, g) ==
    LET left[n \in 0..Len(g)] ==
          IF n = 0 THEN Full(c)
          ELSE Smaller(Full(c), left[n - 1] + (g[n] - (IF n = 1 THEN 0 ELSE g[n - 1])) * c.refill_tokens)
                 - Part(c)
    IN left[Len(g)]

(* Nothing else is consumed: what the script reads is what the grants leave *)
(* over, although denied calls wrote in other policies' turn, keys expired  *)
(* and other versions were in force in between.                             *)
NothingElseConsumed ==
    \A k \in Used :
        LET g == grants[k]
            c == ConfigOf(k)
        IN IF c \in FixedWindow
           THEN Count(c, k) = Cardinality({j \in DOMAIN g : WindowOf(c, g[j]) = WindowOf(c, now)})
           ELSE Tokens(c, k) =
                  Smaller(Full(c), Left(c, g) + (now - g[Len(g)]) * c.refill_tokens)

(* retry_after is honest and no longer than whole seconds make it: unless   *)
(* somebody else consumes or a policy is edited, a caller that comes back   *)
(* then is let through, and one that comes a second earlier is not.         *)
RetryAfterExact ==
    promise # NoPromise =>
        /\ now >= promise.from => Allowed(promise.family)
        /\ now + Second <= promise.from => ~Allowed(promise.family)
=============================================================================
