---------------------------- MODULE MCRateLimiter ----------------------------
(* Two families under a shared window, a shared bucket and a window of      *)
(* their own.                                                               *)
EXTENDS RateLimiter, TLC

Window(limit, seconds) ==
    [algorithm |-> "fixed_window", limit |-> limit, window_seconds |-> seconds]

Bucket(capacity, tokens, seconds) ==
    [algorithm |-> "token_bucket", capacity |-> capacity,
     refill_tokens |-> tokens, refill_seconds |-> seconds]

CONSTANTS window, bucketful, own, f1, f2

MCPolicy == {window, bucketful, own}
MCConfig == {Window(2, 2), Window(1, 1), Bucket(2, 3, 2)}
MCInitial == (window :> Window(2, 2)) @@ (bucketful :> Bucket(2, 3, 2)) @@ (own :> Window(1, 1))
MCApplicable == (f1 :> MCPolicy) @@ (f2 :> {window, bucketful})

(* Bounds: four calls pass, or two around an edit of the first policy. *)
MaxGrants == 4
MaxGrantsEdited == 2

Constraint ==
    /\ Version(bucketful) = 1 /\ Version(own) = 1
    /\ LET passed == Len(grants[<<bucketful, 1, Shared>>]) IN
       \/ Version(window) = 1 /\ passed <= MaxGrants
       \/ Current(window).config # Initial[window] /\ passed <= MaxGrantsEdited
=============================================================================
