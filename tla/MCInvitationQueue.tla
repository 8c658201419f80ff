------------------------- MODULE MCInvitationQueue -------------------------
(* A small instance of InvitationQueue for TLC. *)
EXTENDS InvitationQueue

CONSTANTS w1, w2, t1, t2, i1, i2

(* Bound: the two runs overlap on first attempts. *)
Overlap ==
    todo[w2] # <<>> =>
        crashes = 0 /\ \A i \in Invitation : row[i] # NoInvitation => row[i].attempts = 0
=============================================================================
