--------------------------- MODULE MCOrganizations --------------------------
(* Small instances of Organizations for TLC. *)
EXTENDS Organizations, TLC

CONSTANTS u1, u2, u3, i1, i2, i3, t1, t2

Symmetric == Permutations(User) \cup Permutations(Invitation) \cup Permutations(Thread)
=============================================================================
