----------------------------- MODULE MCSessions -----------------------------
(* Small instances of Sessions for TLC. *)
EXTENDS Sessions, TLC

CONSTANTS s1, s2, q1, t1, t2

Symmetric == Permutations(Session) \cup Permutations(Reset) \cup Permutations(Thread)
=============================================================================
