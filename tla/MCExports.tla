----------------------------- MODULE MCExports ------------------------------
(* A small instance of Exports for TLC. *)
EXTENDS Exports

CONSTANTS w1, w2, c1

(* Bound: crashes, facts and runs on both workers meet each other while there
   are two jobs, a download meets one worker and the clean-up; a third job is
   about the order in which the queue and the clean-up take jobs. *)
Quiet == todo[w2] = {} /\ task[w2] = NoTask
Meetings ==
    /\ asked[c1] # 0 \/ served # {} => Quiet
    /\ Len(jobs) = 3 => Quiet /\ served = {} /\ asked[c1] = 0 /\ facts = 0 /\ crashes = 0
=============================================================================
