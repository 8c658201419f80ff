------------------------------- MODULE Outbox -------------------------------
(***************************************************************************)
(* What a durable outbox promises: a message that was committed with the   *)
(* work it announces is transmitted at least once before it counts as      *)
(* delivered, is never transmitted after it was delivered or closed, and   *)
(* does not stay in the queue.                                             *)
(***************************************************************************)
EXTENDS Naturals

CONSTANT Message

VARIABLES
    state,    \* state[m]: "absent", "queued", "delivered" or "closed"
    copies    \* copies[m]: how often the receiver's side accepted it

vars == <<state, copies>>

Init ==
    /\ state = [m \in Message |-> "absent"]
    /\ copies = [m \in Message |-> 0]

Move(m, from, to) ==
    /\ state[m] = from
    /\ state' = [state EXCEPT ![m] = to]

Transmit(m) ==
    /\ state[m] = "queued"
    /\ copies' = [copies EXCEPT ![m] = @ + 1]
    /\ UNCHANGED state

Deliver(m) ==
    /\ Move(m, "queued", "delivered")
    /\ copies[m] > 0
    /\ UNCHANGED copies

\* One command may close several messages and queue another in their place.
Replace(closed, new) ==
    /\ \A m \in closed : state[m] \in {"queued", "delivered"}
    /\ \A m \in new : state[m] = "absent"
    /\ state' = [m \in Message |-> IF m \in closed THEN "closed"
                                   ELSE IF m \in new THEN "queued" ELSE state[m]]
    /\ UNCHANGED copies

Settle(m) == Deliver(m) \/ (Move(m, "queued", "closed") /\ UNCHANGED copies)

Next ==
    \/ \E m \in Message : Transmit(m) \/ Settle(m)
    \/ \E closed, new \in SUBSET Message : Replace(closed, new)

Spec == Init /\ [][Next]_vars
FairSpec == Spec /\ \A m \in Message : WF_vars(Settle(m))
=============================================================================
