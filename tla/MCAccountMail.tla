--------------------------- MODULE MCAccountMail ---------------------------
(* A small instance of AccountMail for TLC. *)
EXTENDS AccountMail

CONSTANTS w1, w2, here, there

(* Bounds.  Of the address and the password, one changes in a behaviour.    *)
OneChanges ==
    account.password > 1 =>
        account.email = here /\ \A r \in Rows : rows[r].email = here

(* Two workers meet, and a row is tried for the last time, while there is   *)
(* one row.                                                                 *)
Meetings ==
    job[w2] # Idle =>
        Len(rows) = 1 /\ account.password = 1 /\ account.email = here /\ rows[1].email = here

Retries == Len(rows) = 2 => \A r \in Rows : rows[r].attempts < MaxAttempts

Constraint == OneChanges /\ Meetings /\ Retries
=============================================================================
