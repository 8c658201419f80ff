----------------------------- MODULE MCWebhooks -----------------------------
(* A small instance of Webhooks for TLC. *)
EXTENDS Webhooks

CONSTANTS e1, v1, v2, w1, w2, c1

AllSubscribe == [v \in Event |-> Endpoint]
=============================================================================
