------------------------------ MODULE MCWebhooks -----------------------------
(* Instances of Webhooks for TLC. *)
EXTENDS Webhooks

CONSTANTS joined, left
=============================================================================
