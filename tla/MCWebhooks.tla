----------------------------- MODULE MCWebhooks -----------------------------
(* An instance of Webhooks for TLC.                                         *)
EXTENDS Webhooks

CONSTANTS h1, o1, o2

=============================================================================
