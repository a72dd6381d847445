----------------------------- MODULE MCWebhooks -----------------------------
(* TLC instance of WebhookDelivery: one settlement of an agent and two       *)
(* registry endpoints that can be removed, tested and published to.          *)
EXTENDS WebhookDelivery
=============================================================================
