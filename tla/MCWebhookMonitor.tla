--------------------------- MODULE MCWebhookMonitor ---------------------------
(* WebhookMonitor on small instances.                                      *)
EXTENDS WebhookMonitor, TLC
=============================================================================
