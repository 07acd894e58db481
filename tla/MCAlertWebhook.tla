---------------------------- MODULE MCAlertWebhook ----------------------------
(* AlertWebhook with two of its caches.                                     *)
EXTENDS AlertWebhook

MCCaches == {"sendGroup", "onDutyGroup"}

=============================================================================
