--------------------------- MODULE MCWebhookQueue ---------------------------
(***************************************************************************)
(* WebhookQueue for TLC: the workers and rows are model values, the bounds *)
(* are set in the configurations MCWebhookQueueShared (several processes), *)
(* MCWebhookQueueSole (one) and MCWebhookQueueRequeue (dead letters).      *)
(***************************************************************************)
EXTENDS WebhookQueue

=============================================================================
