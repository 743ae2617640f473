--------------------------- MODULE MCWebhookClaim ---------------------------
(***************************************************************************)
(* The events of one payment, two web processes (start.sh starts two).     *)
(***************************************************************************)
EXTENDS WebhookClaim

CONSTANTS checkout, refund, w1, w2
=============================================================================
