------------------------ MODULE MCWebhookDelivery ------------------------
(* A subscription that may ask for a second event later.                  *)
EXTENDS WebhookDelivery, TLC

CONSTANTS s1, e1, e2

MCSelections == {{e1}, {e1, e2}}
=============================================================================
