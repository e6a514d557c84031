--------------------------- MODULE MCWebhookInbox ---------------------------
(***************************************************************************)
(* TLC instance of WebhookInbox: events do not share a row, so one event   *)
(* and three overlapping deliveries of it (the holder of the claim, the    *)
(* one that takes it over, and a duplicate of both).                       *)
(***************************************************************************)
EXTENDS WebhookInbox

=============================================================================
