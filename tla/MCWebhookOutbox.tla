--------------------------- MODULE MCWebhookOutbox ----------------------------
(***************************************************************************)
(* Two instances on one database.  A sale and a setting are pushed, and    *)
(* the sale again with a refund; the endpoint takes sales and refunds.     *)
(***************************************************************************)
EXTENDS WebhookOutbox, TLC

CONSTANTS first, again, sale, refund, setting, books, east, west

MCBatch  == (first :> {sale, setting}) @@ (again :> {sale, refund})
MCWanted == books :> {sale, refund}
=============================================================================
