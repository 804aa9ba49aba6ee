--------------------------- MODULE MCGatewayCapture ---------------------------
(***************************************************************************)
(* One attempt: two taps, one re-issue, and every settlement notification  *)
(* delivered by two handlers at once.                                      *)
(***************************************************************************)
EXTENDS GatewayCapture

CONSTANTS once, twice \* deliveries

=============================================================================
