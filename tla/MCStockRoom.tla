------------------------------ MODULE MCStockRoom ------------------------------
(* Instances of StockRoom for TLC.                                         *)
EXTENDS StockRoom
=============================================================================
