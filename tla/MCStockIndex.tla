---------------------------- MODULE MCStockIndex ----------------------------
(***************************************************************************)
(* An instance of StockIndex with two markets.                             *)
(***************************************************************************)
EXTENDS StockIndex

MCOrder == <<"KOSPI", "KOSDAQ">>
=============================================================================
