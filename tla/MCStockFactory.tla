--------------------------- MODULE MCStockFactory ---------------------------
(* Small instances of StockFactory for TLC; the constants are in the .cfg  *)
(* files.                                                                  *)
EXTENDS StockFactory
=============================================================================
