--------------------------- MODULE MCStockLedger ---------------------------
(* Instances of StockLedger for TLC. *)
EXTENDS StockLedger

\* A receipt, two consumptions that fit it together only in sequence.
Deltas == [s \in Sessions |->
    CASE s = "receipt" -> 2 [] s = "shop" -> -1 [] s = "floor" -> -2
      [] OTHER -> -1]

Balances == {-1, 1}
=============================================================================
