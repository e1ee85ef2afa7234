--------------------------- MODULE MCPaperBroker ---------------------------
(* Instances of PaperBroker for TLC. *)
EXTENDS PaperBrokerProps, TLC

Intent(inst, side, type, qty, limit, trigger) ==
  [inst |-> inst, side |-> side, type |-> type, qty |-> qty,
   limit |-> limit, trigger |-> trigger]

\* Two units an order, filled in halves: market, limit and stop orders on both sides.
\* Prices whose blends over up to six units are whole numbers.
LotIntents ==
  {Intent(i, "BUY", "MARKET", 2, 0, 0) : i \in Instruments} \union
  {Intent(i, "SELL", "MARKET", 2, 0, 0) : i \in Instruments} \union
  {Intent(i, "BUY", "LIMIT", 2, 3600, 0) : i \in Instruments} \union
  {Intent(i, "SELL", "LIMIT", 2, 7200, 0) : i \in Instruments} \union
  {Intent(i, "SELL", "STOP_LOSS_MARKET", 2, 0, 3600) : i \in Instruments}

\* Sizes that differ, a stop-limit, and a stop-limit without its limit price.
MixedIntents ==
  {Intent(i, "BUY", "MARKET", 5, 0, 0) : i \in Instruments} \union
  {Intent(i, "SELL", "MARKET", 3, 0, 0) : i \in Instruments} \union
  {Intent(i, "BUY", "LIMIT", 3, 120, 0) : i \in Instruments} \union
  {Intent(i, "SELL", "STOP_LOSS", 5, 120, 144) : i \in Instruments} \union
  {Intent(i, "BUY", "STOP_LOSS", 3, 0, 144) : i \in Instruments}

Rates == [s \in Sides |-> IF s = "BUY" THEN 1 ELSE 2]

NoAmendments == {}
\* Below, at and above the quantity the quantum lets fill first, and a new limit price.
QuantityAmendments ==
  {[limit |-> 0, trigger |-> 0, qty |-> q] : q \in {1, 4, 7}} \union
  {[limit |-> 144, trigger |-> 0, qty |-> 0]}

OrderSymmetry == Permutations(Orders)
=============================================================================
