----------------------------- MODULE Execution -----------------------------
(***************************************************************************)
(* What the two backtest engines have in common: the sides of a position,  *)
(* the price an order fills at and what it costs.                          *)
(***************************************************************************)
EXTENDS Integers

CONSTANTS SlippagePercent,
          CostPercent      \* the charges of a leg by its side

ASSUME ExecutionConstants ==
  SlippagePercent \in 0..99 /\ CostPercent \in [{"BUY", "SELL"} -> Nat]

Directions == {"BULLISH", "BEARISH"}
Entering(direction) == IF direction = "BULLISH" THEN "BUY" ELSE "SELL"
Leaving(direction) == IF direction = "BULLISH" THEN "SELL" ELSE "BUY"

\* Always against the trader.
Slipped(side, price) ==
  (price * (IF side = "BUY" THEN 100 + SlippagePercent ELSE 100 - SlippagePercent)) \div 100
Cost(side, notional) == (notional * CostPercent[side]) \div 100
SignedGross(direction, entry, exit, quantity) ==
  (IF direction = "BULLISH" THEN exit - entry ELSE entry - exit) * quantity
=============================================================================
