-------------------------- MODULE PositionMonitor --------------------------
(***************************************************************************)
(* The life of one monitored position: position_monitor_runtime.py (the   *)
(* exit orders for what ExitPolicy decides, the emergency square-off), the *)
(* exit plan a filled signal order attaches to the ledger row, and what    *)
(* the paper broker makes of the quantities.  One worker process, one      *)
(* instrument; restarts, failing writes and other processes are in         *)
(* SquareOff, which leaves prices, levels and fractions of a share out.    *)
(*                                                                         *)
(* Quantities count the ledger's smallest unit, 0.0001.  A price counts    *)
(* steps of half a percent, so that the levels of derive_default_exit_plan *)
(* lie at fixed distances from the entry price; an average is cut to a     *)
(* whole step.  Orders are at MARKET, the broker has a price and the       *)
(* funds.                                                                  *)
(***************************************************************************)
EXTENDS ExitPolicy

CONSTANTS Prices,          \* what the market may quote
          EntryPrices,     \* where a signal may enter
          Lot,             \* the quantity of a signal order
          MaxHeld,         \* bound on the position signals build up
          MaxSize,         \* the risk limit on position size
          Quantum          \* what the broker rounds a fill to, 0.01

ASSUME PricesAssumption == Prices \subseteq Int /\ EntryPrices \subseteq Int
ASSUME QuantitiesAssumption ==
  /\ Lot \in Nat \ {0} /\ Quantum \in Nat \ {0}
  /\ MaxHeld \in Nat /\ MaxSize \in Nat

VARIABLES held,     \* the broker's position, qty = 0 when there is none or it is CLOSED
          resting,  \* what a PARTIALLY_FILLED order has left to fill
          row,      \* the ledger row of the newest position
          halted    \* the kill switch

vars == <<held, resting, row, halted>>

Flat == [dir |-> "BUY", qty |-> 0, price |-> 0]
Settled == [side |-> "BUY", qty |-> 0]

-----------------------------------------------------------------------------
(* The broker.                                                             *)

BadFilled(qty) == ((qty + Quantum \div 2) \div Quantum) * Quantum

\* _attempt_fill rounds the quantity it fills to 0.01, half up, but fills no more than
\* was ordered and never nothing.
Filled(qty) ==
  LET rounded == ((qty + Quantum \div 2) \div Quantum) * Quantum
  IN IF rounded = 0 \/ rounded > qty THEN qty ELSE rounded

\* _apply_to_position: a fill on the other side closes, what exceeds the position is lost.
Applied(h, side, qty, price) ==
  IF h.qty = 0 THEN [dir |-> side, qty |-> qty, price |-> price]
  ELSE IF h.dir = side
       THEN [h EXCEPT !.qty = @ + qty,
                      !.price = (@ * h.qty + price * qty) \div (h.qty + qty)]
  ELSE IF qty >= h.qty THEN Flat
  ELSE [h EXCEPT !.qty = @ - qty]

BadGateAllows(h, working, qty) == h.qty + qty <= MaxSize

\* evaluate_order_risk: an instrument with a working order takes no other one, not even
\* one that reduces the position, and the size limit adds an exit to what it closes.
GateAllows(h, working, qty) == working.qty = 0 /\ h.qty + qty <= MaxSize

LeftOver(side, qty) ==
  IF Filled(qty) = qty THEN Settled ELSE [side |-> side, qty |-> qty - Filled(qty)]

\* sync_positions: a position opened by this order gets a row of its own, without a plan.
\* The row it replaces has nothing remaining, so the monitor no longer loads it.
Synced(before, after) ==
  IF before.qty = 0 /\ after.qty > 0
  THEN [open |-> TRUE, dir |-> after.dir, qty |-> after.qty, plan |-> NoPlan,
        stage |-> "OPEN", remaining |-> after.qty, best |-> after.price]
  ELSE [row EXCEPT !.open = after.qty > 0,
                   !.qty = IF after.qty > 0 THEN after.qty ELSE before.qty]

-----------------------------------------------------------------------------
(* The exit plan.                                                          *)

\* derive_default_exit_plan: 1% stop, targets at 1.5%, 2.5% and 4%, trailing by 1%.
DefaultPlan(price, side) ==
  [STOP_LOSS |-> price - Toward(side) * 2, TRAILING_STOP |-> 2,
   TARGET_1 |-> price + Toward(side) * 3, TARGET_2 |-> price + Toward(side) * 5,
   TARGET_3 |-> price + Toward(side) * 8]

\* attach_exit_plan: for all of the position, starting over.
Attached(r, h, side) ==
  [r EXCEPT !.plan = DefaultPlan(h.price, side), !.stage = "OPEN",
            !.remaining = h.qty, !.best = h.price]

\* evaluate_and_submit: a directional signal orders one lot; when the order FILLED and a
\* position is open, the plan is attached, with the side of the order.
Signal(side, price) ==
  LET after == Applied(held, side, Filled(Lot), price)
      saved == Synced(held, after)
  IN /\ ~halted
     /\ held.dir = side => held.qty + Lot <= MaxHeld
     /\ GateAllows(held, resting, Lot)
     /\ held' = after
     /\ resting' = LeftOver(side, Lot)
     /\ row' = IF Filled(Lot) = Lot /\ after.qty > 0 THEN Attached(saved, after, side)
                                                     ELSE saved
     /\ UNCHANGED halted

-----------------------------------------------------------------------------
(* The monitor.                                                            *)

\* load_open_managed_positions.  A row with more remaining than its quantity makes the
\* whole load raise.
Loaded == row.open /\ row.plan # NoPlan /\ row.remaining > 0 /\ row.remaining <= row.qty

\* run_position_monitor_tick for this row.  The row is updated whatever became of the
\* order.
Tick(price) ==
  LET exit  == Decision(row, price)
      side  == Other(row.dir)
      after == Applied(held, side, Filled(exit.qty), price)
      moved == [row EXCEPT !.best = Better(row.dir, @, price)]
      exited(r) == [r EXCEPT !.remaining = row.remaining - exit.qty, !.stage = exit.stage,
                             !.best = moved.best]
  IN /\ Loaded
     /\ IF exit = NoExit
        THEN row' = moved /\ UNCHANGED <<held, resting>>
        ELSE /\ exit.qty > 0
             /\ IF GateAllows(held, resting, exit.qty)
                THEN /\ held' = after
                     /\ resting' = LeftOver(side, exit.qty)
                     /\ row' = exited(Synced(held, after))
                ELSE /\ row' = exited(row)
                     /\ UNCHANGED <<held, resting>>
     /\ UNCHANGED halted

-----------------------------------------------------------------------------
(* The kill switch and the emergency square-off.                           *)

Halt  == ~halted /\ halted' = TRUE  /\ UNCHANGED <<held, resting, row>>
Reset == halted  /\ halted' = FALSE /\ UNCHANGED <<held, resting, row>>

BadRecorded(price) == [held |-> held, resting |-> resting]

\* record_price completes a partly filled MARKET order, whatever is left of it.
Recorded(price) ==
  [held    |-> IF resting.qty = 0 THEN held
               ELSE Applied(held, resting.side, resting.qty, price),
   resting |-> Settled]

\* run_emergency_square_off for this position: record the price, then order the quantity
\* that was read before.
SquareOff(price) ==
  LET broker    == Recorded(price)
      completed == broker.held
      side  == Other(held.dir)
      after == Applied(completed, side, Filled(held.qty), price)
      saved == Synced(completed, after)
  IN /\ halted
     /\ held.qty > 0
     /\ IF GateAllows(completed, broker.resting, held.qty)
        THEN /\ held' = after
             /\ resting' = LeftOver(side, held.qty)
             /\ row' = IF completed.qty = 0 THEN saved
                       ELSE [saved EXCEPT !.stage = "STOPPED", !.remaining = 0,
                                          !.best = price]
        ELSE held' = completed /\ resting' = broker.resting /\ UNCHANGED row
     /\ UNCHANGED halted

Init ==
  /\ held = Flat
  /\ resting = Settled
  /\ row = [open |-> FALSE, dir |-> "BUY", qty |-> 0, plan |-> NoPlan, stage |-> "OPEN",
            remaining |-> 0, best |-> 0]
  /\ halted = FALSE

Next ==
  \/ \E side \in {"BUY", "SELL"}, price \in EntryPrices : Signal(side, price)
  \/ \E price \in Prices : Tick(price)
  \/ Halt
  \/ Reset
  \/ \E price \in Prices : SquareOff(price)

Spec == Init /\ [][Next]_vars

\* The square-off is retried by the 15 s beat until the position is gone.
FairSpec == Spec /\ WF_vars(\E price \in Prices : SquareOff(price))
=============================================================================
