-------------------------- MODULE StatefulBacktest --------------------------
(***************************************************************************)
(* run_stateful_backtest: bar after bar, one instrument.  An order goes    *)
(* through the risk gate and, when it is approved, to the simulator, which *)
(* fills it at the price just recorded: the next open for an entry, this   *)
(* close for an exit.  The loop keeps a managed position of its own beside *)
(* the position of the simulator and never looks at what an order became.  *)
(*                                                                         *)
(* What a bar brings (signal, plan, price, whether it is the last one) and *)
(* what the caller's kill-switch provider says are inputs.  A quantity     *)
(* counts 0.0001 of a share, as in ExitPolicy, and a price the money for   *)
(* one of these.  An operator named Bad... is a plausible mistake in the   *)
(* operator that follows it; nothing else uses it.                         *)
(***************************************************************************)
EXTENDS ExitPolicy

CONSTANTS Quotes, Plans,   \* the opens and closes, and a plan for each direction
          MaxBars,         \* bound
          StartingBalance, QuantityPerTrade,
          ChargePercent,   \* the charges of a fill by its side
          MaxDailyLoss, MaxPosition, MaxExposure, MaxConcurrent   \* the risk limits

ASSUME StatefulConstants ==
  /\ Quotes \subseteq Nat \ {0} /\ MaxBars \in Nat
  /\ \A dir \in DOMAIN Plans : DOMAIN Plans[dir] \subseteq Rules
  /\ StartingBalance \in Nat \ {0} /\ QuantityPerTrade \in Nat \ {0}
  /\ ChargePercent \in [{"BUY", "SELL"} -> Nat]
  /\ MaxDailyLoss \in Nat /\ MaxPosition \in Nat /\ MaxExposure \in Nat /\ MaxConcurrent \in Nat

VARIABLES bar,       \* how many bars are behind
          at,        \* the loop: running, done, or raised an exception
          balance,   \* _available_balance
          position,  \* _positions[instrument_id]
          earned,    \* what the trades of get_trades() made, in all
          managed    \* the position the loop manages, None or a record

sim == <<balance, position, earned>>
statefulVars == <<bar, at, sim, managed>>

None == [dir |-> "NONE"]
NoPosition == [open |-> FALSE, dir |-> "BUY", qty |-> 0, price |-> 0, realized |-> 0]

StatefulInit ==
  /\ bar = 0 /\ at = "running"
  /\ balance = StartingBalance /\ position = NoPosition /\ earned = 0
  /\ managed = None

-----------------------------------------------------------------------------
(* HistoricalExecutionSimulator.                                           *)

Charges(side, notional) == (notional * ChargePercent[side]) \div 100

\* A sale is always filled, a purchase only when the balance covers it and its charges.
Fills(side, qty, price) ==
  side = "BUY" => qty * price + Charges(side, qty * price) <= balance

\* _apply_to_position: the other side closes, what exceeds the position is lost.
AppliedToPosition(p, side, qty, price) ==
  IF ~p.open THEN [open |-> TRUE, dir |-> side, qty |-> qty, price |-> price, realized |-> 0]
  ELSE IF p.dir = side
    THEN [p EXCEPT !.qty = @ + qty, !.price = (@ * p.qty + price * qty) \div (p.qty + qty)]
  ELSE LET closing == IF qty < p.qty THEN qty ELSE p.qty
       IN [p EXCEPT !.open = closing < p.qty,
                    !.qty = IF closing < p.qty THEN @ - closing ELSE closing,
                    !.realized = @ + Toward(p.dir) * (price - p.price) * closing]

\* record_order_fill of a MARKET order, after record_price.
RecordOrderFill(side, qty, price) ==
  IF Fills(side, qty, price)
  THEN LET notional == qty * price
           after == AppliedToPosition(position, side, qty, price)
       IN /\ balance' = balance - Charges(side, notional)
                          + (IF side = "BUY" THEN -notional ELSE notional)
          /\ position' = after
          /\ earned' = earned + after.realized - (IF position.open THEN position.realized ELSE 0)
  ELSE UNCHANGED sim

-----------------------------------------------------------------------------
(* _submit.                                                                *)

\* evaluate_order_risk with what the loop tells it: the result of the day is that of the
\* instrument's newest position, and an exit, too, counts against size, exposure and the
\* number of positions.  Only the kill switch lets a reducing order pass.
Approved(qty, price, reducing, halted) ==
  /\ halted => reducing
  /\ position.realized > -MaxDailyLoss
  /\ (IF position.open THEN position.qty ELSE 0) + qty <= MaxPosition
  /\ (IF position.open THEN position.qty * position.price ELSE 0) + qty * price <= MaxExposure
  /\ (IF position.open THEN 1 ELSE 0) < MaxConcurrent

Continue(final) == /\ bar' = bar + 1
                   /\ at' = IF final THEN "done" ELSE "running"
Direction(signal) == IF signal = "BULLISH" THEN "BUY" ELSE "SELL"

\* A bar without a position to manage, at which nothing is to be opened: there is no
\* directional signal, or no bar after it.
Idle(final) ==
  /\ at = "running" /\ managed = None
  /\ Continue(final)
  /\ UNCHANGED <<sim, managed>>

Managed(p, plan) ==
  [dir |-> p.dir, plan |-> plan, stage |-> "OPEN", remaining |-> p.qty, best |-> p.price]

\* An entry at the next open.  Approved, it is taken for filled: the loop looks for an open
\* position, and without one next() raises.
EnterPosition(signal, plan, open, halted) ==
  LET side == Direction(signal) IN
  /\ at = "running" /\ managed = None /\ bar + 1 < MaxBars
  /\ bar' = bar + 1
  /\ IF Approved(QuantityPerTrade, open, FALSE, halted)
       THEN /\ RecordOrderFill(side, QuantityPerTrade, open)
            /\ IF position'.open
                 THEN /\ managed' = Managed(position', plan)
                      /\ UNCHANGED at
                 ELSE at' = "raised" /\ UNCHANGED managed
       ELSE UNCHANGED <<at, sim, managed>>

\* The decision of the exit policy; at the last bar the rest goes, if the policy says nothing.
ExitOf(m, close, final) ==
  IF Decision(m, close) = NoExit /\ final THEN [qty |-> m.remaining, stage |-> "CLOSED"]
  ELSE Decision(m, close)

BadExited(m, exit, approved) == [m EXCEPT !.remaining = @ - exit.qty, !.stage = exit.stage]

\* An exit the risk gate rejects leaves the managed position as it is.  What the simulator
\* made of one it approved is not looked at.
Exited(m, exit, approved) ==
  IF approved THEN [m EXCEPT !.remaining = @ - exit.qty, !.stage = exit.stage] ELSE m

\* A bar with a position: the best price, the decision, the order, what is left to manage.
\* A decision to exit with nothing, the rounded third of the last 0.0001, cannot be made.
Manage(close, halted, final) ==
  LET m == [managed EXCEPT !.best = Better(managed.dir, @, close)]
      exit == ExitOf(m, close, final)
      approved == Approved(exit.qty, close, TRUE, halted)
      left == Exited(m, exit, approved)
  IN /\ at = "running" /\ managed # None
     /\ bar' = bar + 1
     /\ at' = IF exit # NoExit /\ exit.qty = 0 THEN "raised"
              ELSE IF final THEN "done" ELSE "running"
     /\ IF exit.qty = 0 THEN managed' = m /\ UNCHANGED sim
        ELSE /\ IF approved THEN RecordOrderFill(Other(m.dir), exit.qty, close) ELSE UNCHANGED sim
             /\ managed' = IF left.remaining > 0 THEN left ELSE None

-----------------------------------------------------------------------------
StatefulNext ==
  \E final \in BOOLEAN :
    /\ bar < MaxBars /\ (bar + 1 = MaxBars => final)
    /\ \/ Idle(final)
       \/ \E close \in Quotes, halted \in BOOLEAN : Manage(close, halted, final)
       \/ /\ ~final
          /\ \E signal \in {"BULLISH", "BEARISH"}, open \in Quotes, halted \in BOOLEAN :
               \E plan \in {NoPlan, Plans[signal]} : EnterPosition(signal, plan, open, halted)

StatefulSpec == StatefulInit /\ [][StatefulNext]_statefulVars

-----------------------------------------------------------------------------
\* What the loop manages the simulator holds, on the same side, so that no exit can sell or
\* cover more than there is: after partial exits, exits the risk gate rejected and entries
\* the simulator could not pay.  A long position it manages to the last fraction of a share,
\* and any position until its first exit.  What the loop loses sight of, at an exit or for
\* good, is always short: the balance did not pay for a cover, and nobody looked.
ManagedIsHeld ==
  IF managed = None THEN position.open => position.dir = "SELL"
  ELSE /\ position.open /\ position.dir = managed.dir
       /\ managed.remaining \in 1..position.qty
       /\ managed.dir = "BUY" \/ managed.stage = "OPEN" => managed.remaining = position.qty
=============================================================================
