------------------------- MODULE PortfolioBacktest -------------------------
(***************************************************************************)
(* run_portfolio_backtest: several instruments on one account, bar after   *)
(* bar, at each bar in the order of their assignments.  An entry fills at  *)
(* the next open and pays for itself in cash, an exit on a different       *)
(* signal fills at the next open, what is left over leaves at the last     *)
(* close.  A step is one instrument's turn at one bar.                     *)
(*                                                                         *)
(* The signal of a turn, the close of its bar and the open of the next bar *)
(* are inputs; the closes are kept, as the equity curve is put together    *)
(* from them after the run.  Prices are scaled such that percentages of    *)
(* them are whole numbers.  An operator named Bad... is a plausible        *)
(* mistake in the operator that follows it; nothing else uses it.          *)
(***************************************************************************)
EXTENDS Execution, Sequences, FiniteSets, Functions

CONSTANTS Assignments,     \* the instruments, in their order
          Prices,
          Runs,            \* the configurations: see config
          InitialCapital,
          CashPercent,     \* of the cash that goes into an entry, if no size is fixed
          MaxLoss, MaxSize \* the risk limits of an entry

Instruments == {Assignments[k] : k \in DOMAIN Assignments}

ASSUME PortfolioConstants ==
  /\ Assignments \in Seq(Instruments) /\ Assignments # <<>>
  /\ \A j, k \in DOMAIN Assignments : Assignments[j] = Assignments[k] => j = k
  /\ Runs \subseteq [bars : Nat \ {0}, concurrent : 1..Len(Assignments), size : Nat]
  /\ Prices \subseteq Nat \ {0}
  /\ InitialCapital \in Nat \ {0} /\ CashPercent \in Nat \ {0}
  \* What slippage leaves of a price is not nothing.
  /\ \A p \in Prices : p * (100 - SlippagePercent) >= 100
  /\ MaxLoss \in Nat \ {0} /\ MaxSize \in Nat \ {0}

VARIABLES config,   \* of this run: bars, concurrent (max_concurrent_positions), and the
                    \* size of an entry in shares or 0
          i,        \* the bar
          turn,     \* the assignment whose turn it is at that bar
          cash,     \* available_cash
          realized, \* cumulative_realized_net_pnl
          open,     \* open_positions: the instruments in it are its domain
          trades,
          closes    \* the closes of the bars, by instrument

portfolioVars == <<config, i, turn, cash, realized, open, trades, closes>>

Me == Assignments[turn]
IsLastBar == i = config.bars
Done == i > config.bars

-----------------------------------------------------------------------------
Notional(p) == p.price * p.quantity

\* Rounded toward zero: negative cash buys nothing or less than that.
QuantityFor(price) == IF config.size > 0 THEN config.size
                      ELSE IF cash < 0 THEN 0 ELSE (cash * CashPercent) \div (100 * price)

\* evaluate_order_risk: no exposure limit is set, and the number of positions was looked at.
RiskApproves(quantity) == realized > -MaxLoss /\ quantity <= MaxSize

PortfolioInit ==
  /\ config \in Runs
  /\ i = 1 /\ turn = 1
  /\ cash = InitialCapital /\ realized = 0
  /\ open = <<>> /\ trades = <<>>
  /\ closes = [x \in Instruments |-> <<>>]

\* The next instrument, or the first one at the next bar.
Advance(close) ==
  /\ ~Done
  /\ IF turn < Len(Assignments) THEN turn' = turn + 1 /\ i' = i ELSE turn' = 1 /\ i' = i + 1
  /\ closes' = [closes EXCEPT ![Me] = Append(@, close)]
  /\ UNCHANGED config

With(f, x, y) == [z \in DOMAIN f \union {x} |-> IF z = x THEN y ELSE f[z]]
Without(f, x) == [z \in DOMAIN f \ {x} |-> f[z]]

BadHasRoom == Cardinality(DOMAIN open) <= config.concurrent

\* Of the instruments that want in, the first ones in the order of the assignments get in.
HasRoom == Cardinality(DOMAIN open) < config.concurrent

\* An entry: decided at this bar with this bar's cash, filled at the next open.
Enter(signal, next, close) ==
  LET price == Slipped(Entering(signal), next)
      quantity == QuantityFor(price)
      position == [direction |-> signal, entered |-> i + 1, price |-> price, quantity |-> quantity]
  IN /\ Advance(close)
     /\ Me \notin DOMAIN open /\ signal \in Directions /\ ~IsLastBar
     /\ IF HasRoom /\ quantity > 0 /\ Notional(position) <= cash /\ RiskApproves(quantity)
        THEN open' = With(open, Me, position) /\ cash' = cash - Notional(position)
        ELSE UNCHANGED <<open, cash>>
     /\ UNCHANGED <<realized, trades>>

BadReleased(p, net) == SignedGross(p.direction, 0, p.price, p.quantity) + net

\* What a closed position gives back: what was committed to it, and its result.
Released(p, net) == Notional(p) + net

\* _close.
Close(at, price, reason) ==
  LET p == open[Me]
      exit == Slipped(Leaving(p.direction), price)
      costs == Cost(Entering(p.direction), Notional(p)) + Cost(Leaving(p.direction), exit * p.quantity)
      net == SignedGross(p.direction, p.price, exit, p.quantity) - costs
  IN /\ trades' = Append(trades, [instrument |-> Me, position |-> p, left |-> at, exit |-> exit,
                                  costs |-> costs, net |-> net, reason |-> reason])
     /\ cash' = cash + Released(p, net)
     /\ realized' = realized + net
     /\ open' = Without(open, Me)

\* A different signal, NEUTRAL included, at a bar that is not the last.
Reversal(signal, next, close) ==
  /\ Advance(close)
  /\ Me \in DOMAIN open /\ ~IsLastBar
  /\ signal \notin {"WARMUP", open[Me].direction}
  /\ Close(i + 1, next, "signal_reversal")

EndOfData(close) ==
  /\ Advance(close)
  /\ Me \in DOMAIN open /\ IsLastBar
  /\ Close(i, close, "end_of_data")

\* Nothing to do: no position and no directional signal or no next bar, or a position and
\* no different signal.
Stay(signal, close) ==
  /\ Advance(close)
  /\ IF Me \in DOMAIN open THEN ~IsLastBar /\ signal \in {"WARMUP", open[Me].direction}
     ELSE IsLastBar \/ signal \notin Directions
  /\ UNCHANGED <<cash, realized, open, trades>>

PortfolioNext ==
  \E close \in Prices :
    \/ EndOfData(close)
    \/ \E signal \in Directions \union {"WARMUP", "NEUTRAL"} :
         \/ Stay(signal, close)
         \/ \E next \in Prices : Enter(signal, next, close) \/ Reversal(signal, next, close)

PortfolioSpec == PortfolioInit /\ [][PortfolioNext]_portfolioVars

-----------------------------------------------------------------------------
(* _build_portfolio_mtm_curve, after the run.                              *)

Net == [t \in DOMAIN trades |-> trades[t].net]
RealizedAt(b) == SumFunctionOnSet(Net, {t \in DOMAIN trades : trades[t].left <= b})

\* A trade is marked from its entry to the bar before its exit.
Marked(t, b) == b \in trades[t].position.entered..(trades[t].left - 1)

Mark(t, b) ==
  LET p == trades[t].position
  IN SignedGross(p.direction, p.price, closes[trades[t].instrument][b], p.quantity)

UnrealizedAt(b) ==
  LET marked == {t \in DOMAIN trades : Marked(t, b)}
  IN SumFunction([t \in marked |-> Mark(t, b)])

TotalEquity(b) == InitialCapital + RealizedAt(b) + UnrealizedAt(b)
=============================================================================
