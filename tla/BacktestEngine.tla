--------------------------- MODULE BacktestEngine ---------------------------
(***************************************************************************)
(* run_backtest: the simulation of one strategy on one instrument, bar     *)
(* after bar.  An entry fills at the open of the bar after its signal.  A  *)
(* position with a trade plan leaves at the first later bar that reaches   *)
(* a level of the plan, one without on a different signal, again at the    *)
(* next open; what is left over leaves at the last close.  The result is a *)
(* function of what went in, and a step of this specification adds one     *)
(* more bar to that.                                                       *)
(*                                                                         *)
(* What the strategy says of a bar is an input: its features use the bar   *)
(* and those before it.  Prices are scaled such that percentages of them   *)
(* are whole numbers.  An operator named Bad... is a plausible mistake in  *)
(* the operator that follows it; nothing else uses it.                     *)
(***************************************************************************)
EXTENDS Execution, Sequences, FiniteSetsExt, Functions

CONSTANTS Inputs,          \* what a bar may bring: bar, signal, plan (<<>> is none: the two
                           \* strategies that build a plan always give it a stop and targets)
          MaxHistory,      \* bound
          Capital,
          FixedQuantity,   \* shares of an entry, or 0: a part of the equity ...
          EquityPercent,   \* ... of this many percent
          LossLimit, SizeLimit \* the risk limits of an entry

Reasons == {"STOP_LOSS", "TRAILING_STOP", "TARGET_1", "TARGET_2", "TARGET_3"}

\* What a run assumes of them.
ASSUME EngineConstants ==
  /\ \A x \in Inputs :
       /\ {x.bar.open, x.bar.high, x.bar.low, x.bar.close} \subseteq Nat
       /\ x.bar.low > 0 /\ {x.bar.open, x.bar.close} \subseteq x.bar.low..x.bar.high
       \* What slippage leaves of a price is not nothing.
       /\ x.bar.low * (100 - SlippagePercent) >= 100
       /\ x.signal \in Directions \union {"NEUTRAL", "WARMUP"}
       /\ DOMAIN x.plan \subseteq Reasons
       /\ \A reason \in DOMAIN x.plan : x.plan[reason] \in Int
       /\ x.plan # <<>> => x.signal \in Directions
  /\ MaxHistory \in Nat /\ Capital \in Nat \ {0}
  /\ FixedQuantity \in Nat /\ EquityPercent \in Nat
  /\ LossLimit \in Nat \ {0} /\ SizeLimit \in Nat \ {0}

VARIABLE history \* the inputs, in the order of their bars

\* The fields of the history, by the index of the bar.
Bar(i) == history[i].bar
Signal(i) == history[i].signal
Plan(i) == history[i].plan
Known == Len(history)

-----------------------------------------------------------------------------
\* The size of an entry.

SizeFor(equity, price) == IF FixedQuantity > 0 THEN FixedQuantity
                          ELSE (equity * EquityPercent) \div (100 * price)

\* evaluate_order_risk, of which a backtest without another position can fail these checks.
EntryApproved(equity, quantity) == equity - Capital > -LossLimit /\ quantity <= SizeLimit

-----------------------------------------------------------------------------
\* simulate_tradeplan_exit.

\* The stops come first: of several levels in one bar the worst is taken.
BadCheckOrder == <<"TARGET_1", "TARGET_2", "TARGET_3", "STOP_LOSS", "TRAILING_STOP">>
CheckOrder == <<"STOP_LOSS", "TRAILING_STOP", "TARGET_1", "TARGET_2", "TARGET_3">>

Touched(plan, direction, reason, bar) ==
  /\ reason \in DOMAIN plan
  /\ IF (reason \in {"STOP_LOSS", "TRAILING_STOP"}) = (direction = "BULLISH")
     THEN bar.low <= plan[reason] ELSE bar.high >= plan[reason]
TouchedAt(plan, direction, i) ==
  {c \in DOMAIN CheckOrder : Touched(plan, direction, CheckOrder[c], Bar(i))}

\* Strictly after the bar of the entry, and among the n bars of the run.
Never == [at |-> 0]
PlannedExit(plan, direction, entered, n) ==
  LET hits == {i \in (entered + 1)..n : TouchedAt(plan, direction, i) # {}}
      reason == CheckOrder[Min(TouchedAt(plan, direction, Min(hits)))]
  IN IF hits = {} THEN Never ELSE [at |-> Min(hits), price |-> plan[reason], reason |-> reason]

-----------------------------------------------------------------------------
\* The loop over n bars.

Flat == [direction |-> "NEUTRAL"]
Fresh == [equity |-> Capital, open |-> Flat, trades |-> <<>>, fills |-> <<>>]

Fill(i, side, quantity, price) ==
  [at |-> i, side |-> side, quantity |-> quantity, price |-> price,
   cost |-> Cost(side, price * quantity)]

\* _close_trade: the equity counts it from now on, whatever the bar it fills at.
CloseTrade(run, i, price, reason) ==
  LET p == run.open
      fill == Fill(i, Leaving(p.direction), p.quantity, Slipped(Leaving(p.direction), price))
      net == SignedGross(p.direction, p.price, fill.price, p.quantity)
               - (Cost(Entering(p.direction), p.price * p.quantity) + fill.cost)
  IN [equity |-> run.equity + net, open |-> Flat, fills |-> Append(run.fills, fill),
      trades |-> Append(run.trades, [position |-> p, left |-> i, reason |-> reason, net |-> net])]

\* A planned exit is looked up at once and acted on when its bar has come.
OpenTrade(run, i, n) ==
  LET direction == Signal(i)
      price == Slipped(Entering(direction), Bar(i + 1).open)
      quantity == SizeFor(run.equity, price)
  IN IF quantity > 0 /\ EntryApproved(run.equity, quantity)
     THEN [run EXCEPT
             !.open = [direction |-> direction, entered |-> i + 1, price |-> price,
                       quantity |-> quantity, plan |-> Plan(i),
                       exit |-> PlannedExit(Plan(i), direction, i + 1, n)],
             !.fills = Append(@, Fill(i + 1, Entering(direction), quantity, price))]
     ELSE run

BadDueAt(exit, i) == exit # Never
DueAt(exit, i) == exit # Never /\ exit.at = i

Iteration(run, i, n) ==
  LET p == run.open IN
  CASE p = Flat /\ Signal(i) \in Directions /\ i < n -> OpenTrade(run, i, n)
    [] p # Flat /\ p.plan # <<>> /\ DueAt(p.exit, i) ->
         CloseTrade(run, i, p.exit.price, p.exit.reason)
    [] p # Flat /\ p.plan = <<>> /\ Signal(i) \notin {p.direction, "WARMUP"} /\ i < n ->
         CloseTrade(run, i + 1, Bar(i + 1).open, "signal_reversal")
    [] p # Flat /\ i = n /\ ~(p.plan # <<>> /\ DueAt(p.exit, i)) ->
         CloseTrade(run, i, Bar(i).close, IF p.plan # <<>> THEN "EOD" ELSE "end_of_data")
    [] OTHER -> run

\* The run over the first n bars when the loop is past i of them.
RunTo(i, n) ==
  LET after[k \in 0..n] == IF k = 0 THEN Fresh ELSE Iteration(after[k - 1], k, n)
  IN after[i]
Result(n) == RunTo(n, n)

-----------------------------------------------------------------------------
\* _build_mark_to_market_curve and compute_metrics.

NetOf(run) == [t \in DOMAIN run.trades |-> run.trades[t].net]
Realized(run, i) ==
  SumFunctionOnSet(NetOf(run), {t \in DOMAIN run.trades : run.trades[t].left <= i})

\* A trade is open from its entry to the bar before its exit.
BadHeldAt(trade, i) == i \in trade.position.entered..trade.left
HeldAt(trade, i) == i \in trade.position.entered..(trade.left - 1)

Unrealized(run, i) ==
  LET held == {t \in DOMAIN run.trades : HeldAt(run.trades[t], i)}
      p == run.trades[Min(held)].position
  IN IF held = {} THEN 0 ELSE SignedGross(p.direction, p.price, Bar(i).close, p.quantity)

EquityAt(run, i) == Capital + Realized(run, i) + Unrealized(run, i)
NetPnl(run) == SumFunction(NetOf(run))

-----------------------------------------------------------------------------
EngineInit == history = <<>>
Extend == Known < MaxHistory /\ \E x \in Inputs : history' = Append(history, x)
EngineNext == Extend
EngineSpec == EngineInit /\ [][EngineNext]_history
=============================================================================
