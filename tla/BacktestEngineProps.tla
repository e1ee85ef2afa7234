------------------------ MODULE BacktestEngineProps ------------------------
(***************************************************************************)
(* What a backtest's result has to be, said without the loop.              *)
(***************************************************************************)
EXTENDS BacktestEngine

\* What the fills up to a bar did to the account and to the holding.
FillsTo(run, i) == {f \in DOMAIN run.fills : run.fills[f].at <= i}
CashOf(f) == (IF f.side = "SELL" THEN f.price ELSE -f.price) * f.quantity - f.cost
SharesOf(f) == IF f.side = "BUY" THEN f.quantity ELSE -f.quantity
CashTo(run, i) ==
  SumFunctionOnSet([f \in DOMAIN run.fills |-> CashOf(run.fills[f])], FillsTo(run, i))
HeldTo(run, i) ==
  SumFunctionOnSet([f \in DOMAIN run.fills |-> SharesOf(run.fills[f])], FillsTo(run, i))

\* The charges of an entry that has not been left yet.
PendingCost(run, i) ==
  LET n == Cardinality(FillsTo(run, i)) IN IF n % 2 = 1 THEN run.fills[n].cost ELSE 0

\* The equity curve, which is put together from the trades after the run, tells at every bar
\* what the fills say, which are written down during it: the cash they moved and the holding
\* at the close, but for the charges of an entry whose trade is open.  Nothing is held when
\* the run is over, and what is then left is the capital and the result of the trades.
CurveTellsFills ==
  LET run == Result(Known) IN
  /\ \A i \in 1..Known :
       EquityAt(run, i) = Capital + CashTo(run, i) + HeldTo(run, i) * Bar(i).close
                            + PendingCost(run, i)
  /\ HeldTo(run, Known) = 0 /\ run.open = Flat
  /\ Known > 0 => EquityAt(run, Known) = Capital + NetPnl(run)
  /\ run.equity = Capital + NetPnl(run)

\* The fills up to a bar, without the sale of what was left over at the end of the data.
Forced(run) ==
  run.trades # <<>> /\ run.trades[Len(run.trades)].reason \in {"EOD", "end_of_data"}
Unforced(run) == IF Forced(run) THEN SubSeq(run.fills, 1, Len(run.fills) - 1) ELSE run.fills

\* A bar that comes later changes nothing of what the simulation of the bars before it did:
\* neither whether nor when, at what price or how much it bought or sold.  Only the sale at
\* the end moves.
NoHindsight ==
  Known > 0 =>
    LET run == Result(Known)
        past == {f \in DOMAIN run.fills : run.fills[f].at < Known}
    IN SubSeq(run.fills, 1, Cardinality(past)) = Unforced(Result(Known - 1))

Reaches(p, reason, i) ==
  /\ reason \in DOMAIN p.plan
  /\ IF reason \in {"STOP_LOSS", "TRAILING_STOP"}
     THEN IF p.direction = "BULLISH" THEN Bar(i).low <= p.plan[reason] ELSE Bar(i).high >= p.plan[reason]
     ELSE IF p.direction = "BULLISH" THEN Bar(i).high >= p.plan[reason] ELSE Bar(i).low <= p.plan[reason]
NoBetterThan(direction, a, b) == IF direction = "BULLISH" THEN a <= b ELSE a >= b

\* The levels of a plan as the strategies place them, from the worst to the best.
Ladder == <<"STOP_LOSS", "TRAILING_STOP", "TARGET_1", "TARGET_2", "TARGET_3">>
WorstFirst ==
  \A x \in Inputs : \A c, d \in DOMAIN Ladder :
    c < d /\ {Ladder[c], Ladder[d]} \subseteq DOMAIN x.plan =>
      NoBetterThan(x.signal, x.plan[Ladder[c]], x.plan[Ladder[d]])

LeftByPlan(run, t) ==
  LET trade == run.trades[t]
      p == trade.position
      reached == {r \in DOMAIN p.plan : Reaches(p, r, trade.left)}
  IN /\ \A at \in (p.entered + 1)..(trade.left - 1) : \A r \in DOMAIN p.plan : ~Reaches(p, r, at)
     /\ trade.reason = "EOD" => trade.left = Known /\ (reached = {} \/ trade.left = p.entered)
     /\ trade.reason # "EOD" =>
          /\ trade.left > p.entered /\ trade.reason \in reached
          /\ \A r \in reached : NoBetterThan(p.direction, p.plan[trade.reason], p.plan[r])
          /\ run.fills[2 * t].price = Slipped(Leaving(p.direction), p.plan[trade.reason])

\* A position with a plan leaves at the first bar after its entry that reaches a level, at the
\* worst of the levels that this bar reached, and at the end if no bar did.
PlanIsKept ==
  LET run == Result(Known) IN
  \A t \in DOMAIN run.trades : run.trades[t].position.plan # <<>> => LeftByPlan(run, t)
=============================================================================
