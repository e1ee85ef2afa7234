----------------------- MODULE PortfolioBacktestProps -----------------------
(* What the result of a portfolio backtest has to be. *)
EXTENDS PortfolioBacktest

\* No money is made or lost between the instruments: the cash and what is committed to the
\* open positions are the capital and the results of the trades, at every turn, whichever
\* instrument pays for itself out of what another one released.
CapitalAccounted ==
  cash + SumFunction([x \in DOMAIN open |-> Notional(open[x])])
    = InitialCapital + SumFunction(Net)

\* Part 7 and 8: never more than the configured number of positions.  One instrument's
\* holdings never overlap, the open one included: it is entered after the last one was left.
OnePositionEach ==
  /\ Cardinality(DOMAIN open) <= config.concurrent
  /\ \A s, t \in DOMAIN trades :
       s < t /\ trades[s].instrument = trades[t].instrument
         => trades[s].left < trades[t].position.entered
  /\ \A t \in DOMAIN trades : trades[t].instrument \in DOMAIN open =>
       trades[t].left < open[trades[t].instrument].entered

\* What a fill of a trade moves: its purchase or sale, without the charges.
Paid(p) == IF p.direction = "BULLISH" THEN -Notional(p) ELSE Notional(p)
Received(t) == IF trades[t].position.direction = "BULLISH"
               THEN trades[t].exit * trades[t].position.quantity
               ELSE -(trades[t].exit * trades[t].position.quantity)
Holding(t) == IF trades[t].position.direction = "BULLISH" THEN trades[t].position.quantity
              ELSE -trades[t].position.quantity

\* The equity at the close of a bar by the fills alone: cash moved so far, shares held at
\* their close, charges when a trade is over.
Account(t, b) ==
  LET tr == trades[t]
  IN (IF tr.position.entered <= b
        THEN Paid(tr.position)
             + (IF tr.left <= b THEN 0 ELSE Holding(t) * closes[tr.instrument][b])
        ELSE 0)
     + (IF tr.left <= b THEN Received(t) - tr.costs ELSE 0)

EquityByFills(b) == InitialCapital + SumFunction([t \in DOMAIN trades |-> Account(t, b)])

\* The curve, which is put together instrument by instrument from what was closed, tells at
\* every bar what the fills up to that bar say, and ends at the cash of the run, in which
\* nothing is open any more.
CurveMatchesFills ==
  Done => /\ \A b \in 1..config.bars : TotalEquity(b) = EquityByFills(b)
          /\ open = <<>> /\ TotalEquity(config.bars) = cash
=============================================================================
