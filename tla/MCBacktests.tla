----------------------------- MODULE MCBacktests -----------------------------
(***************************************************************************)
(* The three engines, each on an instance of its own.  They share nothing: *)
(* a behaviour is a run of one of them, so that the states are a sum and   *)
(* not a product.                                                          *)
(***************************************************************************)
EXTENDS BacktestCurves, StatefulBacktest, TLC

VARIABLE engine \* whose run this behaviour is

CONSTANTS x, y
MCAssignments == <<x, y>>
\* Two positions at once over three bars, one after the other over four.
MCRuns == [bars : {3}, concurrent : {2}, size : {0, 2}] \union
          [bars : {4}, concurrent : {1}, size : {0, 2}]
MCPrices == {10000, 25000}
MCCosts == [side \in {"BUY", "SELL"} |-> IF side = "BUY" THEN 1 ELSE 2]

\* BacktestEngine: quiet bars, bars wide enough for every level, bars that go down.
Candle(o, high, low, close) ==
  [open |-> 10000 * o, high |-> 10000 * high, low |-> 10000 * low, close |-> 10000 * close]
Bars == {Candle(3, 4, 3, 3), Candle(3, 6, 1, 4), Candle(2, 3, 2, 2)}
Long == ("STOP_LOSS" :> 10000) @@ ("TRAILING_STOP" :> 20000) @@ ("TARGET_1" :> 40000)
          @@ ("TARGET_2" :> 60000)
Short == ("STOP_LOSS" :> 50000) @@ ("TARGET_2" :> 20000) @@ ("TARGET_3" :> 10000)

\* What the strategy may say of every bar, and of the quiet one besides.
Says == {<<"BEARISH", <<>>>>, <<"BULLISH", Long>>, <<"BEARISH", Short>>}
SaysOfQuiet == {<<"WARMUP", <<>>>>, <<"NEUTRAL", <<>>>>, <<"BULLISH", <<>>>>}
InputsOf(bars, says) == {[bar |-> b, signal |-> s[1], plan |-> s[2]] : b \in bars, s \in says}
MCInputs == InputsOf(Bars, Says) \union InputsOf({Candle(3, 4, 3, 3)}, SaysOfQuiet)
ASSUME MCPlansWorstFirst == WorstFirst

\* StatefulBacktest: nine units a trade, prices around an entry at 5 and one of 1 at which a
\* short sale brings in too little to cover even a third of it.  A long position has three
\* targets and a stop, a short one two targets and a trailing stop.
MCQuotes == {1, 3, 5, 6}
MCPlans == [signal \in {"BULLISH", "BEARISH"} |->
              IF signal = "BULLISH"
              THEN [STOP_LOSS |-> 4, TARGET_1 |-> 6, TARGET_2 |-> 7, TARGET_3 |-> 8]
              ELSE [TARGET_1 |-> 5, TARGET_2 |-> 3, TRAILING_STOP |-> 2]]
MCCharges == [side \in {"BUY", "SELL"} |-> IF side = "BUY" THEN 2 ELSE 3]

-----------------------------------------------------------------------------
MCInit ==
  /\ engine \in {"single", "portfolio", "stateful"}
  /\ EngineInit /\ StatefulInit /\ PortfolioInit
  /\ engine # "portfolio" => config = CHOOSE c \in Runs : TRUE

MCNext ==
  /\ UNCHANGED engine
  /\ \/ engine = "single" /\ EngineNext /\ UNCHANGED <<portfolioVars, statefulVars>>
     \/ engine = "portfolio" /\ PortfolioNext /\ UNCHANGED <<history, statefulVars>>
     \/ engine = "stateful" /\ StatefulNext /\ UNCHANGED <<portfolioVars, history>>

MCSpec == MCInit /\ [][MCNext]_<<engine, history, statefulVars, portfolioVars>>
=============================================================================
