-------------------------- MODULE MCHistoricalRuns --------------------------
(* A backtest of two series and a sync of one of them, over two days of one bar. *)
EXTENDS HistoricalRunsProps
MCRuns == {"backtest", "sync"}
MCBacktests == {"backtest"}
MCPlan == [backtest |-> <<"a", "b">>, sync |-> <<"a">>]
MCExpected == [backtest |-> ("a" :> {1,3}) @@ ("b" :> {1}), sync |-> ("a" :> {1})]
MCFaults == [backtest |-> 2, sync |-> 0]
=============================================================================
