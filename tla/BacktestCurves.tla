--------------------------- MODULE BacktestCurves ---------------------------
(* run_backtest and run_portfolio_backtest beside each other: they share the execution of
   orders, and both put their equity curve together when the run is over. *)
EXTENDS PortfolioBacktestProps, BacktestEngineProps

\* The curve of either engine tells at every bar what its fills say.
CurvesMatchFills == CurveTellsFills /\ CurveMatchesFills
=============================================================================
