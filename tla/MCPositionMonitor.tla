------------------------- MODULE MCPositionMonitor -------------------------
(* PositionMonitor on a small market: ten shares a signal, two signals at  *)
(* most on one side.                                                       *)
EXTENDS PositionMonitorProps

\* Around an entry at 100 or 103: below the stop, between the levels, above every target.
Market == {97, 98, 99, 100, 102, 103, 105, 108, 111}
Entries == {100, 103}
=============================================================================
