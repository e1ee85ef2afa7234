-------------------------- MODULE MCPaperSessions --------------------------
(* Two clients and six saves of the replay row, two operators and saves up to version 4 of the
   configuration; days of up to four bars, a strategy that follows the last move. *)
EXTENDS PaperSessions
Flat(p) == [open |-> p, close |-> p]
MCDays == {<<Flat(1), Flat(2), Flat(2), Flat(1)>>, <<Flat(1), Flat(2), [open |-> 2, close |-> 1]>>,
           <<Flat(2), Flat(1)>>, <<Flat(1)>>}
MCDecide(bars) ==
  IF Len(bars) < 2 THEN "NEUTRAL"
  ELSE IF Last(bars).close > bars[Len(bars) - 1].close THEN "LONG"
  ELSE IF Last(bars).close < bars[Len(bars) - 1].close THEN "SHORT" ELSE "NEUTRAL"
MCClients == {"a", "b"}
MCTimeframes == {"1m", "5m"}
MCUniverses == {"ALL_CONFIGURED", "SELECTED"}
MCStrategies == {}
MCAlerts == {"telegram"}
=============================================================================
