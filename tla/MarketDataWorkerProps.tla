----------------------- MODULE MarketDataWorkerProps -----------------------
(***************************************************************************)
(* What the market data worker has to guarantee.                           *)
(***************************************************************************)
EXTENDS MarketDataWorker

\* A run that ended because it was asked to has left a row that says so, although the
\* remaining quotes are aggregated, and the row is written again, after it was recorded.
StopIsRecorded ==
  (at = "down" /\ ended = "stopped") => row.state = "STOPPED" /\ row.watchdog = "DISCONNECTED"

\* A scan is reported as COMPLETED when every strategy ran and none of them raised; the
\* report a failed strategy leaves is not overwritten by the strategies after it.
CompletedMeansClean ==
  scan.status = "COMPLETED" => scan.done = Strategies /\ ~scan.error

\* Bars are trusted only on a fresh packet, and never between the loss of the connection and
\* the next one: not in the aggregation of the remaining quotes after the last attempt, nor
\* in the one after a stop.  After an orderly close by the server they are.
NothingTrustedAfterLoss ==
  [][(job = Idle /\ job' # Idle /\ job'.healthy) =>
       /\ health'.packet = "fresh"
       /\ at = "receiving" \/ ended = "closed"]_vars

\* A request that is there while the watcher runs is seen, unless it is cancelled first or
\* the watcher fails, and a run that was told to stop ends: in the middle of a backoff, on a
\* feed that has fallen silent, in a scan, during the handshake.  A request that was left over
\* from an earlier run stops none.
StopHonoured ==
  /\ (row.request # "none" /\ watcher = "on") ~>
       (stop \/ row.request = "none" \/ watcher \in {"off", "dead"})
  /\ stop ~> ~Up
  /\ [][(watcher = "on" /\ watcher' = "done" /\ ~stop) => row.request = "new"]_vars

\* A worker that lost its connection does not try for ever: it receives again or it ends.
RetriesEnd == at = "backoff" ~> (at = "receiving" \/ ~Up)
=============================================================================
