-------------------------- MODULE MarketDataWorker --------------------------
(***************************************************************************)
(* run_market_data_worker --provider dhan: one process with an asyncio     *)
(* loop that runs the reconnect supervisor, the watcher of the stop        *)
(* request row and the task that closes the transport on a stop.  Beside   *)
(* it: the operator (stop request, its cancellation, a signal, the desired *)
(* scanner configuration, a new token), the feed's server and kill -9.     *)
(* The three rows of the database survive the process: WorkerRuntimeStatus *)
(* (row), ScannerScanProgress (scan), ScannerConfiguration (desired).      *)
(*                                                                         *)
(* The bars themselves are in BarAggregation; a batch of quotes here       *)
(* is aggregated, graded and scanned strategy by strategy.  Timestamps are *)
(* ages against the watchdog's limits.  Everything the loop does between   *)
(* two awaits that another coroutine could use is one step.                *)
(* An operator named Bad... is a plausible mistake in the operator that    *)
(* follows it; nothing else uses it.                                       *)
(***************************************************************************)
EXTENDS WorkerStates

CONSTANTS MaxAttempts,     \* --max-reconnect-attempts
          Batch,           \* _AGGREGATION_BATCH_SIZE
          Strategies,      \* how many strategies are selected
          MaxRuns, MaxEdits,   \* bounds: starts of the process, edits of the configuration
          MaxLife,         \* hours a new token lives
          Faults           \* what may raise: "poll", "quote", "strategy"

ASSUME WorkerConstants ==
  /\ MaxAttempts \in Nat \ {0} /\ Batch \in Nat \ {0} /\ Strategies \in Nat \ {0}
  /\ MaxRuns \in Nat /\ MaxEdits \in Nat /\ MaxLife \in Nat
  /\ Faults \subseteq {"poll", "quote", "strategy"}

VARIABLES token,     \* the stored Dhan token, see EvaluateToken
          desired,   \* ScannerConfiguration: enabled, configuration_version
          row,       \* WorkerRuntimeStatus
          scan,      \* ScannerScanProgress
          runs,      \* how often the worker was started
          at,        \* where the supervisor's coroutine is
          ended,     \* how the last run ended
          attempt,
          stop,      \* stop_event
          watcher,   \* watch_for_stop_request
          conn,      \* the WebSocket: none, open, closed (in order) or lost
          health,    \* WorkerHealthTracker
          pending,   \* _quotes_since_last_aggregation
          job        \* the aggregation under way

stored == <<token, desired, row, scan>>
vars == <<stored, runs, at, ended, attempt, stop, watcher, conn, health, pending, job>>

Up == at # "down"
Idle == [at |-> "idle"]
NoHealth == [token |-> "UNCONFIGURED", state |-> "STOPPED", packet |-> "never", bar |-> "never"]

Grade(h) == Watchdog(h.token, h.state, h.packet, h.bar)

\* WorkerHealthTracker.persist.
Persisted(r, h) == [r EXCEPT !.state = h.state, !.watchdog = Grade(h)]

BadMarkReconnecting(h) == h
BadMarkStopped(h) == h

\* consecutive_failures is only reported, the watchdog does not use it.
MarkConnected(h) == [h EXCEPT !.state = "RUNNING"]
MarkReconnecting(h) == [h EXCEPT !.state = "RECONNECTING"]
MarkStopped(h) == [h EXCEPT !.state = "STOPPED"]

Init ==
  /\ token \in {Absent, Garbled} \union 0..MaxLife
  /\ desired = [enabled |-> FALSE, version |-> 0]
  /\ row = [request |-> "none", state |-> "STOPPED", watchdog |-> "DISCONNECTED",
            version |-> 0]
  /\ scan = [status |-> "IDLE", done |-> 0, error |-> FALSE]
  /\ runs = 0 /\ at = "down" /\ ended = "never" /\ attempt = 0
  /\ stop = FALSE /\ watcher = "off" /\ conn = "none" /\ health = NoHealth
  /\ pending = 0 /\ job = Idle

-----------------------------------------------------------------------------
(* The operator and the passing of time.                                   *)

\* request_market_data_worker_stop; a request that was there when a run began is "old".
RequestStop ==
  /\ row' = [row EXCEPT !.request = "new"]
  /\ UNCHANGED <<token, desired, scan, runs, at, ended, attempt, stop, watcher, conn, health, pending, job>>

\* The same command with --clear.
CancelStop ==
  /\ row' = [row EXCEPT !.request = "none"]
  /\ UNCHANGED <<token, desired, scan, runs, at, ended, attempt, stop, watcher, conn, health, pending, job>>

\* SIGINT or SIGTERM, once the handlers are installed.
Signal ==
  /\ Up /\ at \notin {"boot", "arming"}
  /\ stop' = TRUE
  /\ UNCHANGED <<stored, runs, at, ended, attempt, watcher, conn, health, pending, job>>

\* The scanner configuration is saved: every save counts as a new version.
Configure(enabled) ==
  /\ desired.version < MaxEdits
  /\ desired' = [enabled |-> enabled, version |-> desired.version + 1]
  /\ UNCHANGED <<token, row, scan, runs, at, ended, attempt, stop, watcher, conn, health, pending, job>>

\* The token is replaced, or an hour of it passes: a run reads it once, when it starts.
Renew ==
  /\ ~Up
  /\ token' \in {MaxLife, IF token > 0 THEN token - 1 ELSE token}
  /\ UNCHANGED <<desired, row, scan, runs, at, ended, attempt, stop, watcher, conn, health, pending, job>>

Older(age) == IF age = "never" THEN age ELSE "stale"

\* Enough time passes for what was received to be out of date.  During a scan it would make
\* no difference.
Elapse ==
  /\ job = Idle
  /\ \E bar \in {health.bar, Older(health.bar)} :
       health' = [health EXCEPT !.packet = Older(@), !.bar = bar]
  /\ UNCHANGED <<stored, runs, at, ended, attempt, stop, watcher, conn, pending, job>>

-----------------------------------------------------------------------------
(* Start and end of a run.                                                 *)

Start ==
  /\ at = "down" /\ runs < MaxRuns
  /\ runs' = runs + 1 /\ at' = "boot"
  /\ row' = [row EXCEPT !.request = IF @ = "new" THEN "old" ELSE @]
  /\ UNCHANGED <<token, desired, scan, ended, attempt, stop, watcher, conn, health, pending, job>>

\* The process is gone, and with it everything that was in its memory.
Down(why) ==
  /\ at' = "down" /\ ended' = why
  /\ attempt' = 0 /\ stop' = FALSE /\ watcher' = "off" /\ conn' = "none"
  /\ health' = NoHealth /\ pending' = 0 /\ job' = Idle

\* _run_dhan up to the connection: without credentials, with a token whose claims are not
\* usable, or without an instrument it refuses to connect and leaves the rows alone.
Boot ==
  /\ at = "boot"
  /\ \/ /\ EvaluateToken(token) \in {"VALID", "EXPIRING_SOON"}
        /\ health' = [health EXCEPT !.token = EvaluateToken(token)]
        /\ at' = "arming"
        /\ UNCHANGED <<ended, attempt, stop, watcher, conn, pending, job>>
     \/ Down("refused")
  /\ UNCHANGED <<stored, runs>>

\* The request of an earlier run is cleared before the watcher starts.
Arm ==
  /\ at = "arming"
  /\ row' = [row EXCEPT !.request = "none"]
  /\ at' = "loop" /\ watcher' = "on"
  /\ UNCHANGED <<token, desired, scan, runs, ended, attempt, stop, conn, health, pending, job>>

\* run_worker_with_reconnect returned, or an exception passes through: the watcher is
\* cancelled and the request cleared.  A watcher that failed raises its own exception here.
Disarm ==
  /\ at \in {"stopped", "closed", "failed", "raising"}
  /\ IF watcher = "dead"
       THEN /\ Down("raised") /\ UNCHANGED row
       ELSE /\ row' = [row EXCEPT !.request = "none"]
            /\ IF at = "raising" THEN Down("raised")
               ELSE /\ at' = IF at # "failed" /\ stop THEN "marking" ELSE "flush"
                    /\ ended' = at /\ watcher' = "off"
                    /\ UNCHANGED <<attempt, stop, conn, health, pending, job>>
  /\ UNCHANGED <<token, desired, scan, runs>>

\* A stop that was asked for is written down.
RecordStop ==
  /\ at = "marking"
  /\ health' = MarkStopped(health)
  /\ row' = Persisted(row, health')
  /\ at' = "flush" /\ ended' = "stopped"
  /\ UNCHANGED <<token, desired, scan, runs, attempt, stop, watcher, conn, pending, job>>

Kill ==
  /\ Up
  /\ Down("killed")
  /\ UNCHANGED <<stored, runs>>

-----------------------------------------------------------------------------
(* The two other coroutines.                                               *)

Observe ==
  /\ watcher = "on"
  /\ IF stop THEN watcher' = "done" /\ UNCHANGED stop
     ELSE /\ row.request # "none"
          /\ stop' = TRUE /\ watcher' = "done"
  /\ UNCHANGED <<stored, runs, at, ended, attempt, conn, health, pending, job>>

\* The read of the row fails: nobody awaits the task, so nobody notices.
ObserveFails ==
  /\ "poll" \in Faults
  /\ watcher = "on" /\ ~stop
  /\ watcher' = "dead"
  /\ UNCHANGED <<stored, runs, at, ended, attempt, stop, conn, health, pending, job>>

BadCloseOnStop ==
  /\ stop /\ conn = "open" /\ at = "raising"
  /\ conn' = "closed"
  /\ UNCHANGED <<stored, runs, at, ended, attempt, stop, watcher, health, pending, job>>

\* _close_transport_on_stop.
CloseOnStop ==
  /\ stop /\ conn = "open" /\ at \in {"receiving", "scanning"} /\ job.at # "flushing"
  /\ conn' = "closed"
  /\ UNCHANGED <<stored, runs, at, ended, attempt, stop, watcher, health, pending, job>>

-----------------------------------------------------------------------------
(* run_worker_with_reconnect and connect_and_run.                          *)

BadNextAttempt ==
  /\ at = "loop"
  /\ IF stop THEN at' = "stopped" /\ UNCHANGED <<attempt, health>>
     ELSE /\ at' = "connecting" /\ attempt' = 1
          /\ health' = [health EXCEPT !.state = "CONNECTING"]
  /\ UNCHANGED <<stored, runs, ended, stop, watcher, conn, pending, job>>

\* The top of the supervisor's loop.
NextAttempt ==
  /\ at = "loop"
  /\ IF stop THEN at' = "stopped" /\ UNCHANGED <<attempt, health>>
     ELSE /\ at' = "connecting" /\ attempt' = attempt + 1
          /\ health' = [health EXCEPT !.state = "CONNECTING"]
  /\ UNCHANGED <<stored, runs, ended, stop, watcher, conn, pending, job>>

\* The connection was lost or refused.
AfterLoss == IF stop THEN "stopped" ELSE IF attempt >= MaxAttempts THEN "failed" ELSE "backoff"

\* The verdict of one connection.
AfterRun(result) == IF result = "STOPPED" THEN (IF stop THEN "stopped" ELSE "closed")
                    ELSE IF result \in Unrecoverable THEN "failed"
                    ELSE AfterLoss

Connect(accepted) ==
  /\ at = "connecting"
  /\ IF accepted THEN /\ at' = "subscribing" /\ conn' = "open" /\ health' = MarkConnected(health)
     ELSE /\ health' = MarkReconnecting(health) /\ at' = AfterLoss /\ UNCHANGED conn
  /\ UNCHANGED <<stored, runs, ended, attempt, stop, watcher, pending, job>>

\* The subscribe messages are sent, and run_worker_against_websocket looks at the stop event.
Subscribe ==
  /\ at = "subscribing" /\ conn = "open"
  /\ IF stop THEN /\ at' = AfterRun(CleanStop) /\ conn' = "none"
     ELSE at' = "receiving" /\ UNCHANGED conn
  /\ UNCHANGED <<stored, runs, ended, attempt, stop, watcher, health, pending, job>>

\* A send on a connection that is gone: only the failure to connect is caught.
SubscribeFails ==
  /\ at = "subscribing" /\ conn # "open"
  /\ at' = "raising" /\ conn' = "none"
  /\ UNCHANGED <<stored, runs, ended, attempt, stop, watcher, health, pending, job>>

Backoff ==
  /\ at = "backoff"
  /\ at' = "loop"
  /\ UNCHANGED <<stored, runs, ended, attempt, stop, watcher, conn, health, pending, job>>

\* The server, or the network, ends the connection.
PeerEnds(how) ==
  /\ conn = "open"
  /\ conn' = how
  /\ UNCHANGED <<stored, runs, at, ended, attempt, stop, watcher, health, pending, job>>

Ends(result) ==
  /\ at' = AfterRun(result) /\ conn' = "none"
  /\ health' = IF result = "RECONNECTING" THEN MarkReconnecting(health) ELSE health
  /\ UNCHANGED <<stored, runs, ended, attempt, stop, watcher, pending, job>>

\* The stream of packets is exhausted: an orderly close by either side is a clean stop, an
\* error is a lost connection unless a stop was under way.
StreamEnds ==
  /\ at = "receiving" /\ conn \in {"closed", "lost"}
  /\ Ends(IF conn = "closed" \/ stop THEN CleanStop ELSE LostConnection)

\* A disconnect packet; what is already buffered is read after the close, too.
DisconnectPacket ==
  /\ at = "receiving" /\ ~stop
  /\ Ends(LostConnection)

\* A quote after the stop: the loop breaks, the state is still RUNNING.
StopAtPacket ==
  /\ at = "receiving" /\ stop
  /\ Ends(CleanStop)

-----------------------------------------------------------------------------
(* _QuoteSink.                                                             *)

\* What aggregate_now reads and writes before it scans.  `bars' says whether the lookback
\* has any.
Aggregation(h, bars, back) ==
  LET aged == IF bars THEN [h EXCEPT !.bar = "fresh"] ELSE h
  IN /\ health' = aged
     /\ row' = [Persisted(row, aged) EXCEPT !.version = desired.version]
     /\ pending' = 0
     /\ at' = "scanning"
     /\ job' = [at |-> back, enabled |-> desired.enabled, healthy |-> Grade(aged) = "HEALTHY",
                todo |-> IF desired.enabled THEN Strategies ELSE 0, degraded |-> FALSE]
     /\ scan' = IF desired.enabled THEN [status |-> "STARTING", done |-> 0, error |-> FALSE]
                ELSE [scan EXCEPT !.status = "IDLE"]

\* on_quote.  The packet is never out of date when its own batch is graded.
Quote(bars) ==
  /\ at = "receiving" /\ ~stop
  /\ LET h == [health EXCEPT !.packet = "fresh"]
     IN IF pending + 1 < Batch
          THEN /\ pending' = pending + 1 /\ health' = h
               /\ UNCHANGED <<row, scan, at, job>>
          ELSE Aggregation(h, bars, "receiving")
  /\ UNCHANGED <<token, desired, runs, ended, attempt, stop, watcher, conn>>

\* save_all or the aggregation raises: nothing on the way up catches it.
QuoteFails ==
  /\ "quote" \in Faults
  /\ at = "receiving" /\ ~stop
  /\ at' = "raising" /\ conn' = "none"
  /\ UNCHANGED <<stored, runs, ended, attempt, stop, watcher, health, pending, job>>

\* flush_remainder, after the connection is gone.
Flush(bars) ==
  /\ at = "flush"
  /\ IF pending = 0
       THEN Down(ended) /\ UNCHANGED <<row, scan>>
       ELSE Aggregation(health, bars, "flushing") /\ UNCHANGED <<ended, attempt, stop, watcher, conn>>
  /\ UNCHANGED <<token, desired, runs>>

\* One strategy over the bars; what it raises is caught and the scan goes on.
Evaluate(fails) ==
  /\ at = "scanning" /\ job.todo > 0
  /\ fails => "strategy" \in Faults
  /\ LET degraded == job.degraded \/ fails
     IN /\ job' = [job EXCEPT !.todo = @ - 1, !.degraded = degraded]
        /\ scan' = [status |-> IF degraded THEN "DEGRADED" ELSE "SCANNING",
                    done |-> scan.done + 1, error |-> scan.error \/ fails]
  /\ UNCHANGED <<token, desired, row, runs, at, ended, attempt, stop, watcher, conn, health, pending>>

BadScanStatus == "COMPLETED"
ScanStatus == IF job.degraded THEN "DEGRADED" ELSE "COMPLETED"

ScanDone ==
  /\ at = "scanning" /\ job.todo = 0
  /\ scan' = IF job.enabled THEN [scan EXCEPT !.status = ScanStatus] ELSE scan
  /\ IF job.at = "receiving"
       THEN /\ at' = "receiving" /\ job' = Idle
            /\ UNCHANGED <<ended, attempt, stop, watcher, conn, health, pending>>
       ELSE Down(ended)
  /\ UNCHANGED <<token, desired, row, runs>>

-----------------------------------------------------------------------------
Supervise == \/ Boot \/ Arm \/ Disarm \/ RecordStop \/ NextAttempt
             \/ \E accepted \in BOOLEAN : Connect(accepted)
             \/ Subscribe \/ SubscribeFails \/ Backoff \/ StreamEnds
             \/ \E bars \in BOOLEAN : Flush(bars)
             \/ \E fails \in BOOLEAN : Evaluate(fails)
             \/ ScanDone

Feed == \/ \E how \in {"closed", "lost"} : PeerEnds(how)
        \/ \E bars \in BOOLEAN : Quote(bars)
        \/ QuoteFails \/ DisconnectPacket \/ StopAtPacket

Operate == \/ RequestStop \/ CancelStop \/ Signal \/ Renew \/ Start \/ Kill
           \/ \E enabled \in BOOLEAN : Configure(enabled)

Next == Supervise \/ Feed \/ Operate \/ Observe \/ ObserveFails \/ CloseOnStop \/ Elapse

Spec == Init /\ [][Next]_vars

\* The event loop runs every coroutine that can run; a connection attempt ends (websockets
\* gives up after its open timeout).  Nobody has to send packets or to operate.
FairSpec == Spec /\ WF_vars(Supervise) /\ WF_vars(Observe) /\ WF_vars(CloseOnStop)
=============================================================================
