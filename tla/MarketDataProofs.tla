-------------------------- MODULE MarketDataProofs ---------------------------
(***************************************************************************)
(* What the worker records, reports and trusts, for any number of          *)
(* attempts, batches, strategies, runs and edits, and any faults; and what *)
(* the bars are that it and the ingestion task store and promote, for any  *)
(* quotes, durations, lookbacks and interleavings of the two.              *)
(***************************************************************************)
EXTENDS MarketDataWorkerProps, BarAggregationProps, SetLemmas, TLAPS

-----------------------------------------------------------------------------
(* The worker: the verdicts of a connection and of the watchdog.           *)

\* The walk through the transition table a run on one connection takes, whichever way the
\* connection ends: none of its events is refused.
LEMMA Verdicts == CleanStop = "STOPPED" /\ LostConnection = "RECONNECTING"
<1>1. Started = "CONNECTING"
  <2>1. ApplyEvent("STOPPED", "START_REQUESTED") = "STARTING"
    BY DEF ApplyEvent, Transitions
  <2>2. ApplyEvent("STARTING", "AUTH_SUCCEEDED") = "CONNECTING"
    BY DEF ApplyEvent, Transitions
  <2> QED
    BY <2>1, <2>2 DEF Started
<1>2. Subscribed = "RUNNING"
  <2>1. ApplyEvent("CONNECTING", "CONNECTED") = "SUBSCRIBING"
    BY DEF ApplyEvent, Transitions
  <2>2. ApplyEvent("SUBSCRIBING", "SUBSCRIBED") = "RUNNING"
    BY DEF ApplyEvent, Transitions
  <2> QED
    BY <1>1, <2>1, <2>2 DEF Subscribed
<1>3. CleanStop = "STOPPED"
  <2>1. ApplyEvent("RUNNING", "STOP_REQUESTED") = "STOPPING"
    BY DEF ApplyEvent, Transitions
  <2>2. ApplyEvent("STOPPING", "STOPPED_CLEANLY") = "STOPPED"
    BY DEF ApplyEvent, Transitions
  <2> QED
    BY <1>2, <2>1, <2>2 DEF CleanStop
<1>4. LostConnection = "RECONNECTING"
  <2>1. ApplyEvent("RUNNING", "CONNECTION_LOST") = "RECONNECTING"
    BY DEF ApplyEvent, Transitions
  <2> QED
    BY <1>2, <2>1 DEF LostConnection
<1> QED
  BY <1>3, <1>4

Grades == {"FAILED", "DISCONNECTED", "STALE", "DEGRADED", "HEALTHY"}
Trackers == [token: TokenStates, state: States, packet: Ages, bar: Ages]
Usable == {"VALID", "EXPIRING_SOON"}
\* The states of the tracker in which there is no connection, as far as a run leaves it there.
Unconnected == {"STOPPED", "RECONNECTING"}

\* Every grade is one of the five.
LEMMA GradeIsGrade == ASSUME NEW h PROVE Grade(h) \in Grades
BY DEF Grade, Watchdog, Grades

\* Without a connection the feed is disconnected, however fresh its packets are.
LEMMA GradeWithoutConnection ==
  ASSUME NEW h, h.token \in Usable, h.state \in Unconnected
  PROVE  Grade(h) = "DISCONNECTED"
BY DEF Grade, Watchdog, Usable, Unconnected

\* A healthy feed has a fresh packet and a connection.
LEMMA HealthyIsFresh ==
  ASSUME NEW h \in Trackers, Grade(h) = "HEALTHY"
  PROVE  h.packet = "fresh" /\ (h.token \in Usable => h.state \notin Unconnected)
BY DEF Grade, Watchdog, Unconnected, Trackers, Ages, Usable

-----------------------------------------------------------------------------
(* The invariant of the worker.                                            *)

Rows == [request: {"none", "new", "old"}, state: States, watchdog: Grades, version: Nat]
Scans == [status: {"IDLE", "STARTING", "SCANNING", "DEGRADED", "COMPLETED"}, done: Nat,
          error: BOOLEAN]
Jobs == [at: {"receiving", "flushing"}, enabled: BOOLEAN, healthy: BOOLEAN, todo: Nat,
         degraded: BOOLEAN]

Shapes ==
  /\ desired \in [enabled: BOOLEAN, version: Nat]
  /\ row \in Rows /\ scan \in Scans /\ health \in Trackers /\ stop \in BOOLEAN
  /\ IF at = "scanning" THEN job \in Jobs ELSE job = Idle

\* Beyond the boot the token was usable when it was read.
Authenticated == at \notin {"down", "boot"} => health.token \in Usable

SaysStopped == row.state = "STOPPED" /\ row.watchdog = "DISCONNECTED"

\* The supervisor has returned and the remaining quotes are aggregated.
Finishing == at = "flush" \/ (at = "scanning" /\ job.at = "flushing")

\* How a run ends and what the tracker and the row say of it from then on.
Endings ==
  /\ at = "stopped" => stop
  /\ at = "failed" => health.state = "RECONNECTING"
  /\ Finishing => /\ ended \in {"closed", "failed", "stopped"}
                  /\ ended = "failed" => health.state = "RECONNECTING"
                  /\ ended = "stopped" => health.state = "STOPPED" /\ SaysStopped
  /\ at = "down" /\ ended = "stopped" => SaysStopped

\* The scan under way has counted the strategies it ran, and remembers that one failed.
ScanCounted ==
  /\ scan.status = "COMPLETED" => scan.done = Strategies /\ ~scan.error
  /\ at = "scanning" => /\ job.enabled => scan.done + job.todo = Strategies
                        /\ job.enabled /\ scan.error => job.degraded
                        /\ ~job.enabled => job.todo = 0

Inv == Shapes /\ Authenticated /\ Endings /\ ScanCounted

LEMMA Begins == Init => Inv
<1> SUFFICES ASSUME Init PROVE Inv
  OBVIOUS
<1>1. Shapes
  BY DEF Init, Shapes, Rows, Scans, Trackers, NoHealth, States, TokenStates, Ages, Grades
<1>2. Authenticated /\ Endings /\ ScanCounted
  BY DEF Init, Authenticated, Endings, Finishing, ScanCounted
<1> QED
  BY <1>1, <1>2 DEF Inv

\* When the process goes down, only what the rows say of a stop has to be known.
LEMMA DownKeeps ==
  ASSUME Inv, NEW why, Down(why), UNCHANGED stored, why = "stopped" => SaysStopped
  PROVE  Inv'
<1>1. Shapes'
  <2>1. NoHealth \in Trackers
    BY DEF NoHealth, Trackers, States, TokenStates, Ages
  <2> QED
    BY <2>1 DEF Inv, Shapes, Down, stored
<1>2. Authenticated' /\ Endings' /\ ScanCounted'
  BY DEF Inv, Down, stored, Authenticated, Endings, Finishing, SaysStopped, ScanCounted
<1> QED
  BY <1>1, <1>2 DEF Inv

LEMMA OperatorKeeps ==
  ASSUME Inv, Operate \/ Elapse \/ Observe \/ ObserveFails \/ CloseOnStop
  PROVE  Inv'
<1>1. CASE RequestStop \/ CancelStop
  BY <1>1 DEF Inv, RequestStop, CancelStop, Shapes, Rows, Authenticated, Endings, Finishing,
              SaysStopped, ScanCounted
<1>2. CASE Signal
  BY <1>2 DEF Inv, Signal, stored, Shapes, Authenticated, Endings, Finishing, SaysStopped,
              ScanCounted
<1>3. CASE Renew
  BY <1>3 DEF Inv, Renew, Shapes, Authenticated, Endings, Finishing, SaysStopped, ScanCounted
<1>4. CASE Start
  BY <1>4 DEF Inv, Start, Shapes, Rows, Authenticated, Endings, Finishing, SaysStopped,
              ScanCounted
<1>5. CASE Kill
  BY <1>5, DownKeeps DEF Kill
<1>6. ASSUME NEW enabled \in BOOLEAN, Configure(enabled) PROVE Inv'
  BY <1>6 DEF Inv, Configure, Shapes, Authenticated, Endings, Finishing, SaysStopped,
              ScanCounted
<1>7. CASE Elapse
  <2>1. PICK bar \in {health.bar, Older(health.bar)} :
          health' = [health EXCEPT !.packet = Older(@), !.bar = bar]
    BY <1>7 DEF Elapse
  <2>2. health' \in Trackers /\ health'.token = health.token /\ health'.state = health.state
    BY <2>1 DEF Inv, Shapes, Trackers, Older, Ages
  <2> QED
    BY <1>7, <2>2 DEF Inv, Elapse, stored, Shapes, Authenticated, Endings, Finishing,
                      SaysStopped, ScanCounted
<1>8. CASE Observe \/ ObserveFails \/ CloseOnStop
  BY <1>8 DEF Inv, Observe, ObserveFails, CloseOnStop, stored, Shapes, Authenticated, Endings,
              Finishing, SaysStopped, ScanCounted
<1> QED
  BY <1>1, <1>2, <1>3, <1>4, <1>5, <1>6, <1>7, <1>8 DEF Operate

\* Up to the loop, and how the supervisor's end is written down.
LEMMA LifecycleKeeps ==
  ASSUME Inv, Boot \/ Arm \/ Disarm \/ RecordStop \/ NextAttempt \/ Backoff
  PROVE  Inv'
<1>1. CASE Boot
  <2>1. CASE Down("refused")
    BY <1>1, <2>1, DownKeeps DEF Boot
  <2>2. CASE ~Down("refused")
    <3>1. /\ EvaluateToken(token) \in Usable /\ at' = "arming" /\ UNCHANGED <<stop, job, ended>>
          /\ health' = [health EXCEPT !.token = EvaluateToken(token)]
          /\ UNCHANGED <<row, scan, desired>> /\ at = "boot"
      BY <1>1, <2>2 DEF Boot, Usable, stored
    <3>2. health' \in Trackers /\ health'.token \in Usable
      BY <3>1 DEF Inv, Shapes, Trackers, Usable, TokenStates
    <3> QED
      BY <3>1, <3>2 DEF Inv, Shapes, Authenticated, Endings, Finishing, SaysStopped, ScanCounted
  <2> QED
    BY <2>1, <2>2
<1>2. CASE Arm
  BY <1>2 DEF Inv, Arm, Shapes, Rows, Authenticated, Endings, Finishing, SaysStopped,
              ScanCounted
<1>3. CASE Disarm
  <2>1. row' \in Rows /\ row'.state = row.state /\ row'.watchdog = row.watchdog
        /\ UNCHANGED <<desired, scan>>
    BY <1>3 DEF Disarm, Inv, Shapes, Rows
  <2>2. CASE Down("raised")
    <3>1. Shapes'
      <4>1. NoHealth \in Trackers
        BY DEF NoHealth, Trackers, States, TokenStates, Ages
      <4> QED
        BY <2>1, <2>2, <4>1 DEF Inv, Shapes, Down
    <3> QED
      BY <2>1, <2>2, <3>1 DEF Inv, Down, Authenticated, Endings, Finishing, ScanCounted
  <2>3. CASE ~Down("raised")
    <3>1. /\ at \in {"stopped", "closed", "failed"}
          /\ at' = IF at # "failed" /\ stop THEN "marking" ELSE "flush"
          /\ ended' = at /\ UNCHANGED <<stop, health, job>>
      BY <1>3, <2>3 DEF Disarm
    <3> QED
      BY <2>1, <3>1 DEF Inv, Shapes, Authenticated, Endings, Finishing, SaysStopped, ScanCounted
  <2> QED
    BY <2>2, <2>3
<1>4. CASE RecordStop
  <2>1. health' = [health EXCEPT !.state = "STOPPED"] /\ at = "marking"
    BY <1>4 DEF RecordStop, MarkStopped
  <2>2. health' \in Trackers /\ health'.state = "STOPPED" /\ health'.token \in Usable
    BY <2>1 DEF Inv, Shapes, Authenticated, Trackers, States
  <2>3. Grade(health') = "DISCONNECTED"
    BY <2>2, GradeWithoutConnection DEF Unconnected
  <2>4. row' \in Rows /\ row'.state = "STOPPED" /\ row'.watchdog = "DISCONNECTED"
    BY <1>4, <2>2, <2>3 DEF RecordStop, Persisted, Inv, Shapes, Rows, States, Grades
  <2> QED
    BY <1>4, <2>1, <2>2, <2>4 DEF RecordStop, Inv, Shapes, Authenticated, Endings, Finishing,
                                  SaysStopped, ScanCounted
<1>5. CASE NextAttempt
  <2>1. at = "loop" /\ at' \in {"stopped", "connecting"} /\ (at' = "stopped" => stop)
    BY <1>5 DEF NextAttempt
  <2>2. health' \in Trackers /\ health'.token = health.token
    BY <1>5 DEF NextAttempt, Inv, Shapes, Trackers, States
  <2> QED
    BY <1>5, <2>1, <2>2 DEF NextAttempt, stored, Inv, Shapes, Authenticated, Endings,
                            Finishing, SaysStopped, ScanCounted
<1>6. CASE Backoff
  BY <1>6 DEF Backoff, stored, Inv, Shapes, Authenticated, Endings, Finishing, SaysStopped,
              ScanCounted
<1> QED
  BY <1>1, <1>2, <1>3, <1>4, <1>5, <1>6

\* Wherever the supervisor goes after a connection, it has not returned yet, and it gives up
\* or stops only with what that says of the tracker and the stop event.
LEMMA AfterRunLeads ==
  ASSUME NEW result \in {"STOPPED", "RECONNECTING"}
  PROVE  /\ AfterRun(result) \in {"stopped", "closed", "failed", "backoff"}
         /\ AfterRun(result) = "stopped" => stop
         /\ AfterRun(result) = "failed" => result = "RECONNECTING"
BY DEF AfterRun, AfterLoss, Unrecoverable

LEMMA EndsKeeps ==
  ASSUME Inv, at = "receiving" \/ at = "subscribing",
         NEW result \in {"STOPPED", "RECONNECTING"}, Ends(result)
  PROVE  Inv'
<1>1. health' \in Trackers /\ health'.token = health.token
      /\ (result = "RECONNECTING" => health'.state = "RECONNECTING")
  BY DEF Ends, MarkReconnecting, Inv, Shapes, Trackers, States
<1>2. /\ at' \in {"stopped", "closed", "failed", "backoff"}
      /\ at' = "stopped" => stop
      /\ at' = "failed" => result = "RECONNECTING"
  BY AfterRunLeads DEF Ends
<1> QED
  BY <1>1, <1>2 DEF Ends, stored, Inv, Shapes, Authenticated, Endings, Finishing, SaysStopped,
                    ScanCounted

LEMMA ConnectionKeeps ==
  ASSUME Inv,
         \/ \E accepted \in BOOLEAN : Connect(accepted)
         \/ \E how \in {"closed", "lost"} : PeerEnds(how)
         \/ Subscribe \/ SubscribeFails \/ StreamEnds
         \/ QuoteFails \/ DisconnectPacket \/ StopAtPacket
  PROVE  Inv'
<1>1. ASSUME NEW accepted \in BOOLEAN, Connect(accepted) PROVE Inv'
  <2>1. CASE accepted
    <3>1. health' = [health EXCEPT !.state = "RUNNING"] /\ at' = "subscribing"
      BY <1>1, <2>1 DEF Connect, MarkConnected
    <3>2. health' \in Trackers /\ health'.token = health.token
      BY <3>1 DEF Inv, Shapes, Trackers, States
    <3> QED
      BY <1>1, <3>1, <3>2 DEF Connect, stored, Inv, Shapes, Authenticated, Endings, Finishing,
                              SaysStopped, ScanCounted
  <2>2. CASE ~accepted
    <3>1. /\ health' = [health EXCEPT !.state = "RECONNECTING"]
          /\ at' \in {"stopped", "failed", "backoff"} /\ (at' = "stopped" => stop)
      BY <1>1, <2>2 DEF Connect, MarkReconnecting, AfterLoss
    <3>2. health' \in Trackers /\ health'.token = health.token
          /\ health'.state = "RECONNECTING"
      BY <3>1 DEF Inv, Shapes, Trackers, States
    <3> QED
      BY <1>1, <3>1, <3>2 DEF Connect, stored, Inv, Shapes, Authenticated, Endings, Finishing,
                              SaysStopped, ScanCounted
  <2> QED
    BY <2>1, <2>2
<1>2. ASSUME NEW how \in {"closed", "lost"}, PeerEnds(how) PROVE Inv'
  BY <1>2 DEF PeerEnds, stored, Inv, Shapes, Authenticated, Endings, Finishing, SaysStopped,
              ScanCounted
<1>3. CASE Subscribe
  <2>1. /\ at' \in {"receiving", "stopped", "closed", "backoff"}
        /\ at' = "stopped" => stop
    <3>1. AfterRun(CleanStop) = AfterRun("STOPPED")
      BY Verdicts
    <3> QED
      BY <1>3, <3>1, AfterRunLeads DEF Subscribe
  <2> QED
    BY <1>3, <2>1 DEF Subscribe, stored, Inv, Shapes, Authenticated, Endings, Finishing,
                      SaysStopped, ScanCounted
<1>4. CASE SubscribeFails \/ QuoteFails
  BY <1>4 DEF SubscribeFails, QuoteFails, stored, Inv, Shapes, Authenticated, Endings,
              Finishing, SaysStopped, ScanCounted
<1>5. CASE StreamEnds \/ DisconnectPacket \/ StopAtPacket
  BY <1>5, EndsKeeps, Verdicts DEF StreamEnds, DisconnectPacket, StopAtPacket
<1> QED
  BY <1>1, <1>2, <1>3, <1>4, <1>5

-----------------------------------------------------------------------------
(* The sink: a batch is aggregated, graded and scanned.                    *)

LEMMA AggregationKeeps ==
  ASSUME Inv, at # "boot" /\ at # "down",
         NEW h \in Trackers, h.token = health.token, h.state = health.state,
         NEW whole \in BOOLEAN, NEW back \in {"receiving", "flushing"},
         at = IF back = "receiving" THEN "receiving" ELSE "flush",
         Aggregation(h, whole, back), UNCHANGED <<desired, stop, ended>>
  PROVE  Inv'
<1>1. health' \in Trackers /\ health'.token = h.token /\ health'.state = h.state
  BY DEF Aggregation, Trackers, Ages
<1>2. /\ row' = [Persisted(row, health') EXCEPT !.version = desired.version]
      /\ row' \in Rows /\ row'.state = health'.state /\ row'.watchdog = Grade(health')
  <2>1. row' = [Persisted(row, health') EXCEPT !.version = desired.version]
    BY DEF Aggregation
  <2>2. Grade(health') \in Grades /\ health'.state \in States
    BY <1>1, GradeIsGrade DEF Trackers
  <2> QED
    BY <2>1, <2>2 DEF Persisted, Inv, Shapes, Rows
<1>3. /\ at' = "scanning" /\ job' \in Jobs /\ job'.at = back
      /\ job'.enabled = desired.enabled
      /\ job'.todo = IF desired.enabled THEN Strategies ELSE 0
  BY WorkerConstants DEF Aggregation, Jobs, Inv, Shapes
<1>4. scan' \in Scans /\ scan'.status # "COMPLETED"
      /\ (desired.enabled => scan'.done = 0 /\ scan'.error = FALSE)
  <2>1. CASE desired.enabled
    BY <2>1 DEF Aggregation, Scans
  <2>2. CASE ~desired.enabled
    BY <2>2 DEF Aggregation, Scans, Inv, Shapes
  <2> QED
    BY <2>1, <2>2
<1>5. Shapes'
  BY <1>1, <1>2, <1>3, <1>4 DEF Inv, Shapes
<1>6. Authenticated'
  BY <1>1 DEF Inv, Authenticated
<1>7. Endings'
  <2>1. CASE back = "receiving"
    BY <1>3, <2>1 DEF Endings, Finishing
  <2>2. CASE back = "flushing"
    <3>1. /\ ended \in {"closed", "failed", "stopped"}
          /\ ended = "failed" => health.state = "RECONNECTING"
          /\ ended = "stopped" => health.state = "STOPPED"
      BY <2>2 DEF Inv, Endings, Finishing
    <3>2. ended = "stopped" => Grade(health') = "DISCONNECTED"
      BY <1>1, <3>1, GradeWithoutConnection DEF Inv, Authenticated, Unconnected
    <3> QED
      BY <1>1, <1>2, <1>3, <3>1, <3>2 DEF Endings, Finishing, SaysStopped
  <2> QED
    BY <2>1, <2>2
<1>8. ScanCounted'
  BY <1>3, <1>4, WorkerConstants DEF Inv, Shapes, ScanCounted
<1> QED
  BY <1>5, <1>6, <1>7, <1>8 DEF Inv

LEMMA EvaluateKeeps ==
  ASSUME Inv, NEW fails \in BOOLEAN, Evaluate(fails)
  PROVE  Inv'
<1>1. job \in Jobs /\ job.todo > 0 /\ at = "scanning" /\ at' = at /\ scan \in Scans
  BY DEF Evaluate, Inv, Shapes
<1> DEFINE d == job.degraded \/ fails
           e == scan.error \/ fails
<1>2. /\ job' = [job EXCEPT !.todo = job.todo - 1, !.degraded = d]
      /\ scan' = [status |-> IF d THEN "DEGRADED" ELSE "SCANNING", done |-> scan.done + 1, error |-> e]
      /\ d \in BOOLEAN /\ e \in BOOLEAN
  BY DEF Evaluate
<1>3. (scan.error => job.degraded) => (e => d)
  OBVIOUS
<1> HIDE DEF d, e
<1>4. /\ job' \in Jobs /\ job'.todo = job.todo - 1 /\ job'.at = job.at
      /\ job'.enabled = job.enabled /\ job'.degraded = d
  <2>1. [job EXCEPT !.degraded = d] \in Jobs
    BY <1>1, <1>2 DEF Jobs
  <2>2. job.todo - 1 \in Nat
    BY <1>1 DEF Jobs
  <2> QED
    BY <1>1, <1>2, <2>1, <2>2 DEF Jobs
<1>5. /\ scan' \in Scans /\ scan'.done = scan.done + 1 /\ scan'.error = e
      /\ scan'.status # "COMPLETED"
  BY <1>1, <1>2 DEF Scans
<1>6. job.enabled
  BY <1>1 DEF Inv, ScanCounted
<1>7. ScanCounted'
  BY <1>1, <1>3, <1>4, <1>5, <1>6 DEF Inv, ScanCounted, Jobs, Scans
<1> QED
  BY <1>1, <1>5, <1>4, <1>7 DEF Evaluate, Inv, Shapes, Authenticated, Endings, Finishing,
                                SaysStopped

LEMMA ScanDoneKeeps ==
  ASSUME Inv, ScanDone
  PROVE  Inv'
<1>1. job \in Jobs /\ job.todo = 0 /\ at = "scanning" /\ scan \in Scans
      /\ UNCHANGED <<row, desired>>
  BY DEF ScanDone, Inv, Shapes
<1>2. scan' \in Scans
  BY <1>1 DEF ScanDone, ScanStatus, Scans
<1>3. scan'.status = "COMPLETED" => scan'.done = Strategies /\ ~scan'.error
  <2>1. CASE job.enabled
    <3>1. scan' = [scan EXCEPT !.status = ScanStatus]
      BY <2>1 DEF ScanDone
    <3>2. scan'.done = scan.done /\ scan'.error = scan.error /\ scan'.status = ScanStatus
      BY <1>1, <3>1 DEF Scans
    <3>3. scan.done = Strategies /\ (scan.error => job.degraded)
      BY <1>1, <2>1 DEF Inv, ScanCounted, Scans, Jobs
    <3> QED
      BY <3>2, <3>3 DEF ScanStatus
  <2>2. CASE ~job.enabled
    BY <2>2 DEF ScanDone, Inv, ScanCounted
  <2> QED
    BY <2>1, <2>2
<1>4. CASE job.at = "receiving"
  BY <1>1, <1>2, <1>3, <1>4 DEF ScanDone, Inv, Shapes, Authenticated, Endings, Finishing,
                                SaysStopped, ScanCounted
<1>5. CASE job.at # "receiving"
  <2>1. Down(ended)
    BY <1>5 DEF ScanDone
  <2>2. ended = "stopped" => SaysStopped
    BY <1>1, <1>5 DEF Inv, Endings, Finishing, Jobs
  <2>3. NoHealth \in Trackers
    BY DEF NoHealth, Trackers, States, TokenStates, Ages
  <2>4. Shapes'
    BY <1>1, <1>2, <2>1, <2>3 DEF Down, Inv, Shapes
  <2> QED
    BY <1>1, <1>3, <2>1, <2>2, <2>4 DEF Down, Inv, Authenticated, Endings, Finishing,
                                        SaysStopped, ScanCounted
<1> QED
  BY <1>4, <1>5

LEMMA SinkKeeps ==
  ASSUME Inv,
         \/ \E whole \in BOOLEAN : Quote(whole) \/ Flush(whole)
         \/ \E fails \in BOOLEAN : Evaluate(fails)
         \/ ScanDone
  PROVE  Inv'
<1>1. ASSUME NEW whole \in BOOLEAN, Quote(whole) PROVE Inv'
  <2> DEFINE h == [health EXCEPT !.packet = "fresh"]
  <2>1. h \in Trackers /\ h.token = health.token /\ h.state = health.state
    BY DEF Inv, Shapes, Trackers, Ages
  <2>2. CASE pending + 1 < Batch
    BY <1>1, <2>1, <2>2 DEF Quote, Inv, Shapes, Authenticated, Endings, Finishing,
                            SaysStopped, ScanCounted
  <2>3. CASE ~(pending + 1 < Batch)
    <3>1. Aggregation(h, whole, "receiving") /\ at = "receiving" /\ UNCHANGED <<desired, stop, ended>>
      BY <1>1, <2>3 DEF Quote
    <3> HIDE DEF h
    <3> QED
      BY <2>1, <3>1, AggregationKeeps
  <2> QED
    BY <2>2, <2>3
<1>2. ASSUME NEW whole \in BOOLEAN, Flush(whole) PROVE Inv'
  <2>1. CASE pending = 0
    <3>1. Down(ended) /\ UNCHANGED stored
      BY <1>2, <2>1 DEF Flush, stored
    <3>2. ended = "stopped" => SaysStopped
      BY <1>2 DEF Flush, Inv, Endings, Finishing
    <3> QED
      BY <3>1, <3>2, DownKeeps
  <2>2. CASE pending # 0
    <3>1. Aggregation(health, whole, "flushing") /\ at = "flush" /\ UNCHANGED <<desired, stop, ended>>
      BY <1>2, <2>2 DEF Flush
    <3>2. health \in Trackers
      BY DEF Inv, Shapes
    <3> QED
      BY <3>1, <3>2, AggregationKeeps
  <2> QED
    BY <2>1, <2>2
<1> QED
  BY <1>1, <1>2, EvaluateKeeps, ScanDoneKeeps

-----------------------------------------------------------------------------
\* Every reachable state of the worker satisfies the invariant.
THEOREM WorkerInvariant == Spec => []Inv
<1>1. Inv /\ [Next]_vars => Inv'
  <2> SUFFICES ASSUME Inv, [Next]_vars PROVE Inv'
    OBVIOUS
  <2>1. CASE UNCHANGED vars
    BY <2>1 DEF vars, stored, Inv, Shapes, Authenticated, Endings, Finishing, SaysStopped,
                ScanCounted
  <2>2. CASE Supervise
    BY <2>2, LifecycleKeeps, ConnectionKeeps, SinkKeeps DEF Supervise
  <2>3. CASE Feed
    BY <2>3, ConnectionKeeps, SinkKeeps DEF Feed
  <2>4. CASE Operate \/ Observe \/ ObserveFails \/ CloseOnStop \/ Elapse
    BY <2>4, OperatorKeeps
  <2> QED
    BY <2>1, <2>2, <2>3, <2>4 DEF Next
<1> QED
  BY Begins, <1>1, PTL DEF Spec

\* A run that was asked to stop and did has left a row that says STOPPED and DISCONNECTED,
\* whatever was still aggregated after that.
THEOREM StopIsRecordedHolds == Spec => []StopIsRecorded
<1>1. Inv => StopIsRecorded
  BY DEF Inv, Endings, SaysStopped, StopIsRecorded
<1> QED
  BY <1>1, WorkerInvariant, PTL

\* A COMPLETED scan ran every strategy and none of them raised.
THEOREM CompletedMeansCleanHolds == Spec => []CompletedMeansClean
<1>1. Inv => CompletedMeansClean
  BY DEF Inv, ScanCounted, CompletedMeansClean
<1> QED
  BY <1>1, WorkerInvariant, PTL

\* Bars are trusted only while packets are received, or after an orderly close by the server,
\* and only on a fresh packet.
LEMMA TrustNeedsPacket ==
  ASSUME Inv, Next, job = Idle, job' # Idle, job'.healthy
  PROVE  health'.packet = "fresh" /\ (at = "receiving" \/ ended = "closed")
<1>1. PICK h \in Trackers, whole \in BOOLEAN, back \in {"receiving", "flushing"} :
        /\ Aggregation(h, whole, back) /\ h.state = health.state /\ h.token = health.token
        /\ at = IF back = "receiving" THEN "receiving" ELSE "flush"
        /\ ended = "closed" \/ at = "receiving" \/ health.state \in Unconnected
  <2>1. CASE \E whole \in BOOLEAN : Quote(whole)
    <3> DEFINE h == [health EXCEPT !.packet = "fresh"]
    <3>1. PICK whole \in BOOLEAN : Quote(whole)
      BY <2>1
    <3>2. h \in Trackers /\ h.token = health.token /\ h.state = health.state
      BY DEF Inv, Shapes, Trackers, Ages
    <3>3. at = "receiving" /\ Aggregation(h, whole, "receiving")
      BY <3>1 DEF Quote
    <3> HIDE DEF h
    <3> QED
      BY <3>2, <3>3
  <2>2. CASE \E whole \in BOOLEAN : Flush(whole)
    <3>1. PICK whole \in BOOLEAN : Flush(whole)
      BY <2>2
    <3>2. at = "flush" /\ Aggregation(health, whole, "flushing")
      BY <3>1 DEF Flush, Down
    <3>3. ended = "closed" \/ health.state \in Unconnected
      BY <3>2 DEF Inv, Endings, Finishing, Unconnected
    <3>4. health \in Trackers
      BY DEF Inv, Shapes
    <3> QED
      BY <3>2, <3>3, <3>4
  <2>3. CASE ~(\E whole \in BOOLEAN : Quote(whole) \/ Flush(whole))
    <3>1. at # "scanning"
      BY DEF Inv, Shapes, Jobs, Idle
    <3> QED
      BY <2>3, <3>1 DEF Next, Supervise, Feed, Operate, Boot, Arm, Disarm, RecordStop,
        NextAttempt, Connect, Subscribe, SubscribeFails, Backoff, StreamEnds, Evaluate,
        ScanDone, PeerEnds, QuoteFails, DisconnectPacket, StopAtPacket, Ends, Down, RequestStop,
        CancelStop, Signal, Renew, Start, Kill, Configure, Observe, ObserveFails, CloseOnStop,
        Elapse
  <2> QED
    BY <2>1, <2>2, <2>3
<1>2. health' \in Trackers /\ health'.state = h.state /\ health'.token = h.token
  BY <1>1 DEF Aggregation, Trackers, Ages
<1>3. Grade(health') = "HEALTHY"
  BY <1>1 DEF Aggregation
<1>4. health'.token \in Usable
  BY <1>1, <1>2 DEF Inv, Authenticated
<1> QED
  BY <1>1, <1>2, <1>3, <1>4, HealthyIsFresh

\* No aggregation trusts its bars after the connection was lost.
THEOREM NothingTrustedAfterLossHolds == Spec => NothingTrustedAfterLoss
<1>1. Inv /\ [Next]_vars =>
        [(job = Idle /\ job' # Idle /\ job'.healthy) =>
           /\ health'.packet = "fresh"
           /\ at = "receiving" \/ ended = "closed"]_vars
  BY TrustNeedsPacket
<1> QED
  BY <1>1, WorkerInvariant, PTL DEF Spec, NothingTrustedAfterLoss

-----------------------------------------------------------------------------
(* The bars: intervals.                                                    *)

Quotes == [at : Nat, price : Nat, volume : Nat \union {NoVolume}]
Ordered(quotes) == \A j, k \in DOMAIN quotes : j < k => quotes[j].at <= quotes[k].at
Readable(quotes) == quotes \in Seq(Quotes) /\ Ordered(quotes)

\* The interval of a time is the one its start and its end enclose.
LEMMA Division ==
  ASSUME NEW t \in Nat
  PROVE  /\ t \div Duration \in Nat /\ IntervalStart(t) \in Nat
         /\ IntervalStart(t) <= t /\ t < IntervalStart(t) + Duration
<1>1. PICK d \in Nat \ {0} : d = Duration
  BY BarConstants
<1>2. t \div d \in Nat /\ (t \div d) * d <= t /\ t < (t \div d) * d + d
  OBVIOUS
<1>3. (t \div d) * d \in Nat
  BY <1>2
<1> QED
  BY <1>1, <1>2, <1>3 DEF IntervalStart

\* Earlier numbers, earlier intervals, by at least the duration.
LEMMA Grid ==
  ASSUME NEW a \in Nat, NEW b \in Nat, a < b
  PROVE  /\ a * Duration \in Nat /\ b * Duration \in Nat
         /\ a * Duration + Duration <= b * Duration
<1>1. PICK d \in Nat \ {0} : d = Duration
  BY BarConstants
<1>2. PICK c \in Nat : b = a + 1 + c
  <2>1. b - a - 1 \in Nat
    OBVIOUS
  <2>2. b = a + 1 + (b - a - 1)
    OBVIOUS
  <2> QED
    BY <2>1, <2>2
<1>3. /\ (a + 1 + c) * d = a * d + d + c * d /\ c * d \in Nat /\ a * d \in Nat
  OBVIOUS
<1> QED
  BY <1>1, <1>2, <1>3

\* The number of the interval of a time.
LEMMA IntervalIs ==
  ASSUME NEW t \in Nat, NEW a \in Nat
  PROVE  t \div Duration = a <=> a * Duration <= t /\ t < a * Duration + Duration
<1>1. PICK q \in Nat : q = t \div Duration
  BY Division
<1>2. q * Duration <= t /\ t < q * Duration + Duration /\ q * Duration \in Nat
  BY <1>1, Division DEF IntervalStart
<1>3. Duration \in Nat \ {0} /\ a * Duration \in Nat
  <2>1. \A x, y \in Nat : x * y \in Nat
    OBVIOUS
  <2> QED
    BY <2>1, BarConstants
<1>4. CASE q = a
  BY <1>1, <1>2, <1>4
<1>5. CASE q < a
  BY <1>1, <1>2, <1>3, <1>5, Grid
<1>6. CASE a < q
  BY <1>1, <1>2, <1>3, <1>6, Grid
<1> QED
  BY <1>4, <1>5, <1>6

\* An interval is known by its start.
LEMMA SameStart ==
  ASSUME NEW t \in Nat, NEW a \in Nat
  PROVE  IntervalStart(t) = a * Duration <=> t \div Duration = a
<1>1. PICK q \in Nat : q = t \div Duration
  BY Division
<1>2. Duration \in Nat \ {0} /\ a * Duration \in Nat /\ q * Duration \in Nat
  <2>1. \A x, y \in Nat : x * y \in Nat
    OBVIOUS
  <2> QED
    BY <2>1, BarConstants
<1>3. CASE q = a
  BY <1>1, <1>3 DEF IntervalStart
<1>4. CASE q < a
  BY <1>1, <1>2, <1>4, Grid DEF IntervalStart
<1>5. CASE a < q
  BY <1>1, <1>2, <1>5, Grid DEF IntervalStart
<1> QED
  BY <1>3, <1>4, <1>5

\* Later times, later intervals.
LEMMA LaterInterval ==
  ASSUME NEW s \in Nat, NEW t \in Nat, s <= t
  PROVE  s \div Duration <= t \div Duration
<1>1. PICK p \in Nat : p = s \div Duration
  BY Division
<1>2. PICK q \in Nat : q = t \div Duration
  BY Division
<1>3. p * Duration <= s /\ t < q * Duration + Duration /\ p * Duration \in Nat /\ q * Duration \in Nat
  BY <1>1, <1>2, Division DEF IntervalStart
<1>4. CASE q < p
  <2>1. Duration \in Nat
    BY BarConstants
  <2> QED
    BY <1>3, <1>4, <2>1, Grid
<1> QED
  BY <1>1, <1>2, <1>4

-----------------------------------------------------------------------------
(* The walk, turn by turn.                                                 *)

\* One member of a finite set has the largest value.
LEMMA LargestValue ==
  ASSUME NEW S, IsFiniteSet(S), S # {}, NEW f, \A j \in S : f[j] \in Nat
  PROVE  \E j \in S : \A k \in S : f[k] <= f[j]
<1> DEFINE Topped(T) == \E j \in T : \A k \in T : f[k] <= f[j]
           C == {T \in SUBSET S : T # {} /\ ~Topped(T)}
<1>1. SUFFICES ASSUME S \in C PROVE FALSE
  OBVIOUS
<1>2. PICK T \in C : \A U \in C : ~(U \subseteq T /\ U # T)
  <2>1. C \subseteq SUBSET S /\ C # {}
    BY <1>1
  <2> HIDE DEF C
  <2> QED
    BY <2>1, LeastSet
<1>3. PICK x \in T : TRUE
  BY <1>2
<1>4. T \ {x} \notin C
  <2>1. T \ {x} \subseteq T /\ T \ {x} # T
    BY <1>3
  <2> HIDE DEF C
  <2> QED
    BY <1>2, <2>1
<1>5. CASE T \ {x} = {}
  <2>1. \A k \in T : f[k] <= f[x]
    <3>1. \A k \in T : k = x
      BY <1>5
    <3>2. f[x] \in Nat
      BY <1>2, <1>3
    <3>3. f[x] <= f[x]
      BY <3>2
    <3> QED
      BY <3>1, <3>3
  <2> QED
    BY <1>2, <1>3, <2>1
<1>6. CASE T \ {x} # {}
  <2>1. Topped(T \ {x})
    BY <1>2, <1>4, <1>6
  <2>2. PICK j \in T \ {x} : \A k \in T \ {x} : f[k] <= f[j]
    BY <2>1
  <2>3. f[j] \in Nat /\ f[x] \in Nat
    BY <1>2, <1>3, <2>2
  <2>4. CASE f[x] <= f[j]
    <3>1. \A k \in T : f[k] <= f[j]
      BY <2>2, <2>4
    <3> QED
      BY <1>2, <2>2, <3>1
  <2>5. CASE f[j] <= f[x]
    <3>1. ASSUME NEW k \in T PROVE f[k] <= f[x]
      <4>1. CASE k = x
        BY <2>3, <4>1
      <4>2. CASE k # x
        <5>1. f[k] <= f[j] /\ f[k] \in Nat
          BY <1>2, <2>2, <4>2
        <5> QED
          BY <2>3, <2>5, <5>1
      <4> QED
        BY <4>1, <4>2
    <3> QED
      BY <1>2, <1>3, <3>1
  <2> QED
    BY <2>3, <2>4, <2>5
<1> QED
  BY <1>5, <1>6

\* The walk's recursion has a solution.
Walked(quotes, asOf, first, m, g) ==
  g = [k \in 0..m |-> IF k = 0 THEN Unwalked
                      ELSE Interval(quotes, asOf, g[k - 1], (first + k - 1) * Duration)]

\* The walk is such a solution.
LEMMA WalkUnrolls ==
  ASSUME NEW quotes, NEW asOf, NEW first, NEW n
  PROVE  Walk(quotes, asOf, first, n) = (CHOOSE g : Walked(quotes, asOf, first, n, g))[n]
BY DEF Walk, Walked

\* A walk goes from interval to interval.
WalkedBy(quotes, asOf, first, n, g) ==
  /\ g[0] = Unwalked
  /\ \A k \in 1..n : g[k] = Interval(quotes, asOf, g[k - 1], (first + k - 1) * Duration)

\* The turns of a walk, one after the other, and the last of them is its result.
LEMMA WalkTurns ==
  ASSUME NEW quotes, NEW asOf, NEW first, NEW n \in Nat
  PROVE  \E g : WalkedBy(quotes, asOf, first, n, g) /\ Walk(quotes, asOf, first, n) = g[n]
<1> DEFINE Turn(acc, k) == Interval(quotes, asOf, acc, (first + k - 1) * Duration)
           Unrolls(m, g) == g = [k \in 0..m |-> IF k = 0 THEN Unwalked ELSE Turn(g[k - 1], k)]
           S == {m \in 0..n : \E g : Unrolls(m, g)}
<1>1. \A m, g : Walked(quotes, asOf, first, m, g) <=> Unrolls(m, g)
  BY DEF Walked
<1> HIDE DEF Turn
<1>2. 0 \in S
  <2> DEFINE g == [k \in 0..0 |-> Unwalked]
  <2>1. Unrolls(0, g)
    <3>1. \A k \in 0..0 : k = 0
      OBVIOUS
    <3> QED
      BY <3>1
  <2> HIDE DEF g
  <2>2. \E f : Unrolls(0, f)
    BY <2>1
  <2> QED
    BY <2>2
<1>3. ASSUME NEW m \in 1..n, m - 1 \in S PROVE m \in S
  <2>1. PICK g : Unrolls(m - 1, g)
    BY <1>3
  <2> DEFINE h == [k \in 0..m |-> IF k = m THEN Turn(g[m - 1], m) ELSE g[k]]
  <2>2. ASSUME NEW k \in 0..m
        PROVE  h[k] = IF k = 0 THEN Unwalked ELSE Turn(h[k - 1], k)
    <3>1. CASE k = m
      <4>1. h[k - 1] = g[m - 1] /\ h[k] = Turn(g[m - 1], m)
        BY <3>1
      <4> QED
        BY <3>1, <4>1
    <3>2. CASE k # m
      <4>1. k \in 0..(m - 1) /\ h[k] = g[k]
        BY <3>2
      <4>2. g[k] = IF k = 0 THEN Unwalked ELSE Turn(g[k - 1], k)
        BY <2>1, <4>1
      <4>3. k # 0 => h[k - 1] = g[k - 1]
        BY <4>1
      <4> HIDE DEF h
      <4> QED
        BY <4>1, <4>2, <4>3
    <3> QED
      BY <3>1, <3>2
  <2>3. h = [k \in 0..m |-> h[k]]
    OBVIOUS
  <2> HIDE DEF h
  <2>4. h = [k \in 0..m |-> IF k = 0 THEN Unwalked ELSE Turn(h[k - 1], k)]
    BY <2>2, <2>3
  <2>5. \E f : Unrolls(m, f)
    BY <2>4
  <2> QED
    BY <2>5
<1>4. n \in S
  <2> HIDE DEF S
  <2> QED
    BY <1>2, <1>3, Counting
<1> DEFINE walked == CHOOSE g : Walked(quotes, asOf, first, n, g)
<1>5. Unrolls(n, walked)
  <2>1. \E g : Walked(quotes, asOf, first, n, g)
    BY <1>1, <1>4
  <2> HIDE DEF Unrolls
  <2> QED
    BY <1>1, <2>1
<1> HIDE DEF walked
<1>6. walked[0] = Unwalked /\ \A k \in 1..n : walked[k] = Turn(walked[k - 1], k)
  BY <1>5
<1>7. Walk(quotes, asOf, first, n) = walked[n]
  BY WalkUnrolls DEF walked
<1>8. WalkedBy(quotes, asOf, first, n, walked)
  BY <1>6 DEF WalkedBy, Turn
<1> QED
  BY <1>7, <1>8

-----------------------------------------------------------------------------
(* The bar of an interval.                                                 *)

BarRecord ==
  [start : Nat, open : Nat, close : Nat, high : Nat, low : Nat, closed : BOOLEAN,
   count : Nat, volume : Nat, gaps : Nat]

\* What a caller got from the database is finite, typed and ordered.
LEMMA ReadFacts ==
  ASSUME NEW quotes, Readable(quotes), NEW asOf \in Nat
  PROVE  /\ DOMAIN quotes = 1..Len(quotes) /\ Len(quotes) \in Nat
         /\ Valid(quotes, asOf) \subseteq 1..Len(quotes) /\ IsFiniteSet(Valid(quotes, asOf))
         /\ \A j \in 1..Len(quotes) :
              /\ quotes[j].at \in Nat /\ quotes[j].price \in Nat
              /\ quotes[j].volume \in Nat \union {NoVolume}
         /\ \A j, k \in 1..Len(quotes) : j <= k => quotes[j].at <= quotes[k].at
<1>1. quotes \in Seq(Quotes)
  BY DEF Readable
<1>2. DOMAIN quotes = 1..Len(quotes) /\ Len(quotes) \in Nat
  BY <1>1
<1>3. Valid(quotes, asOf) \subseteq 1..Len(quotes)
  BY <1>2 DEF Valid
<1>4. IsFiniteSet(Valid(quotes, asOf))
  <2>1. IsFiniteSet(1..Len(quotes))
    BY <1>2, FS_Interval
  <2> QED
    BY <1>3, <2>1, FS_Subset
<1>5. \A j \in 1..Len(quotes) :
        /\ quotes[j].at \in Nat /\ quotes[j].price \in Nat
        /\ quotes[j].volume \in Nat \union {NoVolume}
  <2>1. TAKE j \in 1..Len(quotes)
  <2>2. quotes[j] \in Quotes
    BY <1>1
  <2> QED
    BY <2>2 DEF Quotes
<1>6. \A j, k \in 1..Len(quotes) : j <= k => quotes[j].at <= quotes[k].at
  BY <1>2, <1>5 DEF Readable, Ordered
<1> QED
  BY <1>2, <1>3, <1>4, <1>5, <1>6

\* A bucket holds the quotes of one interval.
LEMMA BucketIs ==
  ASSUME NEW quotes, Readable(quotes), NEW asOf \in Nat, NEW m \in Nat
  PROVE  /\ Bucket(quotes, asOf, m * Duration)
              = {j \in Valid(quotes, asOf) : quotes[j].at \div Duration = m}
         /\ Bucket(quotes, asOf, m * Duration)
              = {j \in Valid(quotes, asOf) : In(m * Duration, quotes[j])}
<1>1. ASSUME NEW j \in Valid(quotes, asOf)
      PROVE  /\ IntervalStart(quotes[j].at) = m * Duration <=> quotes[j].at \div Duration = m
             /\ In(m * Duration, quotes[j]) <=> quotes[j].at \div Duration = m
  <2>1. quotes[j].at \in Nat
    BY ReadFacts
  <2> QED
    BY <2>1, SameStart, IntervalIs DEF In
<1> QED
  BY <1>1 DEF Bucket

\* The bar of the interval with this number.
IsTheBar(b, quotes, asOf, m, volume, gaps) ==
  /\ b \in BarRecord /\ b.start = m * Duration /\ b.volume = volume /\ b.gaps = gaps
  /\ IsBarOf(b, quotes, {j \in Valid(quotes, asOf) : In(m * Duration, quotes[j])}, asOf)

\* The bar of a bucket is a bar of the quotes in its interval.
LEMMA BarOfBucket ==
  ASSUME NEW quotes, Readable(quotes), NEW asOf \in Nat, NEW m \in Nat,
         m <= asOf \div Duration, NEW volume \in Nat, NEW gaps \in Nat,
         Bucket(quotes, asOf, m * Duration) # {}
  PROVE  IsTheBar(Bar(quotes, m * Duration, Bucket(quotes, asOf, m * Duration), asOf, volume, gaps),
                  quotes, asOf, m, volume, gaps)
<1>1. PICK bucket : bucket = Bucket(quotes, asOf, m * Duration)
  OBVIOUS
<1>2. /\ bucket \subseteq 1..Len(quotes) /\ Len(quotes) \in Nat /\ IsFiniteSet(bucket)
      /\ bucket # {} /\ bucket = {j \in Valid(quotes, asOf) : In(m * Duration, quotes[j])}
  <2>1. bucket \subseteq Valid(quotes, asOf)
    BY <1>1 DEF Bucket
  <2>2. bucket = {j \in Valid(quotes, asOf) : In(m * Duration, quotes[j])}
    BY <1>1, BucketIs
  <2> QED
    BY <1>1, <2>1, <2>2, ReadFacts, FS_Subset
<1>3. \A j \in bucket : quotes[j].at \in Nat /\ quotes[j].price \in Nat
  BY <1>2, ReadFacts
<1> DEFINE prices == {quotes[j].price : j \in bucket}
           b == Bar(quotes, m * Duration, bucket, asOf, volume, gaps)
<1>4. /\ Min(bucket) \in bucket /\ \A j \in bucket : Min(bucket) <= j
      /\ Max(bucket) \in bucket /\ \A j \in bucket : j <= Max(bucket)
  <2>1. bucket \subseteq Nat /\ bucket \subseteq 0..Len(quotes)
    BY <1>2
  <2> QED
    BY <1>2, <2>1, SmallestMember, LargestMember
<1>5. Min(prices) \in prices /\ \A p \in prices : Min(prices) <= p
  <2>1. prices \subseteq Nat /\ prices # {}
    BY <1>2, <1>3
  <2> HIDE DEF prices
  <2> QED
    BY <2>1, SmallestMember
<1>6. Max(prices) \in prices /\ \A p \in prices : p <= Max(prices)
  <2> DEFINE price == [j \in bucket |-> quotes[j].price]
  <2>1. \A j \in bucket : price[j] = quotes[j].price /\ price[j] \in Nat
    BY <1>3
  <2> HIDE DEF price
  <2>2. PICK j \in bucket : \A k \in bucket : price[k] <= price[j]
    BY <1>2, <2>1, LargestValue
  <2>3. \E x \in prices : \A y \in prices : x >= y
    BY <2>1, <2>2
  <2> HIDE DEF prices
  <2> QED
    BY <2>3 DEF Max
<1>7. Cardinality(bucket) \in Nat
  BY <1>2, FS_CardinalityType
<1>8. Duration \in Nat \ {0} /\ m * Duration \in Nat
  <2>1. \A x, y \in Nat : x * y \in Nat
    OBVIOUS
  <2> QED
    BY <2>1, BarConstants
<1>9. /\ b.start = m * Duration /\ b.open = quotes[Min(bucket)].price
      /\ b.close = quotes[Max(bucket)].price /\ b.high = Max(prices) /\ b.low = Min(prices)
      /\ b.closed = (m * Duration # IntervalStart(asOf)) /\ b.count = Cardinality(bucket)
      /\ b.volume = volume /\ b.gaps = gaps
  BY DEF Bar
<1>10. b = [start |-> b.start, open |-> b.open, close |-> b.close, high |-> b.high, low |-> b.low,
            closed |-> b.closed, count |-> b.count, volume |-> b.volume, gaps |-> b.gaps]
  BY DEF Bar
<1> HIDE DEF prices, b
<1>11. b.closed <=> b.start + Duration <= asOf
  <2>1. PICK last \in Nat : last = asOf \div Duration
    BY Division
  <2>2. PICK forming \in Nat : forming = last * Duration
    BY <2>1, Division DEF IntervalStart
  <2>3. IntervalStart(asOf) = forming /\ forming <= asOf /\ asOf < forming + Duration
    BY <2>1, <2>2, Division DEF IntervalStart
  <2>4. PICK start \in Nat : start = m * Duration
    BY <1>8
  <2>5. b.start = start /\ (b.closed <=> start # forming)
    <3>1. b.closed = (m * Duration # IntervalStart(asOf))
      BY <1>9
    <3>2. b.closed <=> m * Duration # IntervalStart(asOf)
      BY <3>1, Zenon
    <3> QED
      BY <1>9, <2>3, <2>4, <3>2
  <2>6. CASE m = last
    <3>1. start = forming
      BY <2>2, <2>4, <2>6
    <3> QED
      BY <1>8, <2>3, <2>5, <3>1
  <2>7. CASE m < last
    <3>1. start + Duration <= forming
      BY <2>2, <2>4, <2>7, Grid
    <3> QED
      BY <1>8, <2>3, <2>5, <3>1
  <2> QED
    BY <2>1, <2>6, <2>7
<1>12. b.closed \in BOOLEAN
  BY <1>9
<1>13. Max(prices) \in Nat /\ Min(prices) \in Nat
  BY <1>3, <1>5, <1>6 DEF prices
<1>14. b \in BarRecord
  BY <1>3, <1>4, <1>7, <1>8, <1>9, <1>10, <1>12, <1>13 DEF BarRecord
<1>15. \A j, k \in bucket : j <= k => quotes[j].at <= quotes[k].at
  BY <1>2, ReadFacts
<1>16. IsBarOf(b, quotes, bucket, asOf)
  <2>1. \E j \in bucket : b.open = quotes[j].price /\ \A k \in bucket : quotes[j].at <= quotes[k].at
    BY <1>4, <1>9, <1>15
  <2>2. \E j \in bucket : b.close = quotes[j].price /\ \A k \in bucket : quotes[j].at >= quotes[k].at
    <3>1. \A k \in bucket : quotes[k].at <= quotes[Max(bucket)].at
      BY <1>4, <1>15
    <3>2. \A k \in bucket : quotes[Max(bucket)].at >= quotes[k].at
      BY <1>3, <1>4, <3>1
    <3> QED
      BY <1>4, <1>9, <3>2
  <2>3. \A j \in bucket : b.low <= quotes[j].price /\ quotes[j].price <= b.high
    BY <1>5, <1>6, <1>9 DEF prices
  <2>4. {b.low, b.high} \subseteq {quotes[j].price : j \in bucket}
    BY <1>5, <1>6, <1>9 DEF prices
  <2> QED
    BY <1>2, <1>9, <1>11, <2>1, <2>2, <2>3, <2>4 DEF IsBarOf
<1>17. IsTheBar(b, quotes, asOf, m, volume, gaps)
  BY <1>2, <1>9, <1>14, <1>16 DEF IsTheBar
<1> QED
  BY <1>1, <1>17 DEF b

-----------------------------------------------------------------------------
(* What a walk holds on to.                                                *)

Number(quotes, j) == quotes[j].at \div Duration
BucketAt(quotes, asOf, m) == Bucket(quotes, asOf, m * Duration)

\* A walk that goes from the interval of the earliest quote to that of as_of.
Walkable(quotes, asOf, first, n) ==
  /\ Readable(quotes) /\ asOf \in Nat /\ Valid(quotes, asOf) # {}
  /\ first = Number(quotes, Min(Valid(quotes, asOf)))
  /\ n = asOf \div Duration - first + 1

\* A walk has a first interval and a number of turns, and no valid quote lies outside.
LEMMA WalkableFacts ==
  ASSUME NEW quotes, NEW asOf, NEW first, NEW n, Walkable(quotes, asOf, first, n)
  PROVE  /\ asOf \in Nat /\ first \in Nat /\ n \in Nat \ {0} /\ first + n - 1 = asOf \div Duration
         /\ \A j \in Valid(quotes, asOf) :
              Number(quotes, j) \in Nat /\ first <= Number(quotes, j) /\ Number(quotes, j) < first + n
         /\ BucketAt(quotes, asOf, first) # {}
<1>1. Readable(quotes) /\ asOf \in Nat /\ Valid(quotes, asOf) # {}
  BY DEF Walkable
<1>2. PICK earliest : earliest = Min(Valid(quotes, asOf))
  OBVIOUS
<1>3. earliest \in Valid(quotes, asOf) /\ \A j \in Valid(quotes, asOf) : earliest <= j
  <2>1. Valid(quotes, asOf) \subseteq Nat
    BY <1>1, ReadFacts
  <2> QED
    BY <1>1, <1>2, <2>1, SmallestMember
<1>4. ASSUME NEW j \in Valid(quotes, asOf)
      PROVE  /\ Number(quotes, j) \in Nat /\ first <= Number(quotes, j)
             /\ Number(quotes, j) <= asOf \div Duration
  <2>1. /\ quotes[j].at \in Nat /\ quotes[earliest].at \in Nat
        /\ quotes[earliest].at <= quotes[j].at
    BY <1>1, <1>3, ReadFacts
  <2>2. quotes[j].at <= asOf
    BY DEF Valid
  <2> QED
    BY <1>1, <1>2, <2>1, <2>2, Division, LaterInterval DEF Number, Walkable
<1>5. first = Number(quotes, earliest)
  BY <1>2 DEF Walkable
<1>6. PICK last \in Nat : last = asOf \div Duration
  BY <1>1, Division
<1>7. first \in Nat /\ first <= last /\ n = last - first + 1
  BY <1>3, <1>4, <1>5, <1>6 DEF Walkable
<1>8. BucketAt(quotes, asOf, first) # {}
  <2>1. earliest \in {j \in Valid(quotes, asOf) : quotes[j].at \div Duration = first}
    BY <1>3, <1>5 DEF Number
  <2> QED
    BY <1>1, <1>7, <2>1, BucketIs DEF BucketAt
<1> QED
  BY <1>1, <1>4, <1>6, <1>7, <1>8

Accumulated == [gaps : Nat, baseline : Nat \union {NoVolume}, bars : Seq(BarRecord)]

\* After k turns: a bar for every interval that had a quote, in its place, and a gap for every
\* one that had none, but for the one that is forming.
Walking(quotes, asOf, first, n, k, acc) ==
  /\ acc \in Accumulated
  /\ \A i \in 1..Len(acc.bars) :
       LET b == acc.bars[i] IN
       /\ b.start = (first + i - 1 + b.gaps) * Duration /\ i + b.gaps <= k /\ b.gaps <= acc.gaps
       /\ IsBarOf(b, quotes, {j \in Valid(quotes, asOf) : In(b.start, quotes[j])}, asOf)
  /\ \A i, h \in 1..Len(acc.bars) : i < h => acc.bars[i].gaps <= acc.bars[h].gaps
  /\ k < n => Len(acc.bars) + acc.gaps = k
  /\ k > 0 => Len(acc.bars) > 0 /\ acc.bars[1].gaps = 0
  /\ \A j \in Valid(quotes, asOf) : Number(quotes, j) < first + k =>
       \E i \in 1..Len(acc.bars) : In(acc.bars[i].start, quotes[j])

\* Before the first turn there is nothing to hold on to.
LEMMA WalkBegins ==
  ASSUME NEW quotes, NEW asOf, NEW first, NEW n, Walkable(quotes, asOf, first, n)
  PROVE  Walking(quotes, asOf, first, n, 0, Unwalked)
<1>1. /\ Unwalked.bars = <<>> /\ Unwalked.gaps = 0 /\ Unwalked.baseline = NoVolume
      /\ Len(Unwalked.bars) = 0
  BY DEF Unwalked
<1>2. Unwalked \in Accumulated
  BY DEF Accumulated, Unwalked
<1>3. \A j \in Valid(quotes, asOf) : ~(Number(quotes, j) < first + 0)
  BY WalkableFacts
<1> QED
  BY <1>1, <1>2, <1>3 DEF Walking

\* What a turn counts as volume.
TurnVolume(quotes, bucket, acc) ==
  LET read == {j \in bucket : quotes[j].volume # NoVolume}
  IN IF read = {} THEN 0 ELSE Volume(acc.baseline, quotes[Max(read)].volume)
TurnBaseline(quotes, bucket, acc) ==
  LET read == {j \in bucket : quotes[j].volume # NoVolume}
  IN IF read = {} THEN acc.baseline ELSE quotes[Max(read)].volume

\* A turn leaves a gap, or appends a bar and moves the baseline.
LEMMA TurnIs ==
  ASSUME NEW quotes, NEW asOf, NEW acc, NEW start
  PROVE  LET bucket == Bucket(quotes, asOf, start) IN
         Interval(quotes, asOf, acc, start) =
           IF bucket = {}
           THEN IF start = IntervalStart(asOf) THEN acc ELSE [acc EXCEPT !.gaps = acc.gaps + 1]
           ELSE [gaps |-> acc.gaps, baseline |-> TurnBaseline(quotes, bucket, acc),
                 bars |-> Append(acc.bars, Bar(quotes, start, bucket, asOf,
                                               TurnVolume(quotes, bucket, acc), acc.gaps))]
BY DEF Interval, TurnVolume, TurnBaseline

\* A turn keeps the types of what is accumulated.
LEMMA TurnTypes ==
  ASSUME NEW quotes, Readable(quotes), NEW asOf \in Nat, NEW m \in Nat, NEW acc \in Accumulated
  PROVE  LET bucket == BucketAt(quotes, asOf, m) IN
         /\ TurnVolume(quotes, bucket, acc) \in Nat
         /\ TurnBaseline(quotes, bucket, acc) \in Nat \union {NoVolume}
<1>1. PICK bucket : bucket = BucketAt(quotes, asOf, m)
  OBVIOUS
<1> DEFINE read == {j \in bucket : quotes[j].volume # NoVolume}
<1>2. acc.baseline \in Nat \union {NoVolume}
  BY DEF Accumulated
<1>3. CASE read = {}
  BY <1>1, <1>2, <1>3 DEF TurnVolume, TurnBaseline
<1>4. CASE read # {}
  <2>1. read \subseteq 0..Len(quotes) /\ Len(quotes) \in Nat /\ read \subseteq 1..Len(quotes)
    <3>1. bucket \subseteq Valid(quotes, asOf)
      BY <1>1 DEF BucketAt, Bucket
    <3> QED
      BY <3>1, ReadFacts
  <2>2. Max(read) \in read
    <3> HIDE DEF read
    <3> QED
      BY <1>4, <2>1, LargestMember
  <2>3. quotes[Max(read)].volume # NoVolume
    BY <2>2
  <2>4. quotes[Max(read)].volume \in Nat \union {NoVolume}
    BY <2>1, <2>2, ReadFacts
  <2>5. PICK latest \in Nat : latest = quotes[Max(read)].volume
    BY <2>3, <2>4
  <2>6. Volume(acc.baseline, latest) \in Nat
    BY <1>2 DEF Volume, NoVolume
  <2> QED
    BY <1>1, <1>4, <2>5, <2>6 DEF TurnVolume, TurnBaseline
<1> QED
  BY <1>1, <1>3, <1>4

\* The walk is at the interval that is forming with its last turn only.
LEMMA FormingIsLast ==
  ASSUME NEW quotes, NEW asOf, NEW first, NEW n, Walkable(quotes, asOf, first, n), NEW k \in 1..n
  PROVE  /\ first + k - 1 \in Nat /\ first + k - 1 <= asOf \div Duration
         /\ (first + k - 1) * Duration = IntervalStart(asOf) <=> k = n
<1>1. asOf \in Nat /\ first \in Nat /\ n \in Nat \ {0} /\ first + n - 1 = asOf \div Duration
  BY WalkableFacts
<1>2. first + k - 1 \in Nat /\ first + k - 1 <= first + n - 1
  BY <1>1
<1>3. PICK m \in Nat : m = first + k - 1
  BY <1>2
<1>4. IntervalStart(asOf) = m * Duration <=> asOf \div Duration = m
  BY <1>1, SameStart
<1>5. asOf \div Duration = m <=> k = n
  BY <1>1, <1>3
<1> QED
  BY <1>1, <1>2, <1>3, <1>4, <1>5

\* The types of the bars accumulated so far.
LEMMA BarTypes ==
  ASSUME NEW acc \in Accumulated
  PROVE  /\ acc.bars \in Seq(BarRecord) /\ acc.gaps \in Nat /\ Len(acc.bars) \in Nat
         /\ DOMAIN acc.bars = 1..Len(acc.bars)
         /\ \A i \in 1..Len(acc.bars) :
              /\ acc.bars[i] \in BarRecord /\ acc.bars[i].gaps \in Nat
              /\ acc.bars[i].start \in Nat /\ acc.bars[i].volume \in Nat
<1>1. acc.bars \in Seq(BarRecord) /\ acc.gaps \in Nat
  BY DEF Accumulated
<1>2. ASSUME NEW i \in 1..Len(acc.bars)
      PROVE  /\ acc.bars[i] \in BarRecord /\ acc.bars[i].gaps \in Nat
             /\ acc.bars[i].start \in Nat /\ acc.bars[i].volume \in Nat
  <2>1. acc.bars[i] \in BarRecord
    BY <1>1
  <2> QED
    BY <2>1 DEF BarRecord
<1> QED
  BY <1>1, <1>2

\* A turn over an interval without quotes keeps what a walk holds on to.
LEMMA QuietTurn ==
  ASSUME NEW quotes, NEW asOf, NEW first, NEW n, Walkable(quotes, asOf, first, n),
         NEW k \in 1..n, NEW acc, Walking(quotes, asOf, first, n, k - 1, acc),
         BucketAt(quotes, asOf, first + k - 1) = {}
  PROVE  Walking(quotes, asOf, first, n, k, Interval(quotes, asOf, acc, (first + k - 1) * Duration))
<1> DEFINE next == Interval(quotes, asOf, acc, (first + k - 1) * Duration)
<1>1. /\ asOf \in Nat /\ first \in Nat /\ n \in Nat \ {0} /\ Readable(quotes)
      /\ first + k - 1 \in Nat
  BY WalkableFacts DEF Walkable
<1>2. acc \in Accumulated
  BY DEF Walking
<1>3. next = IF k = n THEN acc ELSE [acc EXCEPT !.gaps = acc.gaps + 1]
  BY TurnIs, FormingIsLast DEF BucketAt
<1>4. /\ acc.bars \in Seq(BarRecord) /\ acc.gaps \in Nat /\ Len(acc.bars) \in Nat
      /\ \A i \in 1..Len(acc.bars) : acc.bars[i].gaps \in Nat
  BY <1>2, BarTypes
<1>5. /\ next \in Accumulated /\ next.bars = acc.bars
      /\ next.gaps = IF k = n THEN acc.gaps ELSE acc.gaps + 1
  BY <1>2, <1>3 DEF Accumulated
<1>6. k > 1
  <2>1. BucketAt(quotes, asOf, first) # {}
    BY WalkableFacts
  <2>2. k = 1 => first + k - 1 = first
    BY <1>1
  <2>3. k # 1
    BY <2>1, <2>2
  <2> QED
    BY <2>3
<1>7. \A j \in Valid(quotes, asOf) : Number(quotes, j) # first + k - 1
  BY <1>1, BucketIs DEF BucketAt, Number
<1>8. \A j \in Valid(quotes, asOf) : Number(quotes, j) < first + k => Number(quotes, j) < first + (k - 1)
  <2>1. TAKE j \in Valid(quotes, asOf)
  <2>2. Number(quotes, j) \in Nat
    BY WalkableFacts
  <2> QED
    BY <1>1, <1>7, <2>2
<1> HIDE DEF next
<1>9. \A i \in 1..Len(acc.bars) :
        LET b == acc.bars[i] IN
        /\ b.start = (first + i - 1 + b.gaps) * Duration /\ i + b.gaps <= k - 1 /\ b.gaps <= acc.gaps
        /\ IsBarOf(b, quotes, {j \in Valid(quotes, asOf) : In(b.start, quotes[j])}, asOf)
  BY DEF Walking
<1>10. /\ \A i, h \in 1..Len(acc.bars) : i < h => acc.bars[i].gaps <= acc.bars[h].gaps
       /\ k - 1 < n => Len(acc.bars) + acc.gaps = k - 1
       /\ k - 1 > 0 => Len(acc.bars) > 0 /\ acc.bars[1].gaps = 0
       /\ \A j \in Valid(quotes, asOf) : Number(quotes, j) < first + (k - 1) =>
            \E i \in 1..Len(acc.bars) : In(acc.bars[i].start, quotes[j])
  BY DEF Walking
<1>11. \A i \in 1..Len(next.bars) :
         LET b == next.bars[i] IN
         /\ b.start = (first + i - 1 + b.gaps) * Duration /\ i + b.gaps <= k /\ b.gaps <= next.gaps
         /\ IsBarOf(b, quotes, {j \in Valid(quotes, asOf) : In(b.start, quotes[j])}, asOf)
  <2>1. TAKE i \in 1..Len(next.bars)
  <2>2. next.bars[i] = acc.bars[i] /\ i \in 1..Len(acc.bars)
    BY <1>5
  <2>3. acc.bars[i].gaps \in Nat /\ acc.bars[i].gaps <= acc.gaps /\ i + acc.bars[i].gaps <= k - 1
    BY <1>4, <1>9, <2>2
  <2>4. acc.bars[i].gaps <= next.gaps /\ i + acc.bars[i].gaps <= k
    BY <1>4, <1>5, <2>2, <2>3
  <2> QED
    BY <1>9, <2>2, <2>4
<1>12. ASSUME k < n PROVE Len(next.bars) + next.gaps = k
  <2>1. next.gaps = acc.gaps + 1 /\ Len(next.bars) = Len(acc.bars)
    BY <1>1, <1>5, <1>12
  <2>2. Len(acc.bars) + acc.gaps = k - 1
    BY <1>1, <1>10
  <2>3. k \in Nat /\ Len(acc.bars) \in Nat /\ acc.gaps \in Nat
    BY <1>1, <1>4
  <2> QED
    BY <2>1, <2>2, <2>3
<1>13. Len(next.bars) > 0 /\ next.bars[1].gaps = 0
  BY <1>5, <1>6, <1>10
<1> QED
  BY <1>5, <1>8, <1>10, <1>11, <1>12, <1>13 DEF Walking, next

\* So does a turn over an interval with quotes: its bar comes after the others.
LEMMA BusyTurn ==
  ASSUME NEW quotes, NEW asOf, NEW first, NEW n, Walkable(quotes, asOf, first, n),
         NEW k \in 1..n, NEW acc, Walking(quotes, asOf, first, n, k - 1, acc),
         BucketAt(quotes, asOf, first + k - 1) # {}
  PROVE  Walking(quotes, asOf, first, n, k, Interval(quotes, asOf, acc, (first + k - 1) * Duration))
<1> DEFINE m == first + k - 1
           bucket == Bucket(quotes, asOf, m * Duration)
           bar == Bar(quotes, m * Duration, bucket, asOf, TurnVolume(quotes, bucket, acc), acc.gaps)
           next == Interval(quotes, asOf, acc, m * Duration)
<1>1. /\ asOf \in Nat /\ first \in Nat /\ n \in Nat \ {0} /\ Readable(quotes)
      /\ m \in Nat /\ m <= asOf \div Duration
  BY WalkableFacts, FormingIsLast DEF Walkable
<1>20. m = first + k - 1
  OBVIOUS
<1> HIDE DEF m
<1>2. acc \in Accumulated
  BY DEF Walking
<1>3. next = [gaps |-> acc.gaps, baseline |-> TurnBaseline(quotes, bucket, acc),
              bars |-> Append(acc.bars, bar)]
  <2>1. /\ Bucket(quotes, asOf, m * Duration) = bucket /\ bucket # {}
        /\ next = Interval(quotes, asOf, acc, m * Duration)
    BY <1>20 DEF BucketAt
  <2> HIDE DEF next, bucket
  <2> QED
    BY <2>1, TurnIs
<1>4. acc.bars \in Seq(BarRecord) /\ acc.gaps \in Nat /\ Len(acc.bars) \in Nat
  BY <1>2, BarTypes
<1>5. /\ TurnVolume(quotes, bucket, acc) \in Nat
      /\ TurnBaseline(quotes, bucket, acc) \in Nat \union {NoVolume}
  BY <1>1, <1>2, TurnTypes DEF BucketAt
<1>6. /\ bar \in BarRecord /\ bar.start = m * Duration /\ bar.gaps = acc.gaps
      /\ IsBarOf(bar, quotes, {j \in Valid(quotes, asOf) : In(m * Duration, quotes[j])}, asOf)
  <2>1. bucket # {}
    BY <1>20 DEF BucketAt
  <2>2. PICK volume \in Nat : volume = TurnVolume(quotes, bucket, acc)
    BY <1>5
  <2> DEFINE b == Bar(quotes, m * Duration, bucket, asOf, volume, acc.gaps)
  <2>3. /\ b \in BarRecord /\ b.start = m * Duration /\ b.gaps = acc.gaps
        /\ IsBarOf(b, quotes, {j \in Valid(quotes, asOf) : In(m * Duration, quotes[j])}, asOf)
    <3>1. IsTheBar(b, quotes, asOf, m, volume, acc.gaps)
      BY <1>1, <1>4, <2>1, BarOfBucket
    <3> HIDE DEF b
    <3> QED
      BY <3>1 DEF IsTheBar
  <2>4. bar = b
    BY <2>2
  <2> HIDE DEF bar, b
  <2> QED
    BY <2>3, <2>4
<1> DEFINE last == Len(acc.bars) + 1
<1>7. /\ next \in Accumulated /\ next.gaps = acc.gaps
      /\ Len(next.bars) = last /\ next.bars[last] = bar
      /\ \A i \in 1..Len(acc.bars) : next.bars[i] = acc.bars[i]
  <2> HIDE DEF bar, next, bucket
  <2>1. /\ Append(acc.bars, bar) \in Seq(BarRecord) /\ Len(Append(acc.bars, bar)) = last
        /\ Append(acc.bars, bar)[last] = bar
        /\ \A i \in 1..Len(acc.bars) : Append(acc.bars, bar)[i] = acc.bars[i]
    BY <1>4, <1>6, Appended
  <2> QED
    BY <1>3, <1>4, <1>5, <2>1 DEF Accumulated
<1>8. \A i \in 1..Len(acc.bars) :
        LET b == acc.bars[i] IN
        /\ b.start = (first + i - 1 + b.gaps) * Duration /\ i + b.gaps <= k - 1 /\ b.gaps <= acc.gaps
        /\ IsBarOf(b, quotes, {j \in Valid(quotes, asOf) : In(b.start, quotes[j])}, asOf)
  BY DEF Walking
<1>9. /\ \A i, h \in 1..Len(acc.bars) : i < h => acc.bars[i].gaps <= acc.bars[h].gaps
      /\ Len(acc.bars) + acc.gaps = k - 1
      /\ k - 1 > 0 => Len(acc.bars) > 0 /\ acc.bars[1].gaps = 0
      /\ \A j \in Valid(quotes, asOf) : Number(quotes, j) < first + (k - 1) =>
           \E i \in 1..Len(acc.bars) : In(acc.bars[i].start, quotes[j])
  <2>1. k - 1 < n
    BY <1>1
  <2> QED
    BY <2>1 DEF Walking
<1>10. \A i \in 1..Len(acc.bars) : acc.bars[i].gaps \in Nat
  BY <1>2, BarTypes
<1> HIDE DEF bar, next, bucket
<1>11. m = first + last - 1 + bar.gaps /\ last + bar.gaps = k
  <2>1. k \in Nat /\ Len(acc.bars) \in Nat /\ acc.gaps \in Nat /\ first \in Nat
    BY <1>1, <1>4
  <2>2. bar.gaps = acc.gaps /\ Len(acc.bars) + acc.gaps = k - 1
    BY <1>6, <1>9
  <2>3. PICK length \in Nat : length = Len(acc.bars)
    BY <2>1
  <2>4. PICK gaps \in Nat : gaps = acc.gaps
    BY <2>1
  <2>5. length + gaps = k - 1
    BY <2>2, <2>3, <2>4
  <2>6. m = first + (length + 1) - 1 + gaps /\ length + 1 + gaps = k
    BY <1>20, <2>1, <2>5
  <2> QED
    BY <2>2, <2>3, <2>4, <2>6
<1>12. \A i \in 1..Len(next.bars) :
         LET b == next.bars[i] IN
         /\ b.start = (first + i - 1 + b.gaps) * Duration /\ i + b.gaps <= k /\ b.gaps <= next.gaps
         /\ IsBarOf(b, quotes, {j \in Valid(quotes, asOf) : In(b.start, quotes[j])}, asOf)
  <2>1. TAKE i \in 1..Len(next.bars)
  <2>2. CASE i \in 1..Len(acc.bars)
    <3>1. next.bars[i] = acc.bars[i]
      BY <1>7, <2>2
    <3>2. acc.bars[i].gaps \in Nat /\ acc.bars[i].gaps <= acc.gaps /\ i + acc.bars[i].gaps <= k - 1
      BY <1>8, <1>10, <2>2
    <3>3. acc.bars[i].gaps <= next.gaps /\ i + acc.bars[i].gaps <= k
      BY <1>7, <2>2, <3>2
    <3> QED
      BY <1>8, <2>2, <3>1, <3>3
  <2>3. CASE i = last
    <3>1. next.bars[i] = bar
      BY <1>7, <2>3
    <3>2. bar.start = (first + i - 1 + bar.gaps) * Duration
      BY <1>6, <1>11, <2>3
    <3>3. i + bar.gaps <= k /\ bar.gaps <= next.gaps
      BY <1>4, <1>6, <1>7, <1>11, <2>3
    <3>4. IsBarOf(bar, quotes, {j \in Valid(quotes, asOf) : In(bar.start, quotes[j])}, asOf)
      BY <1>6
    <3> QED
      BY <3>1, <3>2, <3>3, <3>4
  <2>4. i \in 1..Len(acc.bars) \/ i = last
    BY <1>4, <1>7
  <2> QED
    BY <2>2, <2>3, <2>4
<1>13. \A i, h \in 1..Len(next.bars) : i < h => next.bars[i].gaps <= next.bars[h].gaps
  <2>1. TAKE i, h \in 1..Len(next.bars)
  <2>2. HAVE i < h
  <2>3. i \in 1..Len(acc.bars) /\ next.bars[i] = acc.bars[i]
    BY <1>4, <1>7, <2>2
  <2>4. CASE h = last
    <3>1. acc.bars[i].gaps <= acc.gaps
      BY <1>8, <2>3
    <3> QED
      BY <1>6, <1>7, <2>3, <2>4, <3>1
  <2>5. CASE h # last
    <3>1. h \in 1..Len(acc.bars) /\ next.bars[h] = acc.bars[h]
      BY <1>4, <1>7, <2>5
    <3> QED
      BY <1>9, <2>2, <2>3, <3>1
  <2> QED
    BY <2>4, <2>5
<1>14. Len(next.bars) > 0 /\ next.bars[1].gaps = 0
  <2>1. CASE k = 1
    <3>1. Len(acc.bars) = 0 /\ acc.gaps = 0
      BY <1>4, <1>9, <2>1
    <3> QED
      BY <1>6, <1>7, <3>1
  <2>2. CASE k # 1
    <3>1. 1 \in 1..Len(acc.bars) /\ acc.bars[1].gaps = 0
      BY <1>4, <1>9, <2>2
    <3> QED
      BY <1>4, <1>7, <3>1
  <2> QED
    BY <2>1, <2>2
<1>15. \A j \in Valid(quotes, asOf) : Number(quotes, j) < first + k =>
         \E i \in 1..Len(next.bars) : In(next.bars[i].start, quotes[j])
  <2>1. TAKE j \in Valid(quotes, asOf)
  <2>2. HAVE Number(quotes, j) < first + k
  <2>3. Number(quotes, j) \in Nat
    BY WalkableFacts
  <2>4. CASE Number(quotes, j) = m
    <3>1. j \in bucket
      BY <1>1, <2>4, BucketIs DEF BucketAt, bucket, Number
    <3>2. In(m * Duration, quotes[j])
      BY <1>1, <3>1, BucketIs DEF BucketAt, bucket
    <3>3. last \in 1..Len(next.bars)
      BY <1>4, <1>7
    <3> QED
      BY <1>6, <1>7, <3>2, <3>3
  <2>5. CASE Number(quotes, j) # m
    <3>1. Number(quotes, j) < first + (k - 1)
      BY <1>1, <2>2, <2>3, <2>5 DEF m
    <3>2. PICK i \in 1..Len(acc.bars) : In(acc.bars[i].start, quotes[j])
      BY <1>9, <3>1
    <3> QED
      BY <1>4, <1>7, <3>2
  <2> QED
    BY <2>4, <2>5
<1>16. Len(next.bars) + next.gaps = k
  BY <1>4, <1>6, <1>7, <1>11
<1> QED
  BY <1>7, <1>12, <1>13, <1>14, <1>15, <1>16 DEF Walking, next, m

-----------------------------------------------------------------------------
(* The bars of an aggregation.                                             *)

\* What a walk holds on to from turn to turn, it holds in the end.
LEMMA AggregateWalks ==
  ASSUME NEW quotes, Readable(quotes), NEW asOf \in Nat, Valid(quotes, asOf) # {}
  PROVE  \E first, n, g :
           /\ Walkable(quotes, asOf, first, n) /\ WalkedBy(quotes, asOf, first, n, g)
           /\ Aggregate(quotes, asOf) = g[n].bars
           /\ \A k \in 0..n : Walking(quotes, asOf, first, n, k, g[k])
<1> DEFINE first == Number(quotes, Min(Valid(quotes, asOf)))
           n == asOf \div Duration - first + 1
<1>1. Walkable(quotes, asOf, first, n)
  BY DEF Walkable
<1>2. Aggregate(quotes, asOf) = Walk(quotes, asOf, first, n).bars
  BY DEF Aggregate, Number
<1> HIDE DEF first, n
<1>3. n \in Nat \ {0}
  BY <1>1, WalkableFacts
<1>4. PICK g : WalkedBy(quotes, asOf, first, n, g) /\ Walk(quotes, asOf, first, n) = g[n]
  BY <1>3, WalkTurns
<1> DEFINE S == {k \in 0..n : Walking(quotes, asOf, first, n, k, g[k])}
<1>5. 0 \in S
  BY <1>1, <1>3, <1>4, WalkBegins DEF WalkedBy
<1>6. ASSUME NEW k \in 1..n, k - 1 \in S PROVE k \in S
  <2>1. g[k] = Interval(quotes, asOf, g[k - 1], (first + k - 1) * Duration)
    BY <1>4 DEF WalkedBy
  <2>2. Walking(quotes, asOf, first, n, k - 1, g[k - 1])
    BY <1>6
  <2>3. Walking(quotes, asOf, first, n, k, g[k])
    BY <1>1, <2>1, <2>2, QuietTurn, BusyTurn
  <2> QED
    BY <1>3, <2>3
<1>7. \A k \in 0..n : k \in S
  <2> HIDE DEF S
  <2> QED
    BY <1>3, <1>5, <1>6, Counting
<1> QED
  BY <1>1, <1>2, <1>4, <1>7

\* What BarsMatchQuotes asks of one aggregation.
Matches(quotes, asOf, result) ==
  LET valid == {j \in DOMAIN quotes : quotes[j].at <= asOf} IN
  /\ \A j \in valid : \E k \in DOMAIN result : In(result[k].start, quotes[j])
  /\ \A j, k \in DOMAIN result : j < k => result[j].start < result[k].start
  /\ \A k \in DOMAIN result :
       LET b == result[k] IN
       /\ IsBarOf(b, quotes, {j \in valid : In(b.start, quotes[j])}, asOf)
       /\ b.gaps * Duration = b.start - result[1].start - (k - 1) * Duration

\* At the end of a walk every quote up to as_of is counted, in one bar.
LEMMA WalkMatches ==
  ASSUME NEW quotes, NEW asOf, NEW first, NEW n, Walkable(quotes, asOf, first, n),
         NEW acc, Walking(quotes, asOf, first, n, n, acc)
  PROVE  Matches(quotes, asOf, acc.bars)
<1>1. acc \in Accumulated /\ first \in Nat /\ n \in Nat \ {0} /\ asOf \in Nat
  BY WalkableFacts DEF Walking
<1>2. /\ DOMAIN acc.bars = 1..Len(acc.bars) /\ Len(acc.bars) \in Nat
      /\ \A i \in 1..Len(acc.bars) : acc.bars[i].gaps \in Nat
  BY <1>1, BarTypes
<1>3. Valid(quotes, asOf) = {j \in DOMAIN quotes : quotes[j].at <= asOf}
  BY DEF Valid
<1>4. /\ \A i \in 1..Len(acc.bars) :
           /\ acc.bars[i].start = (first + i - 1 + acc.bars[i].gaps) * Duration
           /\ IsBarOf(acc.bars[i], quotes,
                      {j \in Valid(quotes, asOf) : In(acc.bars[i].start, quotes[j])}, asOf)
      /\ \A i, h \in 1..Len(acc.bars) : i < h => acc.bars[i].gaps <= acc.bars[h].gaps
      /\ Len(acc.bars) > 0 /\ acc.bars[1].gaps = 0
      /\ \A j \in Valid(quotes, asOf) : Number(quotes, j) < first + n =>
           \E i \in 1..Len(acc.bars) : In(acc.bars[i].start, quotes[j])
  <2>1. \A i \in 1..Len(acc.bars) :
          /\ acc.bars[i].start = (first + i - 1 + acc.bars[i].gaps) * Duration
          /\ IsBarOf(acc.bars[i], quotes,
                     {j \in Valid(quotes, asOf) : In(acc.bars[i].start, quotes[j])}, asOf)
    BY DEF Walking
  <2>2. \A i, h \in 1..Len(acc.bars) : i < h => acc.bars[i].gaps <= acc.bars[h].gaps
    BY DEF Walking
  <2>3. \A j \in Valid(quotes, asOf) : Number(quotes, j) < first + n =>
          \E i \in 1..Len(acc.bars) : In(acc.bars[i].start, quotes[j])
    BY DEF Walking
  <2>4. Len(acc.bars) > 0 /\ acc.bars[1].gaps = 0
    <3>1. n > 0
      BY <1>1
    <3> QED
      BY <3>1 DEF Walking
  <2> QED
    BY <2>1, <2>2, <2>3, <2>4
<1>5. \A j \in Valid(quotes, asOf) : \E k \in DOMAIN acc.bars : In(acc.bars[k].start, quotes[j])
  BY <1>2, <1>4, WalkableFacts
<1>6. ASSUME NEW j \in DOMAIN acc.bars, NEW k \in DOMAIN acc.bars, j < k
      PROVE  acc.bars[j].start < acc.bars[k].start
  <2>8. /\ acc.bars[j].gaps \in Nat /\ acc.bars[k].gaps \in Nat
        /\ j \in Nat \ {0} /\ k \in Nat \ {0}
    BY <1>2
  <2>1. PICK a \in Nat : a = first + j - 1 + acc.bars[j].gaps
    BY <1>1, <2>8
  <2>2. PICK b \in Nat : b = first + k - 1 + acc.bars[k].gaps
    BY <1>1, <2>8
  <2>3. a < b
    <3>1. acc.bars[j].gaps <= acc.bars[k].gaps /\ acc.bars[j].gaps \in Nat /\ acc.bars[k].gaps \in Nat
      BY <1>2, <1>4, <1>6
    <3>2. j \in Nat /\ k \in Nat
      BY <1>2
    <3> QED
      BY <1>1, <1>6, <2>1, <2>2, <3>1, <3>2
  <2>4. acc.bars[j].start = a * Duration /\ acc.bars[k].start = b * Duration
    BY <1>2, <1>4, <2>1, <2>2
  <2>5. PICK s \in Nat : s = a * Duration
    BY <2>3, Grid
  <2>6. PICK t \in Nat : t = b * Duration
    BY <2>3, Grid
  <2>7. s + Duration <= t /\ Duration \in Nat \ {0}
    BY <2>3, <2>5, <2>6, Grid, BarConstants
  <2> QED
    BY <2>4, <2>5, <2>6, <2>7
<1>7. ASSUME NEW k \in DOMAIN acc.bars
      PROVE  acc.bars[k].gaps * Duration = acc.bars[k].start - acc.bars[1].start - (k - 1) * Duration
  <2>1. PICK d \in Nat : d = Duration
    BY BarConstants
  <2>2. PICK g \in Nat : g = acc.bars[k].gaps
    BY <1>2
  <2>3. PICK e \in Nat : e = k - 1
    BY <1>2
  <2>4. acc.bars[k].start = (first + e + g) * d
    <3>1. first + k - 1 + g = first + e + g
      BY <1>1, <1>2, <2>3
    <3> QED
      BY <1>2, <1>4, <2>1, <2>2, <3>1
  <2>5. acc.bars[1].start = first * d
    <3>1. 1 \in 1..Len(acc.bars) /\ first + 1 - 1 + 0 = first
      BY <1>1, <1>2, <1>4
    <3> QED
      BY <1>4, <2>1, <3>1
  <2>6. (first + e + g) * d - first * d - e * d = g * d
    <3>1. \A x, y, z, u \in Nat : (x + y + z) * u - x * u - y * u = z * u
      OBVIOUS
    <3> QED
      BY <1>1, <3>1
  <2> QED
    BY <2>1, <2>2, <2>3, <2>4, <2>5, <2>6
<1> QED
  BY <1>2, <1>3, <1>4, <1>5, <1>6, <1>7 DEF Matches

\* What is not empty was aggregated from quotes up to as_of.
LEMMA SomethingValid ==
  ASSUME NEW quotes, NEW asOf, Aggregate(quotes, asOf) # <<>>
  PROVE  Valid(quotes, asOf) # {}
BY DEF Aggregate

\* aggregate_quotes_into_bars computes what a bar is, for any reading.
LEMMA AggregateMatches ==
  ASSUME NEW quotes, Readable(quotes), NEW asOf \in Nat, Aggregate(quotes, asOf) # <<>>
  PROVE  Matches(quotes, asOf, Aggregate(quotes, asOf))
<1>1. Valid(quotes, asOf) # {}
  BY SomethingValid
<1>2. PICK first, n, g :
        /\ Walkable(quotes, asOf, first, n) /\ Aggregate(quotes, asOf) = g[n].bars
        /\ \A k \in 0..n : Walking(quotes, asOf, first, n, k, g[k])
  BY <1>1, AggregateWalks
<1>3. Walking(quotes, asOf, first, n, n, g[n])
  <2>1. n \in 0..n
    BY <1>2, WalkableFacts
  <2> QED
    BY <1>2, <2>1
<1> QED
  BY <1>2, <1>3, WalkMatches

-----------------------------------------------------------------------------
(* Volumes.                                                                *)

AllRead(quotes, asOf) == {j \in DOMAIN quotes : quotes[j].at <= asOf /\ quotes[j].volume # NoVolume}
ReadBefore(quotes, asOf, limit) == {j \in AllRead(quotes, asOf) : Number(quotes, j) < limit}
Opening(quotes, read) ==
  {j \in read : IntervalStart(quotes[j].at) = IntervalStart(quotes[Min(read)].at)}
Grows(quotes, read) == \A j, k \in read : j < k => quotes[j].volume <= quotes[k].volume
VolumesOf(result) == [k \in DOMAIN result |-> result[k].volume]
TotalVolume(result) == SumFunction(VolumesOf(result))

\* The baseline is the last reading so far, and what was counted is its growth since the last
\* reading of the first interval that had one.
Counted(quotes, asOf, limit, acc) ==
  LET seen == ReadBefore(quotes, asOf, limit)
      all == AllRead(quotes, asOf)
  IN IF seen = {} THEN acc.baseline = NoVolume /\ TotalVolume(acc.bars) = 0
     ELSE /\ acc.baseline = quotes[Max(seen)].volume
          /\ Grows(quotes, all) =>
               TotalVolume(acc.bars) = acc.baseline - quotes[Max(Opening(quotes, all))].volume

\* The readings of the total are a finite set of positions.
LEMMA ReadingFacts ==
  ASSUME NEW quotes, Readable(quotes), NEW asOf \in Nat
  PROVE  LET all == AllRead(quotes, asOf) IN
         /\ all \subseteq 1..Len(quotes) /\ all \subseteq Valid(quotes, asOf) /\ Len(quotes) \in Nat
         /\ \A j \in all : quotes[j].volume \in Nat /\ quotes[j].at \in Nat /\ Number(quotes, j) \in Nat
         /\ \A j, k \in all : j <= k => Number(quotes, j) <= Number(quotes, k)
         /\ \A j, k \in all : Number(quotes, j) < Number(quotes, k) => j < k
<1> DEFINE all == AllRead(quotes, asOf)
<1>1. all \subseteq 1..Len(quotes) /\ all \subseteq Valid(quotes, asOf) /\ Len(quotes) \in Nat
  BY ReadFacts DEF AllRead, Valid
<1>2. \A j \in all : quotes[j].volume \in Nat /\ quotes[j].at \in Nat
  <2>1. TAKE j \in all
  <2>2. quotes[j].volume # NoVolume
    BY DEF AllRead
  <2> QED
    BY <1>1, <2>2, ReadFacts
<1>3. \A j \in all : Number(quotes, j) \in Nat
  BY <1>2, Division DEF Number
<1>4. ASSUME NEW j \in all, NEW k \in all, j <= k PROVE Number(quotes, j) <= Number(quotes, k)
  <2>1. quotes[j].at <= quotes[k].at
    BY <1>1, <1>4, ReadFacts
  <2> QED
    BY <1>2, <2>1, LaterInterval DEF Number
<1>5. ASSUME NEW j \in all, NEW k \in all, Number(quotes, j) < Number(quotes, k) PROVE j < k
  <2>1. j \in Nat /\ k \in Nat
    BY <1>1
  <2>2. CASE k <= j
    <3>1. Number(quotes, k) <= Number(quotes, j)
      BY <1>4, <2>2
    <3> QED
      BY <1>3, <1>5, <3>1
  <2> QED
    BY <2>1, <2>2
<1> QED
  BY <1>1, <1>2, <1>3, <1>4, <1>5

\* How to recognise the largest member.
LEMMA MaxIs ==
  ASSUME NEW S, S \subseteq Nat, NEW x \in S, \A y \in S : y <= x
  PROVE  Max(S) = x
<1>1. \E z \in S : \A y \in S : z >= y
  OBVIOUS
<1>2. Max(S) \in S /\ \A y \in S : Max(S) >= y
  BY <1>1 DEF Max
<1>3. Max(S) \in Nat /\ x \in Nat /\ Max(S) >= x /\ Max(S) <= x
  BY <1>2
<1> QED
  BY <1>3

\* No bars, no volume.
LEMMA TotalOfNone == TotalVolume(<<>>) = 0
<1>1. VolumesOf(<<>>) = [k \in {} |-> <<>>[k].volume] /\ DOMAIN VolumesOf(<<>>) = {}
  BY DEF VolumesOf
<1>2. TotalVolume(<<>>) = SumFunctionOnSet(VolumesOf(<<>>), {})
  BY <1>1 DEF TotalVolume, SumFunction
<1> QED
  BY <1>2, SumSplit, FS_EmptySet

\* Another bar adds its volume.
LEMMA TotalGrows ==
  ASSUME NEW result \in Seq(BarRecord), NEW bar \in BarRecord
  PROVE  /\ TotalVolume(result) \in Int
         /\ TotalVolume(Append(result, bar)) = TotalVolume(result) + bar.volume
<1> DEFINE m == Len(result)
           f == VolumesOf(result)
           next == Append(result, bar)
           g == VolumesOf(next)
<1>1. /\ m \in Nat /\ DOMAIN result = 1..m /\ DOMAIN next = 1..(m + 1)
      /\ next[m + 1] = bar /\ \A k \in 1..m : next[k] = result[k]
  BY Appended
<1>2. \A k \in 1..m : result[k].volume \in Nat
  <2>1. \A k \in 1..m : result[k] \in BarRecord
    OBVIOUS
  <2> QED
    BY <2>1 DEF BarRecord
<1>3. bar.volume \in Nat
  BY DEF BarRecord
<1> HIDE DEF next, m
<1>4. /\ DOMAIN f = 1..m /\ DOMAIN g = 1..(m + 1)
      /\ \A k \in 1..m : f[k] = result[k].volume
      /\ \A k \in 1..(m + 1) : g[k] = next[k].volume
  BY <1>1 DEF VolumesOf
<1> HIDE DEF f, g
<1>5. TotalVolume(result) = SumFunctionOnSet(f, 1..m) /\ TotalVolume(next) = SumFunctionOnSet(g, 1..(m + 1))
  BY <1>4 DEF TotalVolume, SumFunction, f, g
<1>6. /\ g[m + 1] = bar.volume /\ g[m + 1] \in Int
      /\ \A k \in 1..m : f[k] \in Int /\ g[k] = f[k]
  BY <1>1, <1>2, <1>3, <1>4
<1>7. IsFiniteSet(1..m)
  BY <1>1, FS_Interval
<1>8. /\ SumFunctionOnSet(g, 1..m) \in Int
      /\ SumFunctionOnSet(g, 1..(m + 1)) = SumFunctionOnSet(g, 1..m) + g[m + 1]
  <2>1. \A k \in 1..(m + 1) : g[k] \in Int
    <3>1. \A k \in 1..m : g[k] \in Int
      BY <1>6
    <3>2. 1..(m + 1) = (1..m) \union {m + 1}
      BY <1>1
    <3> QED
      BY <1>6, <3>1, <3>2
  <2> QED
    BY <1>1, <2>1, SumStep
<1>9. SumFunctionOnSet(g, 1..m) = SumFunctionOnSet(f, 1..m)
  BY <1>6, <1>7, SumSame
<1> QED
  BY <1>5, <1>6, <1>8, <1>9 DEF next

\* Before the first turn no reading was counted.
LEMMA CountedBegins ==
  ASSUME NEW quotes, NEW asOf, NEW first, NEW n, Walkable(quotes, asOf, first, n)
  PROVE  Counted(quotes, asOf, first, Unwalked)
<1>1. Readable(quotes) /\ asOf \in Nat /\ first \in Nat
  BY WalkableFacts DEF Walkable
<1>2. \A j \in AllRead(quotes, asOf) : ~(Number(quotes, j) < first)
  <2>1. TAKE j \in AllRead(quotes, asOf)
  <2>2. j \in Valid(quotes, asOf)
    BY <1>1, ReadingFacts
  <2> QED
    BY <1>1, <2>2, WalkableFacts
<1>3. ReadBefore(quotes, asOf, first) = {}
  BY <1>2 DEF ReadBefore
<1> QED
  BY <1>3, TotalOfNone DEF Counted, Unwalked

\* A turn counts the growth of the total since the baseline, and moves the baseline.
LEMMA CountedTurn ==
  ASSUME NEW quotes, Readable(quotes), NEW asOf \in Nat, NEW m \in Nat, m <= asOf \div Duration,
         NEW acc \in Accumulated, Counted(quotes, asOf, m, acc)
  PROVE  Counted(quotes, asOf, m + 1, Interval(quotes, asOf, acc, m * Duration))
<1> DEFINE bucket == Bucket(quotes, asOf, m * Duration)
           all == AllRead(quotes, asOf)
           seen == ReadBefore(quotes, asOf, m)
           read == {j \in bucket : quotes[j].volume # NoVolume}
           after == ReadBefore(quotes, asOf, m + 1)
           next == Interval(quotes, asOf, acc, m * Duration)
<1>1. /\ all \subseteq 1..Len(quotes) /\ all \subseteq Valid(quotes, asOf) /\ Len(quotes) \in Nat
      /\ \A j \in all : quotes[j].volume \in Nat /\ quotes[j].at \in Nat /\ Number(quotes, j) \in Nat
      /\ \A j, k \in all : j <= k => Number(quotes, j) <= Number(quotes, k)
      /\ \A j, k \in all : Number(quotes, j) < Number(quotes, k) => j < k
  BY ReadingFacts
<1>2. read = {j \in all : Number(quotes, j) = m}
  <2>1. bucket = {j \in Valid(quotes, asOf) : quotes[j].at \div Duration = m}
    BY BucketIs
  <2> QED
    BY <2>1 DEF AllRead, Valid, Number
<1>3. seen = {j \in all : Number(quotes, j) < m} /\ after = {j \in all : Number(quotes, j) < m + 1}
  BY DEF ReadBefore
<1>4. after = seen \union read
  BY <1>1, <1>2, <1>3
<1>5. /\ acc.bars \in Seq(BarRecord) /\ acc.gaps \in Nat
      /\ acc.baseline \in Nat \union {NoVolume}
  BY DEF Accumulated
<1>6. TurnVolume(quotes, bucket, acc) = IF read = {} THEN 0 ELSE Volume(acc.baseline, quotes[Max(read)].volume)
  BY DEF TurnVolume
<1>7. next.baseline = IF read = {} THEN acc.baseline ELSE quotes[Max(read)].volume
  <2>1. CASE bucket = {}
    <3>1. read = {}
      BY <2>1
    <3>2. next = acc \/ next = [acc EXCEPT !.gaps = acc.gaps + 1]
      BY <2>1, TurnIs
    <3>3. [acc EXCEPT !.gaps = acc.gaps + 1].baseline = acc.baseline
      BY DEF Accumulated
    <3> QED
      BY <3>1, <3>2, <3>3
  <2>2. CASE bucket # {}
    <3>1. next.baseline = TurnBaseline(quotes, bucket, acc)
      BY <2>2, TurnIs
    <3> QED
      BY <3>1 DEF TurnBaseline
  <2> QED
    BY <2>1, <2>2
<1>8. /\ TotalVolume(next.bars) = TotalVolume(acc.bars) + TurnVolume(quotes, bucket, acc)
      /\ TotalVolume(acc.bars) \in Int
  <2>1. TotalVolume(acc.bars) \in Int
    <3>1. \E bar : bar \in BarRecord
      <4> DEFINE bar == [start |-> 0, open |-> 0, close |-> 0, high |-> 0, low |-> 0,
                         closed |-> TRUE, count |-> 0, volume |-> 0, gaps |-> 0]
      <4>1. bar \in BarRecord
        BY DEF BarRecord
      <4> HIDE DEF bar
      <4> QED
        BY <4>1
    <3> QED
      BY <1>5, <3>1, TotalGrows
  <2>2. CASE bucket = {}
    <3>1. read = {}
      BY <2>2
    <3>2. next = acc \/ next = [acc EXCEPT !.gaps = acc.gaps + 1]
      BY <2>2, TurnIs
    <3>3. [acc EXCEPT !.gaps = acc.gaps + 1].bars = acc.bars
      BY DEF Accumulated
    <3>4. next.bars = acc.bars
      BY <3>2, <3>3
    <3> QED
      BY <1>6, <2>1, <3>1, <3>4
  <2>3. CASE bucket # {}
    <3>1. PICK volume \in Nat : volume = TurnVolume(quotes, bucket, acc)
      BY TurnTypes DEF BucketAt
    <3>2. PICK bar : bar = Bar(quotes, m * Duration, bucket, asOf, volume, acc.gaps)
      OBVIOUS
    <3>3. bar \in BarRecord /\ bar.volume = volume
      <4>1. IsTheBar(Bar(quotes, m * Duration, bucket, asOf, volume, acc.gaps),
                     quotes, asOf, m, volume, acc.gaps)
        BY <1>5, <2>3, BarOfBucket
      <4> QED
        BY <3>2, <4>1 DEF IsTheBar
    <3>4. next.bars = Append(acc.bars, bar)
      BY <2>3, <3>1, <3>2, TurnIs
    <3> QED
      BY <1>5, <2>1, <3>1, <3>3, <3>4, TotalGrows
  <2> QED
    BY <2>1, <2>2, <2>3
<1>9. IF seen = {} THEN acc.baseline = NoVolume /\ TotalVolume(acc.bars) = 0
      ELSE /\ acc.baseline = quotes[Max(seen)].volume
           /\ Grows(quotes, all) =>
                TotalVolume(acc.bars) = acc.baseline - quotes[Max(Opening(quotes, all))].volume
  BY DEF Counted
<1> HIDE DEF bucket, all, seen, read, after, next
<1>20. all \subseteq 0..Len(quotes) /\ all \subseteq Nat
  <2>1. 1..Len(quotes) \subseteq 0..Len(quotes) /\ 0..Len(quotes) \subseteq Nat
    BY <1>1
  <2> QED
    BY <1>1, <2>1
<1>21. read \subseteq all /\ seen \subseteq all /\ after \subseteq all
  BY <1>2, <1>3
<1>10. CASE read = {}
  <2>1. after = seen
    BY <1>4, <1>10
  <2>2. next.baseline = acc.baseline /\ TotalVolume(next.bars) = TotalVolume(acc.bars)
    BY <1>6, <1>7, <1>8, <1>10
  <2> QED
    BY <1>9, <2>1, <2>2 DEF Counted, all, after, next
<1>11. CASE read # {}
  <2>1. /\ read \subseteq 0..Len(quotes) /\ read \subseteq all
    BY <1>20, <1>21
  <2>2. PICK last : last = Max(read) /\ last \in read /\ \A j \in read : j <= last
    BY <1>1, <1>11, <2>1, LargestMember
  <2>3. \A j \in after : j <= last
    <3>1. TAKE j \in after
    <3>2. CASE j \in read
      BY <2>2, <3>2
    <3>3. CASE j \in seen
      <4>1. j \in all /\ last \in all /\ Number(quotes, j) < Number(quotes, last)
        BY <1>2, <1>3, <2>2, <3>3
      <4>2. j < last /\ j \in Nat /\ last \in Nat
        BY <1>1, <4>1
      <4> QED
        BY <4>2
    <3> QED
      BY <1>4, <3>2, <3>3
  <2>4. Max(after) = last
    <3>1. after \subseteq Nat /\ last \in after
      BY <1>4, <1>20, <1>21, <2>2
    <3> QED
      BY <2>3, <3>1, MaxIs
  <2>5. PICK latest \in Nat : latest = quotes[last].volume
    BY <1>1, <2>1, <2>2
  <2>6. /\ after # {} /\ next.baseline = latest /\ next.baseline = quotes[Max(after)].volume
        /\ TotalVolume(next.bars) = TotalVolume(acc.bars) + Volume(acc.baseline, latest)
    BY <1>4, <1>6, <1>7, <1>8, <1>11, <2>2, <2>4, <2>5
  <2>7. ASSUME Grows(quotes, all)
        PROVE  TotalVolume(next.bars) = latest - quotes[Max(Opening(quotes, all))].volume
    <3>1. CASE seen = {}
      <4>1. Volume(acc.baseline, latest) = 0 /\ TotalVolume(acc.bars) = 0
        BY <1>9, <3>1 DEF Volume
      <4>2. PICK earliest : earliest = Min(all) /\ earliest \in all /\ \A j \in all : earliest <= j
        <5>1. all \subseteq Nat /\ all # {}
          BY <1>1, <2>1, <2>2
        <5> QED
          BY <5>1, SmallestMember
      <4>3. Number(quotes, earliest) = m
        <5>1. Number(quotes, earliest) <= Number(quotes, last) /\ Number(quotes, last) = m
          BY <1>1, <1>2, <2>1, <2>2, <4>2
        <5>2. ~(Number(quotes, earliest) < m)
          BY <1>3, <3>1, <4>2
        <5> QED
          BY <1>1, <4>2, <5>1, <5>2
      <4>4. \A j \in all : IntervalStart(quotes[j].at) = IntervalStart(quotes[earliest].at)
                             <=> Number(quotes, j) = m
        <5>1. TAKE j \in all
        <5>2. IntervalStart(quotes[earliest].at) = m * Duration
          BY <1>1, <4>2, <4>3, SameStart DEF Number
        <5> QED
          BY <1>1, <5>2, SameStart DEF Number
      <4>5. Opening(quotes, all) = read
        BY <1>2, <4>2, <4>4 DEF Opening
      <4>6. Max(Opening(quotes, all)) = last
        BY <2>2, <4>5
      <4>7. TotalVolume(next.bars) = 0 /\ latest - latest = 0
        BY <2>6, <4>1
      <4> QED
        BY <2>5, <4>6, <4>7
    <3>2. CASE seen # {}
      <4>1. seen \subseteq 0..Len(quotes) /\ seen \subseteq all
        BY <1>20, <1>21
      <4>2. PICK before : before = Max(seen) /\ before \in seen
        BY <1>1, <3>2, <4>1, LargestMember
      <4>3. Number(quotes, before) < Number(quotes, last) /\ before \in all /\ last \in all
        BY <1>2, <1>3, <2>2, <4>2
      <4>4. before < last
        BY <1>1, <4>3
      <4>5. quotes[before].volume <= latest
        BY <2>5, <2>7, <4>3, <4>4 DEF Grows
      <4>6. acc.baseline = quotes[before].volume /\ acc.baseline \in Nat
        BY <1>1, <1>9, <3>2, <4>2, <4>3
      <4>7. Volume(acc.baseline, latest) = latest - acc.baseline
        <5>1. acc.baseline # NoVolume /\ latest >= acc.baseline
          BY <2>5, <4>5, <4>6 DEF NoVolume
        <5> QED
          BY <5>1 DEF Volume
      <4>8. TotalVolume(acc.bars) = acc.baseline - quotes[Max(Opening(quotes, all))].volume
        BY <1>9, <2>7, <3>2
      <4>9. PICK start : start = quotes[Max(Opening(quotes, all))].volume
        OBVIOUS
      <4>10. start \in Nat
        <5>1. Opening(quotes, all) \subseteq all /\ Opening(quotes, all) \subseteq 0..Len(quotes)
          <6>1. Opening(quotes, all) \subseteq all
            BY DEF Opening
          <6> QED
            BY <1>20, <6>1
        <5>2. Opening(quotes, all) # {}
          <6>1. all \subseteq Nat /\ all # {}
            BY <1>1, <4>3
          <6>2. Min(all) \in all
            BY <6>1, SmallestMember
          <6> QED
            BY <6>2 DEF Opening
        <5>3. Max(Opening(quotes, all)) \in Opening(quotes, all)
          BY <1>1, <5>1, <5>2, LargestMember
        <5> QED
          BY <1>1, <4>9, <5>1, <5>3
      <4> QED
        BY <1>8, <2>5, <2>6, <4>6, <4>7, <4>8, <4>9, <4>10
    <3> QED
      BY <3>1, <3>2
  <2> QED
    BY <2>6, <2>7 DEF Counted, all, after, next
<1> QED
  BY <1>10, <1>11

\* What VolumeAccountedFor asks of one aggregation.
Accounted(quotes, asOf, result) ==
  LET read == AllRead(quotes, asOf) IN
  /\ \A k \in DOMAIN result : result[k].volume >= 0
  /\ read # {} /\ Grows(quotes, read) =>
       TotalVolume(result) = quotes[Max(read)].volume - quotes[Max(Opening(quotes, read))].volume

\* aggregate_quotes_into_bars loses no volume and counts none twice, for any reading.
LEMMA AggregateAccounts ==
  ASSUME NEW quotes, Readable(quotes), NEW asOf \in Nat, Aggregate(quotes, asOf) # <<>>
  PROVE  /\ Accounted(quotes, asOf, Aggregate(quotes, asOf))
         /\ Aggregate(quotes, asOf) \in Seq(BarRecord)
<1>1. Valid(quotes, asOf) # {}
  BY SomethingValid
<1>2. PICK first, n, g :
        /\ Walkable(quotes, asOf, first, n) /\ WalkedBy(quotes, asOf, first, n, g)
        /\ Aggregate(quotes, asOf) = g[n].bars
        /\ \A k \in 0..n : Walking(quotes, asOf, first, n, k, g[k])
  BY <1>1, AggregateWalks
<1>3. first \in Nat /\ n \in Nat \ {0} /\ \A k \in 0..n : g[k] \in Accumulated
  BY <1>2, WalkableFacts DEF Walking
<1> DEFINE S == {k \in 0..n : Counted(quotes, asOf, first + k, g[k])}
<1>4. 0 \in S
  <2>1. first + 0 = first
    BY <1>3
  <2> QED
    BY <1>2, <1>3, <2>1, CountedBegins DEF WalkedBy
<1>5. ASSUME NEW k \in 1..n, k - 1 \in S PROVE k \in S
  <2>1. PICK m \in Nat : m = first + k - 1
    BY <1>3
  <2>2. m <= asOf \div Duration
    BY <1>2, <2>1, FormingIsLast
  <2>3. first + (k - 1) = m /\ first + k = m + 1
    BY <1>3, <2>1
  <2>4. Counted(quotes, asOf, m, g[k - 1])
    BY <1>5, <2>3
  <2>5. g[k - 1] \in Accumulated
    BY <1>3
  <2>6. g[k] = Interval(quotes, asOf, g[k - 1], m * Duration)
    BY <1>2, <2>1 DEF WalkedBy
  <2>7. Counted(quotes, asOf, m + 1, g[k])
    BY <2>2, <2>4, <2>5, <2>6, CountedTurn
  <2> QED
    BY <1>3, <2>3, <2>7
<1>6. Counted(quotes, asOf, first + n, g[n])
  <2>1. \A k \in 0..n : k \in S
    <3> HIDE DEF S
    <3> QED
      BY <1>3, <1>4, <1>5, Counting
  <2>2. n \in 0..n
    BY <1>3
  <2> QED
    BY <2>1, <2>2
<1>7. ReadBefore(quotes, asOf, first + n) = AllRead(quotes, asOf)
  <2>1. \A j \in AllRead(quotes, asOf) : Number(quotes, j) < first + n
    BY <1>2, ReadingFacts, WalkableFacts
  <2> QED
    BY <2>1 DEF ReadBefore
<1>8. g[n] \in Accumulated
  BY <1>3
<1>9. \A k \in DOMAIN g[n].bars : g[n].bars[k].volume >= 0
  BY <1>8, BarTypes
<1> QED
  BY <1>2, <1>6, <1>7, <1>8, <1>9, BarTypes DEF Counted, Accounted

-----------------------------------------------------------------------------
(* The rows behind a reading.                                              *)

\* The rows a caller got to read, and those of an interval that it counts, by their positions.
Recent(table, seen, asOf) == {i \in 1..seen : table[i].at >= Since(asOf)}
HeldBy(table, seen, asOf, start) ==
  {i \in Recent(table, seen, asOf) : table[i].at <= asOf /\ In(start, table[i])}

\* The rows come in the order of their source timestamps, each of them once.
Picks(table, seen, asOf, s) ==
  LET n == Cardinality(Recent(table, seen, asOf)) IN
  /\ s \in [1..n -> Recent(table, seen, asOf)] /\ IsInjective(s)
  /\ \A i \in 1..(n - 1) : table[s[i]].at <= table[s[i + 1]].at
ReadingOf(read, table, seen, asOf) ==
  \E s : /\ Picks(table, seen, asOf, s)
         /\ read = [i \in 1..Cardinality(Recent(table, seen, asOf)) |-> table[s[i]]]

\* What the lookback covers is a finite set of rows.
LEMMA RecentIs ==
  ASSUME NEW table \in Seq(Quotes), NEW seen \in 0..Len(table), NEW asOf
  PROVE  /\ IsFiniteSet(Recent(table, seen, asOf)) /\ Cardinality(Recent(table, seen, asOf)) \in Nat
         /\ Recent(table, seen, asOf) \subseteq 1..Len(table)
         /\ \A i \in 1..Len(table) : table[i] \in Quotes /\ table[i].at \in Nat
<1>1. Len(table) \in Nat /\ seen \in Nat /\ 1..seen \subseteq 1..Len(table)
  OBVIOUS
<1>2. IsFiniteSet(1..seen)
  BY <1>1, FS_Interval
<1>3. Recent(table, seen, asOf) \subseteq 1..seen
  BY DEF Recent
<1>4. IsFiniteSet(Recent(table, seen, asOf))
  BY <1>2, <1>3, FS_Subset
<1>5. \A i \in 1..Len(table) : table[i] \in Quotes
  OBVIOUS
<1>6. \A i \in 1..Len(table) : table[i].at \in Nat
  BY <1>5 DEF Quotes
<1> QED
  BY <1>1, <1>3, <1>4, <1>5, <1>6, FS_CardinalityType

\* Neighbours in order, all in order.
LEMMA PicksInOrder ==
  ASSUME NEW table \in Seq(Quotes), NEW seen \in 0..Len(table), NEW asOf,
         NEW s, Picks(table, seen, asOf, s)
  PROVE  \A i, j \in 1..Cardinality(Recent(table, seen, asOf)) :
           i <= j => table[s[i]].at <= table[s[j]].at
<1>1. PICK n \in Nat : n = Cardinality(Recent(table, seen, asOf))
  BY RecentIs
<1> DEFINE At(i) == table[s[i]].at
           S == {d \in 0..n : \A i \in 1..n : i + d <= n => At(i) <= At(i + d)}
<1>2. \A i \in 1..n : At(i) \in Nat
  <2>1. TAKE i \in 1..n
  <2>2. s[i] \in Recent(table, seen, asOf)
    BY <1>1 DEF Picks
  <2> QED
    BY <2>2, RecentIs
<1>3. \A i \in 1..(n - 1) : At(i) <= At(i + 1)
  BY <1>1 DEF Picks
<1> HIDE DEF At
<1>4. 0 \in S
  <2>1. \A i \in 1..n : i + 0 = i /\ At(i) <= At(i)
    BY <1>2
  <2> QED
    BY <2>1
<1>5. ASSUME NEW d \in 1..n, d - 1 \in S PROVE d \in S
  <2>1. ASSUME NEW i \in 1..n, i + d <= n PROVE At(i) <= At(i + d)
    <3>1. i + (d - 1) \in 1..(n - 1) /\ i + (d - 1) <= n /\ i + (d - 1) + 1 = i + d
      BY <2>1
    <3>2. At(i) <= At(i + (d - 1))
      BY <1>5, <3>1
    <3>3. At(i + (d - 1)) <= At(i + d)
      BY <1>3, <3>1
    <3>4. At(i) \in Nat /\ At(i + (d - 1)) \in Nat /\ At(i + d) \in Nat
      BY <1>2, <2>1, <3>1
    <3> QED
      BY <3>2, <3>3, <3>4
  <2> QED
    BY <2>1
<1>6. \A d \in 0..n : d \in S
  <2> HIDE DEF S
  <2> QED
    BY <1>4, <1>5, Counting
<1>7. ASSUME NEW i \in 1..n, NEW j \in 1..n, i <= j PROVE At(i) <= At(j)
  <2>1. j - i \in 0..n /\ i + (j - i) = j /\ j <= n
    BY <1>7
  <2> QED
    BY <1>6, <2>1
<1> QED
  BY <1>1, <1>7 DEF At

\* Whatever order the database chose, the quotes are ordered by source timestamp.
LEMMA ReadingIsReadable ==
  ASSUME NEW table \in Seq(Quotes), NEW seen \in 0..Len(table), NEW asOf,
         NEW read, ReadingOf(read, table, seen, asOf)
  PROVE  Readable(read)
<1>1. PICK s : /\ Picks(table, seen, asOf, s)
               /\ read = [i \in 1..Cardinality(Recent(table, seen, asOf)) |-> table[s[i]]]
  BY DEF ReadingOf
<1>2. PICK n \in Nat : n = Cardinality(Recent(table, seen, asOf))
  BY RecentIs
<1>3. \A i \in 1..n : table[s[i]] \in Quotes
  <2>1. TAKE i \in 1..n
  <2>2. s[i] \in Recent(table, seen, asOf)
    BY <1>1, <1>2 DEF Picks
  <2> QED
    BY <2>2, RecentIs
<1>4. read = [i \in 1..n |-> table[s[i]]]
  BY <1>1, <1>2
<1>5. read \in Seq(Quotes) /\ DOMAIN read = 1..n
  BY <1>3, <1>4
<1>6. ASSUME NEW j \in DOMAIN read, NEW k \in DOMAIN read, j < k
      PROVE  read[j].at <= read[k].at
  <2>1. j \in 1..n /\ k \in 1..n /\ j <= k
    BY <1>5, <1>6
  <2> QED
    BY <1>1, <1>2, <1>4, <2>1, PicksInOrder
<1> QED
  BY <1>5, <1>6 DEF Readable, Ordered

CountedAt(read, asOf, start) ==
  {j \in {j \in DOMAIN read : read[j].at <= asOf} : In(start, read[j])}

\* What is counted among the quotes is counted among the rows.
LEMMA CountedInRows ==
  ASSUME NEW table \in Seq(Quotes), NEW seen \in 0..Len(table), NEW asOf \in Nat,
         NEW read, ReadingOf(read, table, seen, asOf), NEW start
  PROVE  /\ Cardinality(CountedAt(read, asOf, start)) = Cardinality(HeldBy(table, seen, asOf, start))
         /\ CountedAt(read, asOf, start) # {} => HeldBy(table, seen, asOf, start) # {}
         /\ \A i \in HeldBy(table, seen, asOf, start) :
              \E j \in CountedAt(read, asOf, start) : read[j] = table[i]
         /\ IsFiniteSet(HeldBy(table, seen, asOf, start))
<1> DEFINE S == Recent(table, seen, asOf)
           held == HeldBy(table, seen, asOf, start)
           mine == CountedAt(read, asOf, start)
<1>1. PICK s : /\ Picks(table, seen, asOf, s)
               /\ read = [i \in 1..Cardinality(S) |-> table[s[i]]]
  BY DEF ReadingOf
<1>2. PICK n \in Nat : n = Cardinality(S)
  BY RecentIs
<1>3. IsFiniteSet(S)
  BY RecentIs
<1>4. s \in [1..n -> S] /\ \A i, j \in 1..n : s[i] = s[j] => i = j
  BY <1>1, <1>2 DEF Picks, IsInjective
<1>5. \A i \in S : \E j \in 1..n : s[j] = i
  <2>1. s \in Injection(1..n, S)
    BY <1>4 DEF Injection, IsInjective
  <2>2. Cardinality(1..n) = n
    BY <1>2, FS_Interval
  <2>3. s \in Surjection(1..n, S)
    BY <1>2, <1>3, <2>1, <2>2, FS_Injection
  <2> QED
    BY <2>3 DEF Surjection
<1>6. DOMAIN read = 1..n /\ \A j \in 1..n : read[j] = table[s[j]]
  BY <1>1, <1>2
<1>7. \A j \in 1..n : s[j] \in S /\ (j \in mine <=> s[j] \in held)
  BY <1>4, <1>6 DEF HeldBy, CountedAt
<1>8. mine \subseteq 1..n /\ held \subseteq S
  BY <1>6 DEF HeldBy, CountedAt
<1> HIDE DEF S, held, mine
<1>9. IsFiniteSet(held) /\ IsFiniteSet(mine)
  <2>1. IsFiniteSet(1..n)
    BY <1>2, FS_Interval
  <2> QED
    BY <1>3, <1>8, <2>1, FS_Subset
<1> DEFINE f == [j \in mine |-> s[j]]
<1>10. f \in Bijection(mine, held)
  <2>1. f \in [mine -> held] /\ \A j \in mine : f[j] = s[j]
    BY <1>7, <1>8
  <2>2. \A j, k \in mine : f[j] = f[k] => j = k
    BY <1>4, <1>8, <2>1
  <2>3. \A i \in held : \E j \in mine : f[j] = i
    <3>1. TAKE i \in held
    <3>2. PICK j \in 1..n : s[j] = i
      BY <1>5, <1>8
    <3>3. j \in mine
      BY <1>7, <3>2
    <3> QED
      BY <2>1, <3>2, <3>3
  <2> HIDE DEF f
  <2> QED
    BY <2>1, <2>2, <2>3 DEF Bijection, Injection, Surjection, IsInjective
<1>11. Cardinality(mine) = Cardinality(held)
  <2> HIDE DEF f
  <2>1. ExistsBijection(mine, held)
    BY <1>10 DEF ExistsBijection
  <2> QED
    BY <1>9, <2>1, FS_Bijection
<1>12. mine # {} => held # {}
  BY <1>7, <1>8
<1>13. \A i \in held : \E j \in mine : read[j] = table[i]
  <2>1. TAKE i \in held
  <2>2. PICK j \in 1..n : s[j] = i
    BY <1>5, <1>8
  <2> QED
    BY <1>6, <1>7, <2>2
<1> QED
  BY <1>9, <1>11, <1>12, <1>13 DEF mine, held

-----------------------------------------------------------------------------
(* The invariant of the bars.                                              *)

\* The bars of an aggregation begin where intervals begin.
LEMMA StartsOnGrid ==
  ASSUME NEW quotes, Readable(quotes), NEW asOf \in Nat, Aggregate(quotes, asOf) # <<>>
  PROVE  \A k \in DOMAIN Aggregate(quotes, asOf) :
           \E m \in Nat : Aggregate(quotes, asOf)[k].start = m * Duration
<1>1. Valid(quotes, asOf) # {}
  BY SomethingValid
<1>2. PICK first, n, g :
        /\ Walkable(quotes, asOf, first, n) /\ Aggregate(quotes, asOf) = g[n].bars
        /\ \A k \in 0..n : Walking(quotes, asOf, first, n, k, g[k])
  BY <1>1, AggregateWalks
<1>3. n \in 0..n /\ first \in Nat
  BY <1>2, WalkableFacts
<1>4. PICK acc : acc = g[n] /\ Walking(quotes, asOf, first, n, n, acc)
  BY <1>2, <1>3
<1>5. acc \in Accumulated
  BY <1>4 DEF Walking
<1>6. ASSUME NEW k \in DOMAIN acc.bars
      PROVE  \E m \in Nat : acc.bars[k].start = m * Duration
  <2>1. k \in 1..Len(acc.bars) /\ acc.bars[k].gaps \in Nat /\ k \in Nat \ {0}
    BY <1>5, BarTypes
  <2>2. first + k - 1 + acc.bars[k].gaps \in Nat
    BY <1>3, <2>1
  <2>3. acc.bars[k].start = (first + k - 1 + acc.bars[k].gaps) * Duration
    BY <1>4, <2>1 DEF Walking
  <2> QED
    BY <2>2, <2>3
<1> QED
  BY <1>2, <1>4, <1>6

\* A caller at work has aggregated a reading of the rows there were, and judged it by the
\* session of its clock.
AtWork(w, table) ==
  /\ w.asOf \in Nat /\ w.seen \in 0..Len(table)
  /\ ReadingOf(w.read, table, w.seen, w.asOf)
  /\ w.result = Aggregate(w.read, w.asOf) /\ w.result # <<>>
  /\ \E healthy \in BOOLEAN : w.trusted = Trusted(w.result, Open(w.asOf), healthy)

\* A stored bar counts the rows that its caller got to read.
StoredBy(kept, start, table) ==
  /\ start \in Nat /\ kept.seen \in 0..Len(table) /\ kept.asOf \in Nat
  /\ kept.bar.count = Cardinality(HeldBy(table, kept.seen, kept.asOf, start))

BarInv ==
  /\ now \in Nat /\ rows \in Seq(Quotes)
  /\ work = [c \in Callers |-> work[c]]
  /\ \A c \in Busy : AtWork(work[c], rows)
  /\ \A start \in DOMAIN bars : StoredBy(bars[start], start, rows)

\* What is known of a caller at work: its bars are those of the rows it got to read.
LEMMA WorkFacts ==
  ASSUME NEW table \in Seq(Quotes), NEW w, AtWork(w, table)
  PROVE  /\ Readable(w.read) /\ w.asOf \in Nat /\ w.result \in Seq(BarRecord)
         /\ Matches(w.read, w.asOf, w.result) /\ Accounted(w.read, w.asOf, w.result)
         /\ DOMAIN w.result = 1..Len(w.result) /\ Len(w.result) \in Nat
         /\ \A k \in DOMAIN w.result :
              /\ w.result[k].start \in Nat /\ \E m \in Nat : w.result[k].start = m * Duration
              /\ w.result[k].count = Cardinality(HeldBy(table, w.seen, w.asOf, w.result[k].start))
              /\ HeldBy(table, w.seen, w.asOf, w.result[k].start) # {}
<1>1. w.asOf \in Nat /\ w.seen \in 0..Len(table) /\ ReadingOf(w.read, table, w.seen, w.asOf)
  BY DEF AtWork
<1>2. Readable(w.read)
  BY <1>1, ReadingIsReadable
<1>3. w.result = Aggregate(w.read, w.asOf) /\ Aggregate(w.read, w.asOf) # <<>>
  BY DEF AtWork
<1>4. /\ w.result \in Seq(BarRecord)
      /\ Matches(w.read, w.asOf, w.result) /\ Accounted(w.read, w.asOf, w.result)
  BY <1>1, <1>2, <1>3, AggregateMatches, AggregateAccounts
<1>5. DOMAIN w.result = 1..Len(w.result) /\ Len(w.result) \in Nat
  BY <1>4
<1>6. ASSUME NEW k \in DOMAIN w.result
      PROVE  /\ w.result[k].start \in Nat /\ \E m \in Nat : w.result[k].start = m * Duration
             /\ w.result[k].count = Cardinality(HeldBy(table, w.seen, w.asOf, w.result[k].start))
             /\ HeldBy(table, w.seen, w.asOf, w.result[k].start) # {}
  <2>1. w.result[k].start \in Nat
    <3>1. w.result[k] \in BarRecord
      BY <1>4, <1>5
    <3> QED
      BY <3>1 DEF BarRecord
  <2>2. \E m \in Nat : w.result[k].start = m * Duration
    BY <1>1, <1>2, <1>3, StartsOnGrid
  <2>3. PICK mine : mine = CountedAt(w.read, w.asOf, w.result[k].start)
    OBVIOUS
  <2>4. w.result[k].count = Cardinality(mine) /\ mine # {}
    BY <1>4, <2>3 DEF Matches, IsBarOf, CountedAt
  <2>5. /\ Cardinality(mine) = Cardinality(HeldBy(table, w.seen, w.asOf, w.result[k].start))
        /\ mine # {} => HeldBy(table, w.seen, w.asOf, w.result[k].start) # {}
    BY <1>1, <2>3, CountedInRows
  <2> QED
    BY <2>1, <2>2, <2>4, <2>5
<1> QED
  BY <1>1, <1>2, <1>4, <1>5, <1>6

-----------------------------------------------------------------------------
(* The steps.                                                              *)

\* What was read does not depend on the rows that came later.
LEMMA LaterRows ==
  ASSUME NEW old \in Seq(Quotes), NEW new \in Seq(Quotes), Len(old) <= Len(new),
         \A i \in 1..Len(old) : new[i] = old[i], NEW seen \in 0..Len(old), NEW asOf
  PROVE  /\ seen \in 0..Len(new)
         /\ \A start : HeldBy(new, seen, asOf, start) = HeldBy(old, seen, asOf, start)
         /\ \A read : ReadingOf(read, old, seen, asOf) => ReadingOf(read, new, seen, asOf)
<1>1. seen \in 0..Len(new) /\ seen \in Nat /\ Len(old) \in Nat /\ Len(new) \in Nat
  OBVIOUS
<1>2. \A i \in 1..seen : new[i] = old[i]
  BY <1>1
<1>3. Recent(new, seen, asOf) = Recent(old, seen, asOf)
  BY <1>2 DEF Recent
<1>4. Recent(old, seen, asOf) \subseteq 1..seen
  BY DEF Recent
<1>5. \A start : HeldBy(new, seen, asOf, start) = HeldBy(old, seen, asOf, start)
  BY <1>2, <1>3, <1>4 DEF HeldBy
<1>6. ASSUME NEW read, ReadingOf(read, old, seen, asOf)
      PROVE  ReadingOf(read, new, seen, asOf)
  <2>1. PICK n \in Nat : n = Cardinality(Recent(old, seen, asOf)) /\ n = Cardinality(Recent(new, seen, asOf))
    BY <1>3, RecentIs
  <2>2. PICK s : Picks(old, seen, asOf, s) /\ read = [i \in 1..n |-> old[s[i]]]
    BY <1>6, <2>1 DEF ReadingOf
  <2>3. s \in [1..n -> Recent(old, seen, asOf)] /\ IsInjective(s)
    BY <2>1, <2>2 DEF Picks
  <2>4. \A i \in 1..n : new[s[i]] = old[s[i]]
    BY <1>2, <1>4, <2>3
  <2>5. read = [i \in 1..n |-> new[s[i]]]
    BY <2>2, <2>4
  <2>6. \A i \in 1..(n - 1) : new[s[i]].at <= new[s[i + 1]].at
    <3>1. TAKE i \in 1..(n - 1)
    <3>2. i \in 1..n /\ i + 1 \in 1..n
      BY <2>1
    <3>3. old[s[i]].at <= old[s[i + 1]].at
      BY <2>1, <2>2 DEF Picks
    <3> QED
      BY <2>4, <3>2, <3>3
  <2>7. Picks(new, seen, asOf, s)
    BY <1>3, <2>1, <2>3, <2>6 DEF Picks
  <2> QED
    BY <2>1, <2>5, <2>7 DEF ReadingOf
<1> QED
  BY <1>1, <1>5, <1>6

\* Another row changes nothing for those who read before it.
LEMMA SaveKeeps ==
  ASSUME BarInv, NEW lag \in Lags, NEW r \in Readouts, now >= lag,
         Save([at |-> now - lag, price |-> r.price, volume |-> r.volume])
  PROVE  BarInv'
<1> DEFINE q == [at |-> now - lag, price |-> r.price, volume |-> r.volume]
<1>1. now \in Nat /\ rows \in Seq(Quotes)
  BY DEF BarInv
<1>2. q \in Quotes
  <2>1. lag \in Int /\ now - lag \in Nat
    BY <1>1, BarConstants
  <2>2. r.price \in Nat /\ r.volume \in Nat \union {NoVolume}
    BY BarConstants
  <2> QED
    BY <2>1, <2>2 DEF Quotes
<1>3. rows' = Append(rows, q) /\ now' = now /\ bars' = bars /\ work' = work
  BY DEF Save
<1> HIDE DEF q
<1>4. /\ rows' \in Seq(Quotes) /\ Len(rows) <= Len(rows')
      /\ \A i \in 1..Len(rows) : rows'[i] = rows[i]
  BY <1>1, <1>2, <1>3, Appended
<1>5. ASSUME NEW c \in Busy' PROVE AtWork(work'[c], rows')
  <2>1. work'[c] = work[c] /\ AtWork(work[c], rows)
    BY <1>3 DEF BarInv, Busy
  <2>2. PICK w : w = work[c]
    OBVIOUS
  <2>3. w.seen \in 0..Len(rows') /\ ReadingOf(w.read, rows', w.seen, w.asOf)
    BY <1>1, <1>4, <2>1, <2>2, LaterRows DEF AtWork
  <2>4. AtWork(w, rows')
    BY <2>1, <2>2, <2>3 DEF AtWork
  <2> QED
    BY <2>1, <2>2, <2>4
<1>6. ASSUME NEW start \in DOMAIN bars' PROVE StoredBy(bars'[start], start, rows')
  <2>1. bars'[start] = bars[start] /\ StoredBy(bars[start], start, rows)
    BY <1>3 DEF BarInv
  <2>2. PICK b : b = bars[start]
    OBVIOUS
  <2>5. b.seen \in 0..Len(rows)
    BY <2>1, <2>2 DEF StoredBy
  <2>3. /\ b.seen \in 0..Len(rows')
        /\ HeldBy(rows', b.seen, b.asOf, start) = HeldBy(rows, b.seen, b.asOf, start)
    <3>1. PICK new, seen, asOf : new = rows' /\ seen = b.seen /\ asOf = b.asOf
      OBVIOUS
    <3>2. /\ new \in Seq(Quotes) /\ Len(rows) <= Len(new) /\ seen \in 0..Len(rows)
          /\ \A i \in 1..Len(rows) : new[i] = rows[i]
      BY <1>4, <2>5, <3>1
    <3>3. seen \in 0..Len(new) /\ \A s : HeldBy(new, seen, asOf, s) = HeldBy(rows, seen, asOf, s)
      BY <1>1, <3>2, LaterRows
    <3>4. HeldBy(new, seen, asOf, start) = HeldBy(rows, seen, asOf, start)
      BY <3>3
    <3> QED
      BY <3>1, <3>3, <3>4
  <2>4. StoredBy(b, start, rows')
    BY <2>1, <2>2, <2>3 DEF StoredBy
  <2> QED
    BY <2>1, <2>2, <2>4
<1> QED
  BY <1>1, <1>3, <1>4, <1>5, <1>6 DEF BarInv

\* A caller begins with a reading of the rows there are.
LEMMA ReadKeeps ==
  ASSUME BarInv, NEW c \in Callers, Read(c)
  PROVE  BarInv'
<1>1. /\ now \in Nat /\ rows \in Seq(Quotes) /\ work = [d \in Callers |-> work[d]]
      /\ \A d \in Busy : AtWork(work[d], rows)
      /\ \A start \in DOMAIN bars : StoredBy(bars[start], start, rows)
  BY DEF BarInv
<1>2. now' = now /\ rows' = rows /\ bars' = bars
  BY DEF Read
<1>3. PICK read \in Readings(now), healthy \in BOOLEAN :
        /\ Aggregate(read, now) # <<>>
        /\ work' = [work EXCEPT ![c] = [asOf |-> now, seen |-> Len(rows),
                      read |-> read, result |-> Aggregate(read, now),
                      trusted |-> Trusted(Aggregate(read, now), Open(now), healthy)]]
  BY DEF Read
<1>4. ReadingOf(read, rows, Len(rows), now)
  BY <1>1 DEF Readings, ReadingOf, Picks, Recent
<1> DEFINE w == [asOf |-> now, seen |-> Len(rows), read |-> read, result |-> Aggregate(read, now),
                 trusted |-> Trusted(Aggregate(read, now), Open(now), healthy)]
<1>5. AtWork(w, rows)
  <2>1. /\ w.asOf = now /\ w.seen = Len(rows) /\ w.read = read /\ w.result = Aggregate(read, now)
        /\ w.trusted = Trusted(Aggregate(read, now), Open(now), healthy)
    OBVIOUS
  <2>2. Len(rows) \in 0..Len(rows)
    BY <1>1
  <2> HIDE DEF w
  <2> QED
    BY <1>1, <1>3, <1>4, <2>1, <2>2 DEF AtWork
<1>6. work' = [work EXCEPT ![c] = w]
  BY <1>3
<1> HIDE DEF w
<1>7. /\ work' = [d \in Callers |-> work'[d]]
      /\ \A d \in Callers : work'[d] = IF d = c THEN w ELSE work[d]
  BY <1>1, <1>6
<1>8. \A d \in Busy' : AtWork(work'[d], rows')
  <2>1. TAKE d \in Busy'
  <2>2. d \in Callers /\ work'[d] # Resting
    BY DEF Busy
  <2>3. CASE d = c
    BY <1>2, <1>5, <1>7, <2>2, <2>3
  <2>4. CASE d # c
    <3>1. work'[d] = work[d] /\ d \in Busy
      BY <1>7, <2>2, <2>4 DEF Busy
    <3> QED
      BY <1>1, <1>2, <3>1
  <2> QED
    BY <2>3, <2>4
<1> QED
  BY <1>1, <1>2, <1>7, <1>8 DEF BarInv

\* The row a caller stores for one of its bars.
LEMMA StoredRow ==
  ASSUME BarInv, NEW c \in Callers, Store(c), NEW start \in DOMAIN bars'
  PROVE  \/ start \in DOMAIN bars /\ bars'[start] = bars[start]
         \/ /\ c \in Busy /\ StoredBy(bars'[start], start, rows)
            /\ bars'[start].seen = work[c].seen /\ bars'[start].asOf = work[c].asOf
<1>1. c \in Busy
  BY DEF Store, Busy
<1>2. rows \in Seq(Quotes) /\ AtWork(work[c], rows)
  BY <1>1 DEF BarInv
<1>3. PICK w : w = work[c] /\ AtWork(w, rows)
  BY <1>2
<1>4. PICK n \in 1..Len(w.result) :
        bars' = [s \in DOMAIN bars \union {w.result[j].start : j \in 1..n} |->
                   IF s \in {w.result[j].start : j \in 1..n}
                   THEN [bar |-> CHOOSE x \in Range(w.result) : x.start = s,
                         seen |-> w.seen, asOf |-> w.asOf]
                   ELSE bars[s]]
  BY <1>3 DEF Store
<1>5. CASE start \notin {w.result[j].start : j \in 1..n}
  BY <1>4, <1>5
<1>6. CASE start \in {w.result[j].start : j \in 1..n}
  <2>1. PICK b : b = CHOOSE x \in Range(w.result) : x.start = start
    OBVIOUS
  <2>2. bars'[start] = [bar |-> b, seen |-> w.seen, asOf |-> w.asOf]
    BY <1>4, <1>6, <2>1
  <2>3. bars'[start].bar = b /\ bars'[start].seen = w.seen /\ bars'[start].asOf = w.asOf
    BY <2>2
  <2>4. DOMAIN w.result = 1..Len(w.result) /\ Len(w.result) \in Nat
    BY <1>2, <1>3, WorkFacts
  <2>5. b \in Range(w.result) /\ b.start = start
    <3>1. PICK j \in 1..n : w.result[j].start = start
      BY <1>6
    <3>2. j \in DOMAIN w.result
      BY <1>4, <2>4
    <3>3. w.result[j] \in Range(w.result)
      BY <3>2 DEF Range
    <3> QED
      BY <2>1, <3>1, <3>3
  <2>6. PICK k \in DOMAIN w.result : b = w.result[k]
    BY <2>5 DEF Range
  <2>7. start \in Nat /\ b.count = Cardinality(HeldBy(rows, w.seen, w.asOf, start))
    BY <1>2, <1>3, <2>5, <2>6, WorkFacts
  <2>8. w.seen \in 0..Len(rows) /\ w.asOf \in Nat
    BY <1>3 DEF AtWork
  <2>9. StoredBy(bars'[start], start, rows)
    BY <2>3, <2>7, <2>8 DEF StoredBy
  <2> QED
    BY <1>1, <1>3, <2>3, <2>9
<1> QED
  BY <1>5, <1>6

\* What is stored counts rows, whoever stores it and however much of it.
LEMMA StoreKeeps ==
  ASSUME BarInv, NEW c \in Callers, Store(c)
  PROVE  BarInv'
<1>1. /\ now \in Nat /\ rows \in Seq(Quotes) /\ work = [d \in Callers |-> work[d]]
      /\ \A d \in Busy : AtWork(work[d], rows)
      /\ \A start \in DOMAIN bars : StoredBy(bars[start], start, rows)
  BY DEF BarInv
<1>2. now' = now /\ rows' = rows /\ work' = [work EXCEPT ![c] = Resting]
  BY DEF Store
<1>3. /\ work' = [d \in Callers |-> work'[d]]
      /\ \A d \in Callers : work'[d] = IF d = c THEN Resting ELSE work[d]
  BY <1>1, <1>2
<1>4. \A d \in Busy' : d \in Busy /\ work'[d] = work[d]
  BY <1>3 DEF Busy
<1>5. \A start \in DOMAIN bars' : StoredBy(bars'[start], start, rows')
  BY <1>1, <1>2, StoredRow
<1> QED
  BY <1>1, <1>2, <1>3, <1>4, <1>5 DEF BarInv

\* Every step keeps the invariant.
LEMMA BarInvKept ==
  ASSUME BarInv, [BarNext]_barVars
  PROVE  BarInv'
<1>1. CASE Pass
  <2>1. /\ now' = now + 1 /\ rows' = rows /\ bars' = bars /\ work' = work
    BY <1>1 DEF Pass
  <2> QED
    BY <2>1 DEF BarInv, Busy
<1>2. CASE UNCHANGED barVars
  BY <1>2 DEF BarInv, Busy, barVars
<1> QED
  BY <1>1, <1>2, SaveKeeps, ReadKeeps, StoreKeeps DEF BarNext

\* The states of the bars: what each caller read, aggregated and stored, at every moment
\* at which the other one may act.
THEOREM BarInvariant == BarSpec => []BarInv
<1>1. BarInit => BarInv
  <2>1. ASSUME BarInit PROVE BarInv
    <3>1. now = 0 /\ rows = <<>> /\ bars = <<>> /\ work = [c \in Callers |-> Resting]
      BY <2>1 DEF BarInit
    <3>2. DOMAIN bars = {} /\ Busy = {}
      BY <3>1 DEF Busy
    <3> QED
      BY <3>1, <3>2 DEF BarInv
  <2> QED
    BY <2>1
<1> QED
  BY <1>1, BarInvKept, PTL DEF BarSpec

\* The walk computes what a bar is, in every state of the system.
THEOREM BarsAreOfTheirQuotes == BarSpec => []BarsMatchQuotes
<1>1. BarInv => BarsMatchQuotes
  <2>1. ASSUME BarInv, NEW c \in Busy PROVE Matches(work[c].read, work[c].asOf, work[c].result)
    <3>1. rows \in Seq(Quotes) /\ AtWork(work[c], rows)
      BY <2>1 DEF BarInv
    <3> QED
      BY <3>1, WorkFacts
  <2> QED
    BY <2>1 DEF Matches, BarsMatchQuotes
<1> QED
  BY <1>1, BarInvariant, PTL

\* No volume is lost at a gap, counted twice or negative, also with quotes that have no
\* reading of the total.
THEOREM VolumeIsAccountedFor == BarSpec => []VolumeAccountedFor
<1>1. BarInv => VolumeAccountedFor
  <2>1. ASSUME BarInv, NEW c \in Busy PROVE Accounted(work[c].read, work[c].asOf, work[c].result)
    <3>1. rows \in Seq(Quotes) /\ AtWork(work[c], rows)
      BY <2>1 DEF BarInv
    <3> QED
      BY <3>1, WorkFacts
  <2> QED
    BY <2>1 DEF Accounted, AllRead, Grows, Opening, TotalVolume, VolumesOf, VolumeAccountedFor
<1> QED
  BY <1>1, BarInvariant, PTL

-----------------------------------------------------------------------------
(* Whole bars.                                                             *)

\* Two starts are a duration apart, or one.
LEMMA GridStep ==
  ASSUME NEW a \in Nat, NEW b \in Nat, a * Duration < b * Duration
  PROVE  a * Duration + Duration <= b * Duration
<1>1. a * Duration \in Nat /\ b * Duration \in Nat
  <2>1. \A x, y \in Nat : x * y \in Nat
    OBVIOUS
  <2> QED
    BY <2>1, BarConstants
<1>2. CASE a < b
  BY <1>2, Grid
<1>3. CASE a = b
  BY <1>1, <1>3
<1>4. CASE b < a
  <2>1. b * Duration + Duration <= a * Duration
    BY <1>4, Grid
  <2>2. Duration \in Nat
    BY BarConstants
  <2> QED
    BY <1>1, <2>1, <2>2
<1> QED
  BY <1>2, <1>3, <1>4

StoredIn(table, seen, start) == {i \in 1..seen : In(start, table[i])}
Begin(table, seen) == IntervalStart(Min({table[j].at : j \in 1..seen}))

\* While the session is open the lookback reaches back to before it.
LEMMA OpenReachesBack ==
  ASSUME NEW table \in Seq(Quotes), NEW seen \in 0..Len(table), NEW asOf \in Nat, Open(asOf)
  PROVE  Recent(table, seen, asOf) = 1..seen
<1>1. Since(asOf) < 0 /\ Since(asOf) \in Int
  BY BarConstants DEF Open, Since
<1>2. \A i \in 1..seen : table[i].at \in Nat
  <2>1. 1..seen \subseteq 1..Len(table)
    OBVIOUS
  <2> QED
    BY <2>1, RecentIs
<1>3. \A i \in 1..seen : table[i].at >= Since(asOf)
  BY <1>1, <1>2
<1> QED
  BY <1>3 DEF Recent

\* A closed bar then counts every row of its interval.
LEMMA ClosedIsWhole ==
  ASSUME NEW table \in Seq(Quotes), NEW w, AtWork(w, table), Open(w.asOf),
         NEW k \in DOMAIN w.result, w.result[k].closed
  PROVE  /\ w.result[k].start + Duration <= w.asOf
         /\ HeldBy(table, w.seen, w.asOf, w.result[k].start)
              = StoredIn(table, w.seen, w.result[k].start)
<1>1. w.asOf \in Nat /\ w.seen \in 0..Len(table)
  BY DEF AtWork
<1>2. w.result[k].start + Duration <= w.asOf
  <2>1. Matches(w.read, w.asOf, w.result)
    BY WorkFacts
  <2> QED
    BY <2>1 DEF Matches, IsBarOf
<1>3. w.result[k].start \in Nat /\ Duration \in Nat
  BY WorkFacts, BarConstants
<1>4. \A i \in 1..w.seen : table[i].at \in Nat
  <2>1. PICK seen \in 0..Len(table) : seen = w.seen
    BY <1>1
  <2>2. 1..seen \subseteq 1..Len(table)
    OBVIOUS
  <2>3. \A i \in 1..Len(table) : table[i].at \in Nat
    BY <1>1, <2>1, RecentIs
  <2> QED
    BY <2>1, <2>2, <2>3
<1>5. PICK start \in Nat : start = w.result[k].start
  BY <1>3
<1>6. \A i \in 1..w.seen : In(start, table[i]) => table[i].at <= w.asOf
  BY <1>1, <1>2, <1>3, <1>4, <1>5 DEF In
<1>7. Recent(table, w.seen, w.asOf) = 1..w.seen
  BY <1>1, OpenReachesBack
<1>8. HeldBy(table, w.seen, w.asOf, start) = StoredIn(table, w.seen, start)
  BY <1>6, <1>7 DEF HeldBy, StoredIn
<1> QED
  BY <1>2, <1>5, <1>8

\* A row before a closed bar is in another closed bar before it.
LEMMA BarBefore ==
  ASSUME NEW table \in Seq(Quotes), NEW w, AtWork(w, table), Open(w.asOf),
         NEW k \in DOMAIN w.result, w.result[k].closed,
         NEW i \in 1..w.seen, table[i].at < w.result[k].start
  PROVE  \E p \in 1..(k - 1) : w.result[p].closed /\ In(w.result[p].start, table[i])
<1>1. /\ w.asOf \in Nat /\ w.seen \in 0..Len(table)
      /\ ReadingOf(w.read, table, w.seen, w.asOf)
  BY DEF AtWork
<1>2. /\ w.result[k].start + Duration <= w.asOf
      /\ w.result[k].start \in Nat /\ Duration \in Nat \ {0}
  BY ClosedIsWhole, WorkFacts, BarConstants
<1>3. PICK t \in Nat : t = table[i].at
  BY <1>1, RecentIs
<1>4. t <= w.asOf
  BY <1>1, <1>2, <1>3
<1>5. i \in HeldBy(table, w.seen, w.asOf, IntervalStart(t))
  <2>1. i \in Recent(table, w.seen, w.asOf)
    BY <1>1, OpenReachesBack
  <2>2. In(IntervalStart(t), table[i])
    BY <1>3, Division DEF In
  <2> QED
    BY <1>3, <1>4, <2>1, <2>2 DEF HeldBy
<1>6. PICK j \in CountedAt(w.read, w.asOf, IntervalStart(t)) : w.read[j] = table[i]
  BY <1>1, <1>5, CountedInRows
<1>7. Matches(w.read, w.asOf, w.result)
  BY WorkFacts
<1>8. j \in {h \in DOMAIN w.read : w.read[h].at <= w.asOf}
  BY <1>6 DEF CountedAt
<1>9. PICK p \in DOMAIN w.result : In(w.result[p].start, w.read[j])
  BY <1>7, <1>8 DEF Matches
<1>10. w.result[p].start <= t
  BY <1>3, <1>6, <1>9 DEF In
<1>11. w.result[p].start + Duration <= w.result[k].start
  <2>1. PICK a \in Nat, b \in Nat : w.result[p].start = a * Duration /\ w.result[k].start = b * Duration
    BY WorkFacts
  <2>2. a * Duration < b * Duration
    <3>1. w.result[p].start \in Nat
      BY WorkFacts
    <3> QED
      BY <1>2, <1>3, <1>10, <2>1, <3>1
  <2> QED
    BY <2>1, <2>2, GridStep
<1>12. w.result[p].closed
  <2>1. w.result[p].start + Duration <= w.asOf
    <3>1. w.result[p].start \in Nat
      BY WorkFacts
    <3> QED
      BY <1>1, <1>2, <1>11, <3>1
  <2> QED
    BY <1>7, <2>1 DEF Matches, IsBarOf
<1>13. p < k
  <2>1. p \in Nat /\ k \in Nat
    BY WorkFacts
  <2>2. w.result[p].start \in Nat
    BY WorkFacts
  <2>3. p # k
    BY <1>2, <1>11, <2>2
  <2>4. ~(k < p)
    <3>1. k < p => w.result[k].start < w.result[p].start
      BY <1>7 DEF Matches
    <3> QED
      BY <1>2, <1>11, <2>2, <3>1
  <2> QED
    BY <2>1, <2>3, <2>4
<1>14. p \in 1..(k - 1)
  BY <1>13, WorkFacts
<1> QED
  BY <1>6, <1>9, <1>12, <1>14

\* A row up to the end of a closed bar is in one of the bars handed over with it, which
\* counts every row of its interval.
LEMMA HandedHolds ==
  ASSUME NEW table \in Seq(Quotes), NEW w, AtWork(w, table), Open(w.asOf),
         NEW k \in DOMAIN w.result, w.result[k].closed,
         NEW i \in 1..w.seen, table[i].at < w.result[k].start + Duration
  PROVE  \E b \in Handed(w.result, w.result[k].start) :
           In(b.start, table[i]) /\ b.count = Cardinality(StoredIn(table, w.seen, b.start))
<1>1. PICK p \in DOMAIN w.result :
        /\ w.result[p].closed /\ w.result[p].start <= w.result[k].start
        /\ In(w.result[p].start, table[i])
  <2>1. CASE table[i].at < w.result[k].start
    <3>1. PICK p \in 1..(k - 1) : w.result[p].closed /\ In(w.result[p].start, table[i])
      BY <2>1, BarBefore
    <3>2. p \in DOMAIN w.result /\ p < k
      BY WorkFacts
    <3>3. w.result[p].start < w.result[k].start
      BY <3>2, WorkFacts DEF Matches
    <3>4. w.result[p].start \in Nat /\ w.result[k].start \in Nat
      BY <3>2, WorkFacts
    <3> QED
      BY <3>1, <3>2, <3>3, <3>4
  <2>2. CASE ~(table[i].at < w.result[k].start)
    <3>1. w.seen \in 0..Len(table) /\ w.result[k].start \in Nat
      BY WorkFacts DEF AtWork
    <3>2. table[i].at \in Nat
      <4>1. PICK seen \in 0..Len(table) : seen = w.seen
        BY <3>1
      <4>2. i \in 1..seen
        BY <4>1
      <4> QED
        BY <4>2, RecentIs
    <3>3. In(w.result[k].start, table[i])
      BY <2>2, <3>1, <3>2 DEF In
    <3> QED
      BY <3>1, <3>3
  <2> QED
    BY <2>1, <2>2
<1>2. w.result[p].count = Cardinality(StoredIn(table, w.seen, w.result[p].start))
  BY <1>1, WorkFacts, ClosedIsWhole
<1>3. w.result[p] \in Handed(w.result, w.result[k].start)
  BY <1>1 DEF Handed, Range
<1> QED
  BY <1>1, <1>2, <1>3

\* What is trusted is whole, and so is what is handed over with it.
LEMMA TrustedFacts ==
  ASSUME NEW table \in Seq(Quotes), NEW w, AtWork(w, table), NEW start \in w.trusted
  PROVE  /\ \A i \in 1..w.seen : table[i].at < start + Duration =>
              \E b \in Handed(w.result, start) :
                In(b.start, table[i]) /\ b.count = Cardinality(StoredIn(table, w.seen, b.start))
         /\ start > Begin(table, w.seen) =>
              Cardinality(StoredIn(table, w.seen, start - Duration)) > 0
         /\ Cardinality(StoredIn(table, w.seen, start)) >= MinimumObservations
<1>1. w.asOf \in Nat /\ w.seen \in 0..Len(table)
  BY DEF AtWork
<1>2. PICK healthy \in BOOLEAN : w.trusted = Trusted(w.result, Open(w.asOf), healthy)
  BY DEF AtWork
<1>3. PICK k \in DOMAIN w.result :
        w.result[k].start = start /\ w.result[k].closed /\ Promoted(w.result, k, Open(w.asOf), healthy)
  BY <1>2 DEF Trusted
<1>4. Open(w.asOf) /\ w.result[k].count >= MinimumObservations
  BY <1>3 DEF Promoted
<1>5. w.result[k].count = Cardinality(StoredIn(table, w.seen, start))
  <2>1. HeldBy(table, w.seen, w.asOf, start) = StoredIn(table, w.seen, start)
    BY <1>3, <1>4, ClosedIsWhole
  <2>2. w.result[k].count = Cardinality(HeldBy(table, w.seen, w.asOf, start))
    BY <1>3, WorkFacts
  <2> QED
    BY <2>1, <2>2
<1>6. ASSUME start > Begin(table, w.seen)
      PROVE  Cardinality(StoredIn(table, w.seen, start - Duration)) > 0
  <2> DEFINE T == {table[j].at : j \in 1..w.seen}
  <2>1. T \subseteq Nat
    BY <1>1, RecentIs
  <2>2. T # {}
    <3>1. HeldBy(table, w.seen, w.asOf, start) # {}
      BY <1>3, WorkFacts
    <3> QED
      BY <3>1 DEF HeldBy, Recent
  <2>3. Min(T) \in T
    <3> HIDE DEF T
    <3> QED
      BY <2>1, <2>2, SmallestMember
  <2>4. PICK i \in 1..w.seen : table[i].at = Min(T)
    BY <2>3
  <2>5. start > IntervalStart(Min(T))
    BY <1>6 DEF Begin
  <2> HIDE DEF T
  <2>6. PICK t \in Nat : t = Min(T)
    BY <2>1, <2>3
  <2>7. t < start
    <3>1. PICK a \in Nat : start = a * Duration
      BY <1>3, WorkFacts
    <3>2. PICK b \in Nat : b = t \div Duration
      BY Division
    <3>3. IntervalStart(t) = b * Duration
      BY <3>2 DEF IntervalStart
    <3>4. t < b * Duration + Duration
      BY <3>3, Division
    <3>5. b * Duration < a * Duration
      BY <2>5, <2>6, <3>1, <3>3
    <3>6. b * Duration + Duration <= a * Duration
      BY <3>5, GridStep
    <3>7. start \in Nat /\ b * Duration + Duration \in Nat
      <4>1. start \in Nat
        BY <1>3, WorkFacts
      <4>2. IntervalStart(t) \in Nat /\ Duration \in Nat
        BY Division, BarConstants
      <4> QED
        BY <3>3, <4>1, <4>2
    <3> QED
      BY <3>1, <3>4, <3>6, <3>7
  <2>8. PICK p \in 1..(k - 1) : w.result[p].closed
    BY <1>3, <1>4, <2>4, <2>6, <2>7, BarBefore
  <2> DEFINE before == {h \in 1..(k - 1) : w.result[h].closed}
  <2>9. k \in Nat /\ k - 1 \in Nat /\ \A h \in 1..(k - 1) : h \in DOMAIN w.result
    BY WorkFacts
  <2>10. before # {} /\ before \subseteq 0..(k - 1)
    BY <2>8, <2>9
  <2>11. start = w.result[Max(before)].start + Duration
    BY <1>3, <2>10 DEF Promoted
  <2>12. Max(before) \in before
    <3> HIDE DEF before
    <3> QED
      BY <2>9, <2>10, LargestMember
  <2>13. PICK h \in DOMAIN w.result : h = Max(before) /\ w.result[h].closed
    BY <2>9, <2>12
  <2> HIDE DEF before
  <2>14. w.result[h].start = start - Duration
    <3>1. w.result[h].start \in Nat /\ Duration \in Nat
      BY WorkFacts, BarConstants
    <3> QED
      BY <2>11, <2>13, <3>1
  <2>15. /\ HeldBy(table, w.seen, w.asOf, start - Duration) # {}
         /\ HeldBy(table, w.seen, w.asOf, start - Duration) = StoredIn(table, w.seen, start - Duration)
    <3>1. /\ HeldBy(table, w.seen, w.asOf, w.result[h].start) # {}
          /\ HeldBy(table, w.seen, w.asOf, w.result[h].start)
               = StoredIn(table, w.seen, w.result[h].start)
      BY <1>4, <2>13, WorkFacts, ClosedIsWhole
    <3> QED
      BY <2>14, <3>1
  <2>16. IsFiniteSet(StoredIn(table, w.seen, start - Duration))
    <3>1. w.seen \in Nat
      BY <1>1
    <3>2. IsFiniteSet(1..w.seen)
      BY <3>1, FS_Interval
    <3>3. StoredIn(table, w.seen, start - Duration) \subseteq 1..w.seen
      BY DEF StoredIn
    <3> QED
      BY <3>2, <3>3, FS_Subset
  <2>17. PICK n \in Nat : n = Cardinality(StoredIn(table, w.seen, start - Duration))
    BY <2>16, FS_CardinalityType
  <2>18. n # 0
    BY <2>15, <2>16, <2>17, FS_EmptySet
  <2> QED
    BY <2>17, <2>18
<1>7. \A i \in 1..w.seen : table[i].at < start + Duration =>
        \E b \in Handed(w.result, start) :
          In(b.start, table[i]) /\ b.count = Cardinality(StoredIn(table, w.seen, b.start))
  BY <1>3, <1>4, HandedHolds
<1> QED
  BY <1>4, <1>3, <1>5, <1>6, <1>7

\* The series a strategy is given lacks nothing that was observed, and the bar it is given
\* for does not follow a gap: for any lookback that covers the session, any phase of it and
\* any order in which rows with equal timestamps come out of the database.  Gaps before
\* earlier bars of the series are not excluded.
THEOREM TrustedSeriesAreWhole == BarSpec => []TrustedSeriesIsWhole
<1>1. BarInv => TrustedSeriesIsWhole
  <2>1. ASSUME BarInv, NEW c \in Busy, NEW start \in work[c].trusted
        PROVE  /\ \A i \in 1..work[c].seen : rows[i].at < start + Duration =>
                    \E b \in Handed(work[c].result, start) :
                      /\ In(b.start, rows[i])
                      /\ b.count = Cardinality(StoredIn(rows, work[c].seen, b.start))
               /\ start > Begin(rows, work[c].seen) =>
                    Cardinality(StoredIn(rows, work[c].seen, start - Duration)) > 0
               /\ Cardinality(StoredIn(rows, work[c].seen, start)) >= MinimumObservations
    <3>1. rows \in Seq(Quotes) /\ AtWork(work[c], rows)
      BY <2>1 DEF BarInv
    <3>2. PICK w : w = work[c]
      OBVIOUS
    <3>3. AtWork(w, rows) /\ start \in w.trusted /\ rows \in Seq(Quotes)
      BY <3>1, <3>2, <2>1
    <3>4. /\ \A i \in 1..w.seen : rows[i].at < start + Duration =>
               \E b \in Handed(w.result, start) :
                 In(b.start, rows[i]) /\ b.count = Cardinality(StoredIn(rows, w.seen, b.start))
          /\ start > Begin(rows, w.seen) =>
               Cardinality(StoredIn(rows, w.seen, start - Duration)) > 0
          /\ Cardinality(StoredIn(rows, w.seen, start)) >= MinimumObservations
      BY <3>3, TrustedFacts
    <3> QED
      BY <3>2, <3>4
  <2> QED
    BY <2>1 DEF TrustedSeriesIsWhole, StoredIn, Begin
<1> QED
  BY <1>1, BarInvariant, PTL

-----------------------------------------------------------------------------
(* Narrower bars.                                                          *)

\* Who read later, and whose lookback still covers the bar, counts no fewer rows of it.
LEMMA LaterCountsMore ==
  ASSUME NEW table \in Seq(Quotes), NEW seen \in 0..Len(table), NEW later \in 0..Len(table),
         NEW asOf \in Nat, NEW then \in Nat, NEW start \in Nat,
         seen <= later, asOf <= then, start >= Since(then)
  PROVE  Cardinality(HeldBy(table, seen, asOf, start)) <= Cardinality(HeldBy(table, later, then, start))
<1>1. \A i \in 1..Len(table) : table[i].at \in Nat
  BY RecentIs
<1>2. Len(table) \in Nat /\ seen \in Nat /\ later \in Nat /\ 1..seen \subseteq 1..later /\ 1..later \subseteq 1..Len(table)
  OBVIOUS
<1>3. Since(then) \in Int
  BY BarConstants DEF Since
<1>4. ASSUME NEW i \in HeldBy(table, seen, asOf, start)
      PROVE  i \in HeldBy(table, later, then, start)
  <2>1. i \in 1..seen /\ table[i].at <= asOf /\ In(start, table[i])
    BY DEF HeldBy, Recent
  <2>2. table[i].at \in Nat /\ i \in 1..later
    BY <1>1, <1>2, <2>1
  <2>3. table[i].at >= start
    BY <2>1 DEF In
  <2>4. table[i].at >= Since(then) /\ table[i].at <= then
    BY <1>3, <2>1, <2>2, <2>3
  <2> QED
    BY <2>1, <2>2, <2>4 DEF HeldBy, Recent
<1>5. IsFiniteSet(HeldBy(table, later, then, start))
  <2>1. HeldBy(table, later, then, start) \subseteq Recent(table, later, then)
    BY DEF HeldBy
  <2>2. IsFiniteSet(Recent(table, later, then))
    BY RecentIs
  <2> QED
    BY <2>1, <2>2, FS_Subset
<1> QED
  BY <1>4, <1>5, FS_Subset

\* A stored bar loses observations to a caller that read earlier, or to a lookback that has
\* moved past its beginning, and to nothing else.
THEOREM BarsNarrowOnlyByARace == BarSpec => NarrowedOnlyByARace
<1> DEFINE Lost(s) == /\ bars'[s].bar.count < bars[s].bar.count
                      /\ ~(bars'[s].seen < bars[s].seen) /\ ~(bars'[s].asOf < bars[s].asOf)
                      /\ ~(s < bars'[s].asOf - Lookback)
<1>1. ASSUME BarInv, [BarNext]_barVars, NEW s \in DOMAIN bars PROVE ~Lost(s)
  <2>1. rows \in Seq(Quotes) /\ StoredBy(bars[s], s, rows)
    BY <1>1 DEF BarInv
  <2>2. PICK old : old = bars[s] /\ StoredBy(old, s, rows)
    BY <2>1
  <2>3. old.bar.count \in Nat /\ s \in Nat /\ old.seen \in 0..Len(rows) /\ old.asOf \in Nat
    <3>1. /\ old.bar.count = Cardinality(HeldBy(rows, old.seen, old.asOf, s))
          /\ s \in Nat /\ old.seen \in 0..Len(rows) /\ old.asOf \in Nat
      BY <2>2 DEF StoredBy
    <3>2. IsFiniteSet(Recent(rows, old.seen, old.asOf))
      BY <2>1, <3>1, RecentIs
    <3>3. IsFiniteSet(HeldBy(rows, old.seen, old.asOf, s))
      <4>1. HeldBy(rows, old.seen, old.asOf, s) \subseteq Recent(rows, old.seen, old.asOf)
        BY DEF HeldBy
      <4> QED
        BY <3>2, <4>1, FS_Subset
    <3> QED
      BY <3>1, <3>3, FS_CardinalityType
  <2>4. CASE bars' = bars
    BY <2>2, <2>3, <2>4
  <2>5. CASE \E c \in Callers : Store(c)
    <3>1. PICK c \in Callers : Store(c)
      BY <2>5
    <3>2. s \in DOMAIN bars'
      BY <3>1 DEF Store
    <3>3. CASE bars'[s] = bars[s]
      BY <2>2, <2>3, <3>3
    <3>4. CASE StoredBy(bars'[s], s, rows)
      <4>1. PICK new : new = bars'[s] /\ StoredBy(new, s, rows)
        BY <3>4
      <4>2. ASSUME ~(new.seen < old.seen), ~(new.asOf < old.asOf), ~(s < new.asOf - Lookback)
            PROVE  ~(new.bar.count < old.bar.count)
        <5>1. /\ new.bar.count = Cardinality(HeldBy(rows, new.seen, new.asOf, s))
              /\ new.seen \in 0..Len(rows) /\ new.asOf \in Nat
          BY <4>1 DEF StoredBy
        <5>2. old.bar.count = Cardinality(HeldBy(rows, old.seen, old.asOf, s))
          BY <2>2 DEF StoredBy
        <5>3. old.seen <= new.seen /\ old.asOf <= new.asOf
          BY <2>3, <4>2, <5>1
        <5>4. s >= Since(new.asOf)
          BY <2>3, <4>2, <5>1, BarConstants DEF Since
        <5>5. Cardinality(HeldBy(rows, old.seen, old.asOf, s)) <= Cardinality(HeldBy(rows, new.seen, new.asOf, s))
          BY <2>1, <2>3, <5>1, <5>3, <5>4, LaterCountsMore
        <5>6. IsFiniteSet(HeldBy(rows, new.seen, new.asOf, s))
          <6>1. HeldBy(rows, new.seen, new.asOf, s) \subseteq Recent(rows, new.seen, new.asOf)
            BY DEF HeldBy
          <6>2. IsFiniteSet(Recent(rows, new.seen, new.asOf))
            BY <2>1, <5>1, RecentIs
          <6> QED
            BY <6>1, <6>2, FS_Subset
        <5>7. PICK n \in Nat : n = new.bar.count
          BY <5>1, <5>6, FS_CardinalityType
        <5> QED
          BY <2>3, <5>1, <5>2, <5>5, <5>7
      <4> QED
        BY <2>2, <4>1, <4>2
    <3> QED
      BY <1>1, <3>1, <3>2, <3>3, <3>4, StoredRow
  <2> QED
    BY <1>1, <2>4, <2>5 DEF BarNext, Pass, Save, Read, barVars
<1>2. BarInv /\ [BarNext]_barVars =>
        [\A s \in DOMAIN bars :
           bars'[s].bar.count < bars[s].bar.count =>
             \/ bars'[s].seen < bars[s].seen
             \/ bars'[s].asOf < bars[s].asOf
             \/ s < bars'[s].asOf - Lookback]_barVars
  BY <1>1
<1> QED
  BY <1>2, BarInvariant, PTL DEF BarSpec, NarrowedOnlyByARace
=============================================================================
