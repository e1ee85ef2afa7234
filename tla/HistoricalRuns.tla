--------------------------- MODULE HistoricalRuns ---------------------------
(***************************************************************************)
(* Historical backtest runs and market data sync runs: a request creates   *)
(* the row of a run and hands it to a Celery worker, or works on it itself; *)
(* for each of its series the bars that are missing in the common store    *)
(* are fetched and, in a backtest, scanned.  The provider that fetches is  *)
(* chosen once per execution: Dhan's, or the synthetic one as long as no   *)
(* credentials are set.                                                    *)
(*                                                                         *)
(* A series is an instrument on a timeframe, a slot the place of a bar in  *)
(* the calendar: bars that follow each other on one day have adjacent      *)
(* slots.                                                                  *)
(***************************************************************************)
EXTENDS Integers, Sequences, FiniteSets, SequencesExt

CONSTANTS
  Runs,        \* the runs that may be asked for
  Backtests,   \* those that scan what they prepared; the others only sync
  Plan,        \* the series of each run, in the order it takes them
  Expected,    \* the slots a run expects of a series between its first and its last date
  MaxFaults    \* bound for each run: database errors, broker errors and killed processes

ASSUME PlanAssumption ==
  /\ Backtests \subseteq Runs /\ DOMAIN Plan = Runs /\ DOMAIN Expected = Runs
  /\ \A r \in Runs : Plan[r] \in Seq(Range(Plan[r])) /\ DOMAIN Expected[r] = Range(Plan[r])
  /\ \A r \in Runs : \A s \in Range(Plan[r]) : Expected[r][s] \subseteq Int

REAL == "REAL_DHAN"
SYNTHETIC == "SYNTHETIC_TEST"
Missing == "missing"
MAX_FETCH_ATTEMPTS == 3

Series == UNION {Range(Plan[r]) : r \in Runs}
Slots == UNION {UNION Range(Expected[r]) : r \in Runs}
Executions == Runs \X {"web", "worker"}   \* the task runs in the request or in a worker

VARIABLES
  store,    \* the provenance of each bar row, or Missing
  row,      \* the status and the results each run row shows
  saved,    \* the backtest results in the database
  queue,    \* the runs whose task message is published
  work,     \* what each execution of the task is doing
  faults,   \* the faults of each run so far
  lost      \* runs an execution of which ended without reporting (not in the code)
vars == <<store, row, saved, queue, work, faults, lost>>

Gone == [at |-> "gone"]
Handling == [at |-> "handler"]
Terminal == {"COMPLETED", "PARTIAL", "FAILED"}

Init ==
  /\ store = [s \in Series |-> [t \in Slots |-> Missing]]
  /\ row = [r \in Runs |-> [status |-> "none", results |-> {}]]
  /\ saved = {} /\ queue = {} /\ faults = [r \in Runs |-> 0] /\ lost = {}
  /\ work = [e \in Executions |-> Gone]

-----------------------------------------------------------------------------
(* Coverage, ranges and the verdict                                        *)

\* The expected slots of a series that have no row, of whatever provenance.
Uncovered(r, s) == {t \in Expected[r][s] : store[s][t] = Missing}
Complete(r, s) == Expected[r][s] # {} /\ Uncovered(r, s) = {}

\* The missing slots as ranges, each as long as adjacent slots are missing, and the order in
\* which they are fetched.
Ranges(missing) ==
  {range \in [start: missing, end: missing] :
     /\ range.start .. range.end \subseteq missing /\ range.start <= range.end
     /\ range.start - 1 \notin missing /\ range.end + 1 \notin missing}
Earliest(range, ranges) == \A other \in ranges : range.start <= other.start

\* Mutant: the provider is asked up to the end of the run instead of the range.
BadCovered(r, s, range) == {t \in Expected[r][s] : range.start <= t}
Covered(r, s, range) == {t \in Expected[r][s] : range.start <= t /\ t <= range.end}

\* Mutant: a run all of whose series failed is PARTIAL.
BadVerdict(failures, total) == IF failures = 0 THEN "COMPLETED" ELSE "PARTIAL"
Verdict(failures, total) ==
  IF failures = 0 THEN "COMPLETED" ELSE IF failures < total THEN "PARTIAL" ELSE "FAILED"

-----------------------------------------------------------------------------
(* Helpers of the actions                                                  *)

Goes(e, w) == work' = [work EXCEPT ![e] = w]
At(e, at) == work[e].at = at
Current(e) == Plan[e[1]][work[e].i]
Faults(r, n) == faults[r] + n <= MaxFaults[r] /\ faults' = [faults EXCEPT ![r] = @ + n]
Status(e, status) == row' = [row EXCEPT ![e[1]].status = status]

\* What an execution knows between its steps; failures counts entries, not series.
Stage(e, at, i, failures, mine) ==
  [at |-> at, source |-> work[e].source, i |-> i, failures |-> failures, mine |-> mine]
NextSeries(e, failures, mine) == Goes(e, Stage(e, "report", work[e].i + 1, failures, mine))

-----------------------------------------------------------------------------
(* From the request to the task                                            *)

Create(r) ==
  /\ row[r].status = "none"
  /\ row' = [row EXCEPT ![r].status = "QUEUED"]
  /\ Goes(<<r, "web">>, [at |-> "dispatch"])
  /\ UNCHANGED <<store, saved, queue, faults, lost>>

\* A worker answers the ping and delay() publishes; or none answers, or delay() raises,
\* before or after the message is out, and the request works on the run itself.
Dispatch(r) ==
  /\ At(<<r, "web">>, "dispatch")
  /\ \/ queue' = queue \union {r} /\ Goes(<<r, "web">>, Gone) /\ Faults(r, 0)
     \/ UNCHANGED queue /\ Goes(<<r, "web">>, [at |-> "build"]) /\ Faults(r, 0)
     \/ queue' = queue \union {r} /\ Goes(<<r, "web">>, [at |-> "build"]) /\ Faults(r, 1)
  /\ UNCHANGED <<store, row, saved, lost>>

Receive(r) ==
  /\ r \in queue /\ At(<<r, "worker">>, "gone")
  /\ queue' = queue \ {r}
  /\ Goes(<<r, "worker">>, [at |-> "build"])
  /\ UNCHANGED <<store, row, saved, faults, lost>>

\* The provider is chosen by the credentials of the moment.  This is before the try: an
\* error leaves the row as it is.
Begin(e) ==
  /\ At(e, "build")
  /\ \/ /\ Status(e, "RUNNING") /\ UNCHANGED lost /\ Faults(e[1], 0)
        /\ \E source \in {REAL, SYNTHETIC} :
             Goes(e, [at |-> "report", source |-> source, i |-> 1, failures |-> 0, mine |-> {}])
     \/ UNCHANGED <<row, lost>> /\ Goes(e, Handling) /\ Faults(e[1], 1)
     \/ UNCHANGED row /\ Goes(e, Gone) /\ lost' = lost \union {e[1]} /\ Faults(e[1], 1)
  /\ UNCHANGED <<store, saved, queue>>

\* The broad except around a series: an entry more, and an update of the row that, if it
\* raises, ends the run.
Except(e, entries, mine, before) ==
  \/ NextSeries(e, work[e].failures + entries + 1, mine) /\ Faults(e[1], before)
  \/ Goes(e, Handling) /\ Faults(e[1], before + 1)

\* A series without data: the entry is in the list before the row is updated, and if that
\* raises, the broad except adds a second one.
Unavailable(e) ==
  \/ NextSeries(e, work[e].failures + 1, work[e].mine) /\ Faults(e[1], 0)
  \/ Except(e, 1, work[e].mine, 1)

\* A sync run is done with a series it prepared, a backtest scans it; the update of the row
\* in between may raise.
Prepared(e) ==
  \/ /\ e[1] \in Backtests /\ Faults(e[1], 0)
     /\ Goes(e, Stage(e, "scan", work[e].i, work[e].failures, work[e].mine))
  \/ e[1] \notin Backtests /\ NextSeries(e, work[e].failures, work[e].mine) /\ Faults(e[1], 0)
  \/ Except(e, 0, work[e].mine, 1)

-----------------------------------------------------------------------------
(* Preparing one series                                                    *)

\* get_coverage, after which the series is prepared by what was missing then.
Report(e) ==
  /\ At(e, "report") /\ work[e].i <= Len(Plan[e[1]])
  /\ IF Complete(e[1], Current(e)) THEN Prepared(e)
     ELSE LET missing == Uncovered(e[1], Current(e))
          IN  Faults(e[1], 0) /\ Goes(e, [at |-> "fetch", source |-> work[e].source, i |-> work[e].i,
                                    failures |-> work[e].failures, mine |-> work[e].mine,
                                    missing |-> missing, ranges |-> Ranges(missing),
                                    attempt |-> 0, persisted |-> FALSE])
  /\ UNCHANGED <<store, row, saved, queue, lost>>

\* The rows are written by key, over whatever is there by now.
Upsert(e, slots) ==
  store' = [store EXCEPT ![Current(e)] =
              [t \in Slots |-> IF t \in slots THEN work[e].source ELSE @[t]]]

\* A range is fetched and its bars are upserted: Dhan may know fewer of them, the synthetic
\* provider has one for every slot.
FetchRange(e) ==
  /\ At(e, "fetch")
  /\ \E range \in work[e].ranges :
       /\ Earliest(range, work[e].ranges)
       /\ LET slots == Covered(e[1], Current(e), range) IN
          \E fetched \in IF work[e].source = SYNTHETIC THEN {slots} ELSE SUBSET slots :
            /\ Upsert(e, fetched)
            /\ Goes(e, [work[e] EXCEPT !.ranges = @ \ {range}, !.attempt = 0,
                                       !.persisted = @ \/ fetched # {}])
  /\ Faults(e[1], 0) /\ UNCHANGED <<row, saved, queue, lost>>

\* The provider raises: after three attempts the series goes on with what the store has, if
\* it has anything.
Attempt(n) == n + 1
FetchFails(e) ==
  /\ At(e, "fetch") /\ work[e].ranges # {} /\ work[e].source = REAL
  /\ IF Attempt(work[e].attempt) < MAX_FETCH_ATTEMPTS
       THEN Goes(e, [work[e] EXCEPT !.attempt = Attempt(@)]) /\ Faults(e[1], 0)
       ELSE IF Uncovered(e[1], Current(e)) # Expected[e[1]][Current(e)]
         THEN Prepared(e) ELSE Unavailable(e)
  /\ UNCHANGED <<store, row, saved, queue, lost>>

\* What the provider returned has bars twice or out of order.
FetchInvalid(e) ==
  /\ At(e, "fetch") /\ work[e].ranges # {} /\ work[e].source = REAL
  /\ IF work[e].persisted THEN Prepared(e) ELSE Unavailable(e)
  /\ UNCHANGED <<store, row, saved, queue, lost>>

\* All ranges are through: COMPLETE or PARTIAL, which the callers treat alike.
Fetched(e) ==
  /\ At(e, "fetch") /\ work[e].ranges = {} /\ Prepared(e)
  /\ UNCHANGED <<store, row, saved, queue, lost>>

\* The database raises while a series is reported on, fetched or written.
Raises(e) ==
  /\ work[e].at \in {"report", "fetch"} /\ work[e].i <= Len(Plan[e[1]])
  /\ Except(e, 0, work[e].mine, 1)
  /\ UNCHANGED <<store, row, saved, queue, lost>>

-----------------------------------------------------------------------------
(* Scanning it                                                             *)

\* The research gate: complete coverage and no row that is not Dhan's.
Eligible(r, s) == Complete(r, s) /\ \A t \in Expected[r][s] : store[s][t] = REAL

\* Bars the gate rejects, and whatever else raises on the way, end in the broad except; a
\* configuration or a history the engine refuses is a failed series.
Scan(e) ==
  /\ At(e, "scan")
  /\ \/ /\ Eligible(e[1], Current(e)) /\ Faults(e[1], 0)
        /\ saved' = saved \union {[run |-> e[1], series |-> Current(e),
                     bars |-> {store[Current(e)][t] : t \in Expected[e[1]][Current(e)]}]}
        /\ Goes(e, [work[e] EXCEPT !.at = "saved"])
     \/ Eligible(e[1], Current(e)) /\ Unavailable(e) /\ UNCHANGED saved
     \/ Except(e, 0, work[e].mine, 0) /\ UNCHANGED saved
  /\ UNCHANGED <<store, row, queue, lost>>

\* The result enters the dictionary first and the row after that.
Record(e) ==
  /\ At(e, "saved")
  /\ LET mine == work[e].mine \union {Current(e)} IN
     \/ /\ row' = [row EXCEPT ![e[1]].results = mine]
        /\ NextSeries(e, work[e].failures, mine) /\ Faults(e[1], 0)
     \/ Except(e, 0, mine, 1) /\ UNCHANGED row
  /\ UNCHANGED <<store, saved, queue, lost>>

-----------------------------------------------------------------------------
(* The end of a run                                                        *)

Finish(e) ==
  /\ At(e, "report") /\ work[e].i > Len(Plan[e[1]])
  /\ \/ Status(e, Verdict(work[e].failures, Len(Plan[e[1]]))) /\ Goes(e, Gone) /\ Faults(e[1], 0)
     \/ UNCHANGED row /\ Goes(e, Handling) /\ Faults(e[1], 1)
  /\ UNCHANGED <<store, saved, queue, lost>>

\* Mutant: the task only passes the error on.
BadHandler(e) ==
  /\ At(e, "handler") /\ Goes(e, Gone) /\ UNCHANGED <<store, row, saved, queue, lost, faults>>
\* The except of the task: the row is FAILED, unless this update raises as well.
Handler(e) ==
  /\ At(e, "handler") /\ Goes(e, Gone)
  /\ \/ Status(e, "FAILED") /\ UNCHANGED lost /\ Faults(e[1], 0)
     \/ UNCHANGED row /\ lost' = lost \union {e[1]} /\ Faults(e[1], 1)
  /\ UNCHANGED <<store, saved, queue>>

Killed(e) ==
  /\ ~At(e, "gone") /\ Faults(e[1], 1)
  /\ Goes(e, Gone) /\ lost' = lost \union {e[1]}
  /\ UNCHANGED <<store, row, saved, queue>>

-----------------------------------------------------------------------------
Advance(e) ==
  \/ Begin(e) \/ Report(e) \/ FetchRange(e) \/ FetchFails(e) \/ FetchInvalid(e)
  \/ Fetched(e) \/ Raises(e) \/ Scan(e) \/ Record(e) \/ Finish(e) \/ Handler(e)

Next ==
  \/ \E r \in Runs : Create(r) \/ Dispatch(r) \/ Receive(r)
  \/ \E e \in Executions : Advance(e) \/ Killed(e)

Spec == Init /\ [][Next]_vars
=============================================================================
