----------------------------- MODULE SquareOff -----------------------------
(***************************************************************************)
(* The kill switch, the emergency square-off it triggers, the end of day   *)
(* square-off and the position monitor: emergency_square_off_trigger.py,   *)
(* eod_runtime.py, position_monitor_runtime.py and the two durable claim   *)
(* rows.  The kill switch, the claim rows and the ledger are in the shared *)
(* database; every process has a paper broker of its own in memory, lost   *)
(* when it restarts.  The beat tasks run in Celery worker processes, the   *)
(* manual order API in the web process.                                    *)
(*                                                                         *)
(* These processes trade at MARKET; quantities are whole lots, every order *)
(* fills at once.  Prices, resting orders and cash are in PaperBroker,     *)
(* fractions of a share in PositionMonitor: here the process's broker has  *)
(* been given a price and has the funds.  Of the risk checks, those on the *)
(* day's loss and on the session never refuse.  MaxPlans = 0 is the        *)
(* shipped wiring: no production caller asks for exit plans.               *)
(* Time only matters through ages, so it is not bounded: an age is capped  *)
(* where nothing can tell larger ones apart.                               *)
(*                                                                         *)
(* An operator named Bad... is a plausible mistake in the operator that    *)
(* follows it; nothing else uses it.                                       *)
(***************************************************************************)
EXTENDS Integers, FiniteSets, FiniteSetsExt

CONSTANTS Procs,           \* processes that hold positions
          Runners,         \* the workers among them; the others are the web's
          Instruments,
          MaxHalts,        \* bound on how often the kill switch is engaged
          MaxEodRuns,      \* bound on how often the EOD task is delivered
          MaxPlans,        \* bound on the ledger positions the monitor watches
          HaltStaleness, EodStaleness,
          AttemptLimit,    \* the longest an attempt takes
          MaxSize, MaxExposure, MaxOpen,   \* risk limits, in lots and positions
          Failures         \* database operations that may raise

ASSUME ConstantsAssumption ==
  /\ Runners \subseteq Procs /\ "gone" \notin Procs
  /\ MaxHalts \in Nat /\ MaxEodRuns \in Nat /\ MaxPlans \in Nat
  /\ HaltStaleness \in Nat /\ EodStaleness \in Nat /\ AttemptLimit \in Nat \ {0}
  /\ MaxSize \in Nat /\ MaxExposure \in Nat /\ MaxOpen \in Nat
  /\ Failures \subseteq {"order", "reconcile", "mark"}

\* No attempt outlives its claim.  Nothing in the code enforces it: an attempt closes a few
\* positions in memory, the limits are minutes.
ASSUME AttemptsEndInTime == AttemptLimit <= HaltStaleness /\ AttemptLimit <= EodStaleness

VARIABLES halt,      \* KillSwitchState: enabled, and changed_at as a serial number
          rows,      \* EmergencySquareOffEvent by halt, EODRun as event 0
          eodRuns,
          net,       \* open lots, by process and instrument; negative when short
          plans,     \* the ledger's OPEN positions with an exit plan
          recorded,  \* has any order reached the ledger?
          stray,     \* how a broker differs from the ledger
          task       \* what each process is doing

vars == <<halt, rows, eodRuns, net, plans, recorded, stray, task>>
trading == <<net, plans, recorded, stray>>

EodEvent == 0
Events == 0..MaxHalts
Halts == 1..MaxHalts

Staleness(e) == IF e = EodEvent THEN EodStaleness ELSE HaltStaleness
MaxAge == AttemptLimit + 1 + (IF HaltStaleness > EodStaleness THEN HaltStaleness ELSE EodStaleness)

RowStatus == {"NOT_STARTED", "IN_PROGRESS", "COMPLETED", "FAILED_RETRYABLE",
              "RECONCILIATION_REQUIRED"}

Idle == [at |-> "idle"]

Working(p) == task[p].at \in {"closing", "failing", "marking"}
OpenIn(p) == {i \in Instruments : net[p][i] # 0}
Magnitude(n) == IF n < 0 THEN -n ELSE n
Exposure(p) == MapThenSumSet(LAMBDA i : Magnitude(net[p][i]), Instruments)
Toward(n) == IF n > 0 THEN 1 ELSE -1
Sign(side) == IF side = "BUY" THEN 1 ELSE -1

-----------------------------------------------------------------------------
(* Orders.                                                                 *)

\* evaluate_order_risk for an order of qty lots, after the kill-switch check: position
\* size, exposure, number of positions.  None of these looks at is_position_reducing.
GateAllows(p, i, qty) ==
  /\ Magnitude(net[p][i]) + qty <= MaxSize
  /\ Exposure(p) + qty <= MaxExposure
  /\ Cardinality(OpenIn(p)) < MaxOpen

\* An order against a position reduces it; what exceeds the position is dropped.
Applied(n, d) ==
  IF n * d >= 0 THEN n + d
  ELSE IF Magnitude(d) > Magnitude(n) THEN 0 ELSE n + d

\* plans holds one entry per ledger position whose status is OPEN and that still has a
\* remaining quantity.  Its owner is the process whose broker holds the position, or
\* "gone" when no broker does any more.
NoPlan == [owner |-> "gone", inst |-> "none", remaining |-> 0]
PlanOf(p, i) == {k \in DOMAIN plans : plans[k].owner = p /\ plans[k].inst = i}

\* sync_positions writes the one position per instrument the broker of p has now: one
\* that it closed is closed, one that was replaced before it was saved stays OPEN.
Synced(p, i, n) ==
  [k \in DOMAIN plans |->
     LET j   == plans[k].inst
         now == IF j = i THEN n ELSE net[p][j]
     IN IF plans[k].owner # p THEN plans[k]
        ELSE IF now = 0 THEN NoPlan
        ELSE IF net[p][j] = 0 THEN [plans[k] EXCEPT !.owner = "gone"]
        ELSE plans[k]]

\* The broker of p executes an order of d lots and sync_snapshot saves it: now the ledger
\* has an order that no other broker knows.
Saved(p, i, d) ==
  /\ net' = [net EXCEPT ![p][i] = Applied(@, d)]
  /\ recorded' = TRUE
  /\ stray' = [q \in Procs |-> IF q = p THEN stray[q] ELSE stray[q] \union {"foreign"}]

\* sync_snapshot raises: the ledger never learns of the order.
Unsaved(p, i, d) ==
  /\ "order" \in Failures
  /\ net' = [net EXCEPT ![p][i] = Applied(@, d)]
  /\ plans' = [k \in DOMAIN plans |->
       IF k \in PlanOf(p, i) /\ net[p][i] = 0 THEN [plans[k] EXCEPT !.owner = "gone"]
                                             ELSE plans[k]]
  /\ stray' = [stray EXCEPT ![p] = @ \union {"missing"}]
  /\ UNCHANGED recorded

\* attach_exit_plan: the position's row gets a plan for all of its quantity.  Positions
\* beyond MaxPlans stay without one.
Attached(ps, p, i, n) ==
  LET mine == {k \in DOMAIN ps : ps[k].owner = p /\ ps[k].inst = i}
      free == {k \in DOMAIN ps : ps[k] = NoPlan}
      row  == IF mine # {} THEN mine ELSE free
  IN IF n = 0 \/ row = {} THEN ps
     ELSE [ps EXCEPT ![Min(row)] = [owner |-> p, inst |-> i, remaining |-> n]]

BadEntryAllowed(p, i) == GateAllows(p, i, 1)

EntryAllowed(p, i) == ~halt.on /\ GateAllows(p, i, 1)

\* PaperTradingService.submit_order reads the kill switch and the gate ...
StartEntry(p, i, side) ==
  /\ task[p] = Idle
  /\ EntryAllowed(p, i)
  /\ task' = [task EXCEPT ![p] = [at |-> "submitting", inst |-> i, side |-> side]]
  /\ UNCHANGED <<halt, rows, eodRuns, trading>>

\* ... and then hands the order to the broker and persists: the switch may have been
\* engaged in between.  A filled signal order of a worker gets an exit plan, a manual
\* order of the web process does not.
SubmitEntry(p) ==
  /\ task[p].at = "submitting"
  /\ task' = [task EXCEPT ![p] = Idle]
  /\ LET i == task[p].inst
         d == Sign(task[p].side)
         n == Applied(net[p][i], d)
     IN \/ /\ Saved(p, i, d)
           /\ plans' = IF p \in Runners THEN Attached(Synced(p, i, n), p, i, n)
                                        ELSE Synced(p, i, n)
        \/ Unsaved(p, i, d)
  /\ UNCHANGED <<halt, rows, eodRuns>>

\* One ledger position of run_position_monitor_tick whose exit is due: all of it, or a
\* part at a target.  The rows come from the ledger, the order goes to the process's own
\* broker, and the row is updated whether or not the gate let the order through.  The
\* ingestion lock keeps a second tick out.
MonitorExit(p, k, qty) ==
  LET row  == plans[k]
      d    == -Toward(row.remaining) * qty
      n    == Applied(net[p][row.inst], d)
      Left(ps) == IF ps[k] = NoPlan \/ qty = Magnitude(row.remaining)
                  THEN [ps EXCEPT ![k] = NoPlan]
                  ELSE [ps EXCEPT ![k].remaining = @ + d]
  IN /\ task[p] = Idle
     /\ row # NoPlan
     /\ qty <= Magnitude(row.remaining)
     /\ \/ /\ GateAllows(p, row.inst, qty)
           /\ \/ Saved(p, row.inst, d) /\ plans' = Left(Synced(p, row.inst, n))
              \/ Unsaved(p, row.inst, d)
        \/ /\ ~GateAllows(p, row.inst, qty)
           /\ plans' = Left(plans)
           /\ UNCHANGED <<net, recorded, stray>>
     /\ UNCHANGED <<halt, rows, eodRuns, task>>

-----------------------------------------------------------------------------
(* The kill switch: engaging and resetting both stamp changed_at.  A halt  *)
(* that is engaged again becomes a new event.                              *)

Engage ==
  /\ halt.id < MaxHalts
  /\ halt' = [on |-> TRUE, id |-> halt.id + 1]
  /\ UNCHANGED <<rows, eodRuns, trading, task>>

Reset ==
  /\ halt.on
  /\ halt' = [halt EXCEPT !.on = FALSE]
  /\ UNCHANGED <<rows, eodRuns, trading, task>>

-----------------------------------------------------------------------------
(* One attempt at an event.                                                *)

\* check_and_trigger_automatic_square_off reads the switch and the time.
CheckHalt(p) ==
  /\ task[p] = Idle
  /\ halt.on
  /\ rows[halt.id].status # "COMPLETED"
  /\ task' = [task EXCEPT ![p] = [at |-> "claiming", event |-> halt.id, age |-> 0]]
  /\ UNCHANGED <<halt, rows, eodRuns, trading>>

StartEod(p) ==
  /\ task[p] = Idle
  /\ eodRuns < MaxEodRuns
  /\ eodRuns' = eodRuns + 1
  /\ task' = [task EXCEPT ![p] = [at |-> "claiming", event |-> EodEvent, age |-> 0]]
  /\ UNCHANGED <<halt, rows, trading>>

NeverStale(e, age) == rows[e].status \notin {"COMPLETED", "IN_PROGRESS"}

BadMayClaim(e, age) == rows[e].status # "COMPLETED"

\* claim(): COMPLETED is terminal, a fresh IN_PROGRESS belongs to somebody, everything
\* else is claimed.  now - claimed_at is the difference of the two ages.
MayClaim(e, age) ==
  /\ rows[e].status # "COMPLETED"
  /\ rows[e].status = "IN_PROGRESS" => rows[e].age - age > Staleness(e)

\* The snapshot of open positions is taken right after the claim.
Claim(p) ==
  LET e == task[p].event
  IN /\ task[p].at = "claiming"
     /\ MayClaim(e, task[p].age)
     /\ rows' = [rows EXCEPT ![e] = [status |-> "IN_PROGRESS", age |-> task[p].age]]
     /\ task' = [task EXCEPT ![p] = [at |-> "closing", event |-> e, age |-> task[p].age,
                                     todo |-> OpenIn(p), failed |-> FALSE]]
     /\ UNCHANGED <<halt, eodRuns, trading>>

\* A refused check returns without a square-off outcome.
Refused(p) ==
  LET e == task[p].event
  IN /\ task[p].at = "claiming"
     /\ ~MayClaim(e, task[p].age)
     /\ task' = [task EXCEPT ![p] = Idle]
     /\ UNCHANGED <<halt, rows, eodRuns, trading>>

\* One turn of run_emergency_square_off's loop, then update_position_lifecycle.
CloseOne(p, i) ==
  /\ task[p].at = "closing"
  /\ i \in task[p].todo
  /\ IF GateAllows(p, i, Magnitude(net[p][i]))
     THEN /\ Saved(p, i, -net[p][i])
          /\ plans' = Synced(p, i, 0)
          /\ task' = [task EXCEPT ![p].todo = @ \ {i}]
     ELSE /\ task' = [task EXCEPT ![p].todo = @ \ {i}, ![p].failed = TRUE]
          /\ UNCHANGED trading
  /\ UNCHANGED <<halt, rows, eodRuns>>

\* The snapshot raises after the broker has executed an exit, or the lifecycle update
\* after the snapshot.
CloseRaises(p, i) ==
  /\ "order" \in Failures
  /\ task[p].at = "closing"
  /\ i \in task[p].todo
  /\ GateAllows(p, i, Magnitude(net[p][i]))
  /\ \/ Saved(p, i, -net[p][i]) /\ plans' = Synced(p, i, 0)
     \/ Unsaved(p, i, -net[p][i])
  /\ task' = [task EXCEPT ![p] = [at |-> "failing", event |-> task[p].event,
                                  age |-> task[p].age]]
  /\ UNCHANGED <<halt, rows, eodRuns>>

BadVerdict(e, failed, flat, divergent) ==
  IF failed THEN "FAILED_RETRYABLE" ELSE "COMPLETED"

\* The row status an attempt ends with.  EOD ignores a divergence.
Verdict(e, failed, flat, divergent) ==
  CASE failed                        -> "FAILED_RETRYABLE"
    [] e = EodEvent /\ ~failed /\ ~flat -> "FAILED_RETRYABLE"
    [] e # EodEvent /\ ~failed /\ (~flat \/ divergent) -> "RECONCILIATION_REQUIRED"
    [] OTHER                         -> "COMPLETED"

\* reconcile_paper_state finds an order that only the broker or only the ledger has.
Divergent(p) == stray[p] # {}

\* The loop is over: reconcile with the ledger, count what is still open.  A
\* reconciliation that raises counts as no divergence.
Judge(p) ==
  /\ task[p].at = "closing"
  /\ task[p].todo = {}
  /\ \E reconciled \in (IF "reconcile" \in Failures THEN BOOLEAN ELSE {TRUE}) :
       task' = [task EXCEPT ![p] =
         [at |-> "marking", event |-> task[p].event, age |-> task[p].age,
          reconciled |-> reconciled,
          verdict |-> Verdict(task[p].event, task[p].failed, OpenIn(p) = {},
                              reconciled /\ Divergent(p))]]
  /\ UNCHANGED <<halt, rows, eodRuns, trading>>

\* The mark_ operations write the status whatever the row holds by now; the age of a row
\* only matters while it is IN_PROGRESS.
MarkedRow(e, status) == [rows[e] EXCEPT !.status = status, !.age = 0]

Mark(p) ==
  /\ task[p].at \in {"marking", "failing"}
  /\ LET e      == task[p].event
         raised == task[p].at = "failing"
         status == IF raised THEN "FAILED_RETRYABLE" ELSE task[p].verdict
     IN /\ rows' = [rows EXCEPT ![e] = MarkedRow(e, status)]
  /\ task' = [task EXCEPT ![p] = Idle]
  /\ UNCHANGED <<halt, eodRuns, trading>>

\* The mark itself raises: the row stays IN_PROGRESS until it is stale.
MarkLost(p) ==
  /\ "mark" \in Failures
  /\ task[p].at \in {"marking", "failing"}
  /\ task' = [task EXCEPT ![p] = Idle]
  /\ UNCHANGED <<halt, rows, eodRuns, trading>>

-----------------------------------------------------------------------------
\* A process dies and comes back with an empty trading; the ledger keeps what it had.
Crash(p) ==
  /\ task' = [task EXCEPT ![p] = Idle]
  /\ net' = [net EXCEPT ![p] = [i \in Instruments |-> 0]]
  /\ plans' = [k \in DOMAIN plans |-> IF plans[k].owner = p
                                      THEN [plans[k] EXCEPT !.owner = "gone"] ELSE plans[k]]
  /\ stray' = [stray EXCEPT ![p] = IF recorded THEN {"foreign"} ELSE {}]
  /\ <<task, net>> # <<task', net'>>
  /\ UNCHANGED <<halt, rows, eodRuns, recorded>>

Older(age) == IF age < MaxAge THEN age + 1 ELSE age

\* Time passes, for as long as no attempt overruns AttemptLimit.
TimePasses ==
  /\ \A p \in Procs : "age" \in DOMAIN task[p] => task[p].age < AttemptLimit
  /\ task' = [p \in Procs |-> IF "age" \in DOMAIN task[p]
                              THEN [task[p] EXCEPT !.age = @ + 1] ELSE task[p]]
  /\ rows' = [e \in Events |-> IF rows[e].status = "IN_PROGRESS"
                               THEN [rows[e] EXCEPT !.age = Older(@)] ELSE rows[e]]
  /\ task' # task \/ rows' # rows
  /\ UNCHANGED <<halt, eodRuns, trading>>

Init ==
  /\ halt = [on |-> FALSE, id |-> 0]
  /\ rows = [e \in Events |-> [status |-> "NOT_STARTED", age |-> 0]]
  /\ eodRuns = 0
  /\ net = [p \in Procs |-> [i \in Instruments |-> 0]]
  /\ plans = [k \in 1..MaxPlans |-> NoPlan]
  /\ recorded = FALSE
  /\ stray = [p \in Procs |-> {}]
  /\ task = [p \in Procs |-> Idle]

Attempt(p) ==
  \/ CheckHalt(p)
  \/ StartEod(p)
  \/ Claim(p)
  \/ Refused(p)
  \/ \E i \in Instruments : CloseOne(p, i) \/ CloseRaises(p, i)
  \/ Judge(p)
  \/ Mark(p)
  \/ MarkLost(p)

Trade(p) ==
  \/ \E i \in Instruments, side \in {"BUY", "SELL"} : StartEntry(p, i, side)
  \/ SubmitEntry(p)

Monitor(p) ==
  \E k \in DOMAIN plans, qty \in 1..MaxSize : MonitorExit(p, k, qty)

Next ==
  \/ Engage
  \/ Reset
  \/ TimePasses
  \/ \E p \in Procs : Trade(p) \/ Crash(p)
  \/ \E p \in Runners : Attempt(p) \/ Monitor(p)

Spec == Init /\ [][Next]_vars

\* An attempt that was started goes on, time passes, and not every attempt dies or loses its
\* mark.  The beat's check comes every 15 s, and reaches the workers in reached again and
\* again: also at moments when no other attempt holds the row, for an attempt takes far less.
Fairness(reached) ==
  /\ WF_vars(TimePasses)
  /\ \A p \in Runners :
       /\ WF_vars(Claim(p) \/ Refused(p) \/ SubmitEntry(p) \/ \E i \in Instruments : CloseOne(p, i))
       /\ SF_vars(Judge(p))
       /\ SF_vars(Mark(p))
  /\ \A p \in reached :
       /\ SF_vars(CheckHalt(p) /\ MayClaim(halt.id, 0))
       /\ SF_vars(Claim(p))
=============================================================================
