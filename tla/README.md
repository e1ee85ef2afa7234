# IntraDay in TLA+

IntraDay is a paper-trading platform: Django, Celery and PostgreSQL around an in-memory
paper broker, with market data from Dhan, strategies that turn bars into signals, and a
control plane (kill switch, emergency square-off, end of day). These modules model what holds
money and positions, what brings quotes to it and turns them into orders, the sessions and
runs an operator starts, and the backtest engines. TLC checks them on small instances; TLAPS
proves every safety property the runs check for every instance.

## The system

Processes: the web process (`docker-compose.yml`, `runserver`), a Celery worker with its
default pool of several processes, Celery beat, and the market data worker (a management
command). They share PostgreSQL and a Redis cache. **Each process has a paper broker of its
own** (`get_paper_broker`), so each has its own orders, cash and positions, and loses them
when it restarts; the ledger in the database survives. Beat delivers the ingestion tick
every 60 s, the emergency square-off check every 15 s and the end-of-day task once a day.

| component | state | operations | hard because | what makes it correct |
|---|---|---|---|---|
| order lifecycle table (`domain/order`) | none | `validate_transition` | shared by every broker path | terminal states stay terminal |
| paper broker (`infrastructure/brokers/paper`) | orders, prices, cash, positions, trades, fills | submit, cancel, modify, record_price, end-of-session expiry | rests orders, fills them in parts, raises in the middle of a tick, rounds | solvent; fills, orders, positions and cash agree; limits hold |
| risk gate (`domain/risk/policy.py`) | none | `evaluate_order_risk` | written for entries, applied to exits too | refuses entries while halted, never an exit |
| paper trading service, ledger | order, trade, position rows | gate, broker call, snapshot | check-then-act; snapshot fails after the broker acted | ledger follows broker |
| kill switch | enabled, changed_at | engage, reset | read by other processes before they act | nothing starts while engaged |
| emergency square-off, claim rows | one row per halt | claim, close each position, reconcile, mark | crash between steps, stale claims, two processes | one attempt at a time; COMPLETED means flat; ends flat |
| end of day | one row per day | as above | as above | COMPLETED means nothing open |
| position monitor (`domain/position_exit`) | exit plan, lifecycle, remaining quantity, best price | tick, attach plan | two roundings, exits refused, prices jump | what is watched is what is held |
| reconciliation | none | compare broker and ledger | several brokers, one ledger | divergence is noticed |
| signal pipeline, ingestion | lock, order rows, signal rows | tick, evaluate, submit, persist, record | lock expiry, cut-off ticks, several brokers | a signal gets one order; the two tables agree |
| communication | delivery ledger | dispatch, retry | crash between send and record, timeouts that arrived | nothing is announced as new after its order |
| market data worker | connection state, stop request, status row, scan progress | connect, receive, reconnect, stop, flush, scan | asynchronous tasks, races of stop and start, lost connections | stops when asked, retries end, nothing is trusted after a loss |
| bar aggregation | observations, bars | save, aggregate, store, promote | late and equal timestamps, sliding lookback, two callers | a bar equals its quotes; a trusted bar's interval and series are whole |
| paper sessions | session row; scanner configuration and worker status | create, start, pause, resume, stop, step, project; edit, start, stop, reconcile | requests without a lock, versions | the row is whole; no look-ahead; RUNNING needs evidence, as far as settings reach a running worker |
| historical runs | run rows, results, bar store | create, dispatch, execute, fetch, scan, report | a message delivered twice, failing updates, two providers | a run ends; claims are backed; real bars stay |
| backtest engines | cash, positions, trades of one run | `run_backtest`, `run_portfolio_backtest`, `run_stateful_backtest` | fills ahead of the loop, curves computed afterwards, one account for several instruments, a managed position beside the simulator's | the curve matches the fills; no hindsight; capital is accounted for; what is managed is held |
| the rest (features, strategies, calendar, archive, settings, API) | see `PROJECT.json` | | sequential or pure | |

Calls between them: a signal becomes an order through `PaperSignalExecutionService`,
`PaperTradingService` (kill switch, gate), the broker and the ledger snapshot; the monitor
and both square-offs enter the same `PaperTradingService.submit_order` with
`is_position_reducing`; the square-off reads the kill switch through its claim row. Quotes reach it through
the worker or the ingestion task: both store observations, aggregate them (`BarAggregation`),
promote whole bars, and evaluate strategies on them (`SignalPath`). Live paper sessions steer
the worker through the scanner configuration.

## Modules

**Broker.** `OrderStateMachine` is the transition table. `PaperBroker` is one broker; a
call is one action, except `record_price`, which is a step per resting order because an
exception for one order leaves the effects of those before it. Prices are whole paise,
quantities units of 0.0001. `PaperBrokerProps` states the properties, `MCPaperBroker` the
instances, `PaperBrokerProofs` the theorems. `Spec` has the calls the platform makes;
`GatewaySpec` adds `modify_order`, which the gateway offers and nobody calls.

| model | code |
|---|---|
| `orders`, `book`, `latest`, `cash`, `positions`, `realizedNet`, `fills` | `_orders`, its insertion order, `_latest_prices`, `_available_balance`, `_positions` with `_position_entry_cost`, the sum over `_trades`, `_fills` |
| `ticking`, `todo` | the running `record_price` and the rest of its loop |
| `Submit`, `Cancel`, `Modify`, `ForceExpireEndOfSession` | the methods of these names |
| `RecordPrice`, `TickOrder`, `TickDone` | the start, an iteration and the end of `record_price` |

**Halts.** `HaltLease` is the abstract promise of a claim row: one worker at a time, and a
resolved event is never touched again. `SquareOff` is the kill switch, the two kinds of
claim row, the attempts of several processes, their brokers in whole lots, and the position
monitor where it matters to them; `SquareOffProps` states the properties and the refinement
`Lease`, `SquareOffProofs` proves it and the safety properties, `SquareOffLive` adds what an
engaged switch leads to, with the history variable `overlooked` and a set `Reached` of workers
which the checks reach. An attempt is `CheckHalt` or
`StartEod`, `Claim` or `Refused`, `CloseOne` or `CloseRaises` per position, `Judge`, and
`Mark` or `MarkLost`; a signal or manual order is `StartEntry` (kill switch and gate) and `SubmitEntry` (broker, ledger, plan). `Crash`
restarts a process at any point, `TimePasses` ages claims and attempts.

| model | code |
|---|---|
| `halt` | the kill-switch row; `id` stands for `changed_at`, the identity of a halt |
| `rows` | `EmergencySquareOffEvent` by halt, `EODRun` as event 0 |
| `net` | the open positions in each process's broker |
| `plans` | ledger positions that are OPEN with an exit plan and something remaining; `owner` is the process whose broker holds it or "gone" |
| `stray`, `recorded` | why `reconcile_paper_state` would report a divergence: orders of other brokers, orders the ledger never learnt of |
| `task` | where each process is in an attempt or an order |

**Position monitor.** `ExitPolicy` is `domain/position_exit`: stop, targets, trailing stop,
what each of them sells; the stateful backtest uses it too. `PositionMonitor` is one
monitored position in detail: that policy, thirds rounded to 0.0001 against fills rounded to
0.01, the order that stays partly filled, the ledger row, the plan a filled signal order attaches,
and the square-off's exit after `record_price`. `PositionMonitorProps` and `MCPositionMonitor`
go with it; `ManagedPositionProofs` has the theorems about it and about the stateful backtest. `SquareOff` has the failures and processes this one leaves
out; this one has the prices and fractions that one leaves out.

**Market data worker.** `WorkerStates` has the pure parts: the transition table, the
watchdog, the token. `MarketDataWorker` is the process `run_market_data_worker`: three
coroutines (the supervisor with its receive loop, the watcher of the stop request, the task
that closes the transport) and what happens around them. A step goes from one `await` that
lets another coroutine in to the next. `MarketDataProofs` has the theorems about it and about
the bars.

| model | code |
|---|---|
| `row`, `scan`, `desired` | `WorkerRuntimeStatus`, `ScannerScanProgress`, `ScannerConfiguration` |
| `at`, `attempt`, `ended` | where the supervisor's coroutine is, its budget, why it ended |
| `stop`, `watcher` | `stop_event`, `watch_for_stop_request` |
| `conn`, `health`, `pending`, `job` | the WebSocket, `WorkerHealthTracker`, the quotes not aggregated yet, the aggregation under way |
| `Supervise`, `Observe`, `ObserveFails`, `CloseOnStop` | the coroutines; `Feed`, `Operate`, `Elapse` are the server, the operator and time |

**Bars.** `BarAggregation`: `Save` stores a quote as an observation (and drops a repetition
of the newest), `Read` queries the lookback and aggregates, `Store` upserts the bars and
promotes those that qualify. The ingestion task and the worker do this beside each other.
`rows`, `bars` are the two tables, `work` what a caller has read and not stored yet. Within an
aggregation, a bucket is the set of the positions of its quotes in what was read; `Walk` is the
loop over the intervals, `Interval` a turn of it, with the gaps and the running total so far.
`BarAggregationProps` states the properties; the specification is `BarSpec`.

**Signals.** `SignalPath` takes the promoted signals through a tick: look-up, announcement
on every channel with its retries, submission, order row, signal row, outcome message, lock
release. A tick can fail at any database call (`Fail`), be killed (`Kill`), or outlive its
lock (`Lapse`). `lock`, `rows`, `recorded`, `ledger` are the cache key and the tables,
`broker` the submitted keys each process's broker knows, `proc` the place in the code;
`overlap`, `placed` and `cut` are history.

**Sessions.** `ReplaySession` is the row of a replay session, whose requests are a `Read`
and a `Save`, and the projection that replays the day up to the cursor. `LiveSession` is the
desired configuration, the effective one the worker reports, and the state derived from
both: `Start`, `Stop` and `Edit` carry what an operator read into a `Submit`; the process of
the worker takes its universe when it starts (`WorkerStarts`, `started`), every cycle takes the
other settings (`WorkerReads`), reports their version (`WorkerReports`) and then its own state
(`WorkerPersists`). `PaperSessions` composes the two over the kill switch they share and states what they
guarantee. `SimulatedRunsProofs` has the theorems about them and about `PortfolioBacktest`.

**Historical runs.** `HistoricalRuns`: `Create` and `Dispatch` write the row and publish the
task, `Receive` starts an execution (there may be two of one run), `Advance` takes it through
its series: `Begin`, `Report` (coverage), `FetchRange`, `Upsert`, `Scan`, `Record`, `Finish`,
and `Handler` for what escapes. A step that touches nothing but the execution's own variables
belongs to the step before it. `store` is the bar table with the provenance of each bar,
`row` and `saved` the run and result rows, `work` the executions; `lost` is history.

**Backtests.** `BacktestEngine` is `run_backtest` as a function of a history of bars, signals
and plans: `Result(n)` is the run over the first n bars, `Iteration` a turn of its loop,
`OpenTrade` and `CloseTrade` an entry and `_close_trade`, `PlannedExit` is
`simulate_tradeplan_exit`, `EquityAt` the curve. A step adds a bar to the history; "what would
the run have done without it" is the result over one bar less. `Execution` has what the two
engines share: sides, slippage, charges. `BacktestCurves` states the curves of both.

`PortfolioBacktest` is `run_portfolio_backtest`: a step is one instrument's turn at one bar,
`Enter`, `Reversal`, `EndOfData` or `Stay`, each with `Advance`, which moves the turn on;
`Close` is `_close`, `TotalEquity` the curve. `StatefulBacktest` is `run_stateful_backtest`
with its simulator: a step is a bar, `Idle`, `EnterPosition` or `Manage`; `Approved` is `_submit`'s
use of the risk gate, `RecordOrderFill` the simulator's fill. Only tests call these two.
`MCBacktests` runs the three engines, each behaviour one of them, as they share nothing.

| model | code |
|---|---|
| `cash`, `realized`, `open`, `trades` | `available_cash`, `cumulative_realized_net_pnl`, `open_positions`, `trades` with their intervals |
| `i`, `turn` | the two loops; `closes` are the bars seen, for the curve |
| `balance`, `position`, `earned` | the simulator's `_available_balance`, `_positions`, the sum over `_trades` |
| `managed`, `at` | the loop's `managed`, and whether it ended or raised |

`SetLemmas` has what the proofs need to know of sets of numbers (a smallest and a largest
member, counting up to a number) and of sums: over a finite set of any size, over the indices
of a sequence that grows or changes at one place, and over parts of either.

An operator named `Bad...` or `NeverStale` is a plausible mistake in the
operator after it. No specification uses one; putting it in place of the right one makes a
property fail, which confirms that the property notices.

## Runs

| run | bounds | shows |
|---|---|---|
| `broker_lot` | 3 orders of one lot filled in halves, 2 prices, scarce cash, charges that differ by side | `Solvent`, `OrdersAddUp`; `FillsExplainAll` (orders, fills and positions agree) and `CashExplainedByPnl` hold when no fill exceeds the position it closes |
| `broker_gateway` | 2 orders of different sizes, 5% slippage, a coarse quantum, amendments, aborted ticks | `TickLeavesNothingExecutable`, `LimitNeverWorse`, `TerminalIsFinal` |
| `squareoff_orders` | 2 workers, 1 halt, 1 end of day, 1 monitored position, failing writes, marks and reconciliations, crashes; at most one process with orders the ledger never learnt of | `OneAttemptAtATime` (the rows implement `HaltLease`), `CompletedMeansFlat`, `HaltedStartsNothing` |
| `squareoff_live` | 2 workers, of which the checks are sure to reach one, 1 halt, failing writes, marks and reconciliations, crashes | `HaltLeadsToFlat` |
| `squareoff_unconditional` | 1 process, at most one open position | a violation, see below |
| `monitor` | 10 shares a signal, at most 20 on the side of the signal, 9 prices around every level | `NeverWedged`, `WatchedInFull`, `TicksGoForward` (no target twice, the trailing stop only tightens), `HaltConverges` |
| `worker` | 2 runs of 2 attempts, batches of 2 quotes, 2 strategies, 1 edit | `StopIsRecorded`, `CompletedMeansClean`, `NothingTrustedAfterLoss`, `StopHonoured`, `RetriesEnd` |
| `bars` | 3 observations with lags, running totals that rise, fall and repeat, 2 aggregations, bars of 2 units, lookback 7 | `BarsMatchQuotes`, `VolumeAccountedFor`, `TrustedSeriesIsWhole`, `NarrowedOnlyByARace` |
| `signals` | 2 locked processes, 1 signal, 3 ticks, 1 channel that one process may not use, 2 attempts, 2 faults | `OrderedOnce`, `RowsAgree`, `AnnouncedFirst`, `TicksEnd` |
| `sessions` | 2 clients, 6 saves, days of up to 4 bars; 2 operators, 4 versions, 2 timeframes, 2 universes, 1 channel | `SessionIsWhole`, `NoLookAhead`, `EvidenceOfReconcile` |
| `history` | a backtest of 2 series that may be executed twice and a sync of one of them; 2 faults | `ClaimsAreBacked`, `NeverLeftBehind`, `RealIsKept` |
| `backtest` | the first engine: every history of 5 bars from 12 inputs, 3 kinds of bars; portfolios: 2 instruments, 2 prices, sizes fixed or by cash, 2 positions over 3 bars or 1 over 4; the stateful one: 7 bars, 4 prices that reach five times apart, a plan per direction or none, scarce balance, tight limits | `CurvesMatchFills` (first two), `PlanIsKept`, `NoHindsight` (first), `CapitalAccounted`, `OnePositionEach` (portfolios), `ManagedIsHeld` (stateful) |

### Why the bounds are enough

Three orders are enough for a position to be opened, added to and closed while another
order rests, and for a reversal. Two processes are enough for every race on one row: a row
only ever concerns its holder and one challenger. One halt and one end of day
(`squareoff_orders`) make the two kinds of rows meet on the same position; a second halt is a
new row, independent of the first but for the position. `UnsavedBound` leaves out that both
processes have orders the ledger never learnt of: one such process is what another may fail to
notice. `squareoff_live` needs two workers: a halt is completed by one while the other has an
order past the switch, and the other can be one no check reaches. Without monitored positions
and end of day, which can only close more, its graph is small enough for a liveness check. The staleness limits are 1 tick
instead of 120 s and 300 s; only the order of an attempt's length and the limit matters.
Ten shares make the first third round down and the next ones up; the size limit is wide
enough never to refuse an exit there (`squareoff_unconditional` is about one that does). The
lot of `broker_lot` and its prices are chosen so that averages are whole numbers; otherwise
the blended average is rounded and `CashExplainedByPnl` is off by that rounding, in the code
too.

Two runs of the worker are needed for a request that outlives a run, two attempts for a
retry and an exhausted budget, two strategies for one that fails before another. Three
observations put two into one bar and one beside it, in any order, with a gap; the session
closes at 7 and time ends at 8, so that the lookback moves past the beginning of a bar. A gap, a
refused bar after it and a trusted one after that take a fourth observation, more than the run
has: it shows `TrustedSeriesIsWhole` on shorter series, the theorem on all. The
third tick of `signals` finds what two interleaved or cut-off ones left behind. Five bars
allow two trades to adjoin, or one with a plan to leave after a bar that reached none of its
levels; the inputs reach stop, trailing stop, two targets, reversal and the end of data, and
refusals by loss and by size.

Two instruments of a portfolio compete for room and cash, in both orders of entry and exit;
four bars allow one of them to be left and entered again, or the other to take its room; a
price that more than doubles takes a short position beyond what was committed to it. Seven
bars of the stateful engine are an entry, three targets and a stop, and the entry after them;
nine units have thirds of 3, 2 and a rest; a purchase may fail for lack of balance as an entry
and as a cover, also as the cover of a third (a short sale at 1 after a loss does not bring in
what a third costs at 5), an exit be refused by size, exposure and loss. The exception a third
of 0.0001 raises is in the model and beyond these bounds.

Four versions are three saves: two operators' overlapping ones and one that follows a start.
The strategies a configuration selects are saved, carried and applied as the timeframe is, so
the run varies the timeframe only; the theorem is about both.

Executions of `history` are one web and one worker execution per run; faults are bounded per
run (2 in the backtest, none in the sync, whose bars they would only delay).

Deadlock is checked except in `bars`, `signals`, `sessions`, `history`, `backtest`: there the bounds
(ticks, saves, reads, runs, bars) are used up at last, and nothing is left to do.

### Fairness

`squareoff_live`: beat repeats the check every 15 s, and an attempt takes far less, so the
checks reach a worker in `Reached` again and again, also at moments when no other attempt
holds the row (strong fairness of the check at such a moment, and of the claim). That beat
reaches a given process of the pool is an assumption: Celery's pool promises it of some child,
not of each, so the run assumes it of one worker and not of the other. An attempt or order
that was started goes on; not every attempt dies before its judgement or loses its mark
(strong fairness of `Judge` and `Mark`: crashes and failing marks may recur, not for ever at
the same place); time passes. Nothing is assumed of reconciliations, entries, the operator or
the end of day.
In `monitor` only the repeated square-off is fair. In `worker` the three coroutines are: the
asyncio loop runs what is ready. Neither the server nor the operator is. `StopHonoured` has
the two exits the code has: a watcher that died of a database error, and a request that was
withdrawn. In `signals` each process goes on with its tick; a channel may fail for ever.
`history` has no fairness: that a run ends is stated as the invariant `NeverLeftBehind` (an
unfinished run is queued, being executed, or its execution died), because the state space is
too large for a liveness check.

### What the properties allow, and why

`OneAttemptAtATime` rests on `AttemptsEndInTime`, which is an assumption, not code: nothing
stops an attempt from running longer than the staleness limit, and then a second one starts
beside it and the marks of both are written unconditionally.

`CompletedMeansFlat` promises what the code can promise: the attempt's own broker is flat,
and, where it could reconcile, those of other processes too unless their orders never
reached the ledger. An order past the kill-switch check when the switch is engaged may still
open a position afterwards; `HaltedStartsNothing` says that this and the exit of a ledger
position without a broker position are the only ways.

`HaltLeadsToFlat` has three exits: the operator's reset; a position whose exit the risk gate
refuses however often it is asked (`Stuck`); and a halt that was marked COMPLETED while
something was out of the attempt's reach (`overlooked`): another process's position, an order
of another process past the switch, a ledger position no broker holds. COMPLETED is final, so
what is opened or left there is closed by nobody.

`OrderedOnce`, `RowsAgree` and `AnnouncedFirst` (the first case only) excuse two cases by
history variables: ticks that overlapped
because a lock lapsed (or was deleted by a slow holder: release reads and then deletes), and
a tick cut off between the broker and its rows. A second tick that runs beside the first one, after the
lock lapsed, does announce a signal as new whose order row the first one has written.

`EvidenceOfReconcile` speaks of what a cycle takes from the configuration: the switch, the
timeframe, the strategies, the channels. The universe is the one the worker's process started
with; the property claims it only of a process that started under the desired version. That
RUNNING means the desired universe is subscribed is not true of the code.

`TrustedSeriesIsWhole` is about the session from its first observation on and about intervals
that were observed at all: an interval without a quote is not a bar, and a strategy is handed
every closed bar before the trusted one, also those promotion refused.

`NarrowedOnlyByARace` excuses a caller that
read before the one it overwrites, and the lookback's edge after the session is closed.
`RealIsKept` excuses an execution that had found the slot missing before a real bar came.

## Where documents and code disagree

`squareoff_unconditional` ends in a counterexample on purpose: `position_monitor_runtime.py`
says the square-off closes every position, unconditionally, but the size, exposure and
position-count checks of the gate apply to exits and can refuse them.

The models contain these behaviours too; they are recorded here, without a run:

- `PaperBroker`: what a fill has beyond the position it closes reaches cash, not the
  position, although a `Fill` "cannot silently disagree with the Position" (checkpoint 64.45).
- `SquareOff`: after a restart the monitor's exit opens the reverse of a position only the
  ledger has, although a reducing order "exclusively shrinks" one (`policy.py`); the end of
  day is the "nothing should still be open" backstop (`celery.py`) for the broker of one
  process only. An order that passed the switch before it was engaged (`paper_trading.py:103`)
  may fill after another process has marked the halt COMPLETED; nobody closes it, as a
  COMPLETED halt is not taken up again.
- `PositionMonitor`: the first third is rounded down, the order stays working and blocks
  later exits, which are recorded as done; every filled signal order attaches a plan again,
  though it is said to happen once per position (`paper_ledger_repository.py`). Both need
  exit plans, which no production caller asks for yet.
- `MarketDataWorker`: an orderly close by the peer ends the run with RUNNING and HEALTHY in
  the row (`run_market_data_worker.py:1117`, against `worker_health_tracker.py:6`). A stop
  request made during the start is cleared (`:1075`). A connection lost while subscribing
  raises instead of reconnecting (`:1108`). A watcher that meets a database error dies
  silently, and its exception skips the clean-up at the end (`:1149`). A killed run leaves
  RUNNING, and its scan SCANNING. The token is evaluated once; the attempts are counted for
  the whole life; two workers are not kept apart.
- `SignalPath`: every evaluation is a new event, so the check for what was already sent never
  finds anything, although `signal_communication.py` means it to; rejected signals are
  announced again in every tick. A tick cut off between broker and order row leaves the key
  in that broker, and later ticks raise `DuplicateOrderSubmissionError`. The worker's paper
  mode and the active loop task take no lock. Once a lock has lapsed (`distributed_lock.py:70`),
  the second tick announces as new a signal the first one is ordering
  (`signal_communication.py:176` looks for the event, which is another one).
- `BarAggregation`: the bars before a promoted one are said to be "already accepted this
  session", and no strategy to run on a `SAMPLE_BAR` series (`promotion.py:71`), but every closed
  bar is appended to them, refused or not, and all are handed to the strategy
  (`signal_pipeline_runtime.py:137`, `:158`): a series may have gaps before its last two bars.
- `ReplaySession`: the projection asks the kill switch as it is now
  (`replay_paper_session.py:426`), although "the same (spec, cursor) can only ever produce
  one answer" (`:35`). A step saved late can bring a stopped session back (a whole row still).
- `LiveSession`: start and stop save no notification channels, which resets them
  (`live_paper_session.py:159`), and save settings read earlier. RUNNING is called "real
  evidence the worker reconciled" (`:97`), but the version a cycle reports
  (`run_market_data_worker.py:540`) covers a universe it did not apply; a changed universe is
  said to take effect "on the NEXT reconnect" (`:430`), while a reconnect subscribes the
  instruments resolved when the process started (`:1023`, `:1108`): only a restart applies it.
  A refused start writes no row, though AUTH_FAILED and TOKEN_EXPIRED "at startup" are what
  FAILED is derived from (`live_paper_session.py:65`). A killed worker leaves RUNNING.
- `HistoricalRuns`: the orchestrator is built outside the `try` (`tasks.py:289`), which leaves
  the row QUEUED if it raises, though "a run must always end in a terminal, reported state"
  (`:292`). A sync of PARTIAL coverage is COMPLETED. Coverage counts bars of any provenance,
  so a synthetic bar is never fetched again and the research gate refuses the range for ever.
  A failure whose update raises counts twice, so FAILED can be shown beside saved results.
- `BacktestEngine`: a planned exit is booked at its level even when the bar opened beyond it,
  so a stop may be filled at a price the bar never traded and better than any it did, though
  the policy takes "the worse outcome for the position" (`tradeplan_execution.py:127`). The
  entry bar is never examined. A NEUTRAL signal closes a position as "signal_reversal". The
  result of the whole run stands for the day's loss. A second target is only reachable by a
  plan without a first.
- `PortfolioBacktest`: an exit may lower `available_cash`, below zero too, though only an entry
  should (`portfolio.py:17`): a short position may lose more than its notional (`:381`).
- `StatefulBacktest`: the last bar force-closes what is open (`historical_execution.py:575`),
  unless that bar hits a target (`:757`) or the gate refuses. "APPROVED: a `ManagedPosition`
  is constructed" (`:564`), unless the balance does not pay for it; then `next()` (`:710`) raises `StopIteration`. The "maximum daily loss" of the gate is compared to
  the result of the newest position only, as an entry replaces the closed position and its loss
  (`:636`; `paper_trading.py:129` sums the same way). A cover that is not paid for is taken for
  done (`:798`).

## Proofs

All proofs are for any values of the constants that meet the named assumptions, which TLC
evaluates in every run.

`PaperBrokerProofs` (any orders, intents, prices, fill ratio, quantum, slippage and charges;
the assumptions are those the code's own validation and configuration give). What is proved
of `GatewaySpec`, which amends orders too, holds of `Spec`:

- `TypeCorrect`, `NeverOverdrawn` (`Solvent`) for `GatewaySpec`, `NeverOverfilled`
  (`OrdersAddUp`) for `Spec`, from the inductive invariant
  `IInv == TypeOK /\ Solvent /\ OrdersAddUp /\ Walked`. Solvency of a SELL needs that its
  charges do not exceed its value (`CostBound`); that a fill has a positive quantity needs
  `OrdersAddUp`; that the order a tick looks at exists needs `Walked`.
- `TerminalStaysFinal` (`TerminalIsFinal`) and `LimitsRespected` (`LimitNeverWorse`), by a
  case for each call.
- `TicksMissNothing` (`TickLeavesNothingExecutable`): of the orders a tick has still to look
  at and those it is past, only the former may be executable, as the price it recorded is
  the latest one until it ends.
- `OrdersMatchFills`: the filled quantity of an order is the sum of its fills.
- `FillsExplained` (`FillsExplainAll`), `CashExplained` (`CashExplainedByPnl`). The code keeps
  neither promise when a fill exceeds the position it closes (see above), nor the second when
  an average is rounded, so the theorems are about behaviours in which that does not happen:
  `[][NoOverClose]` and `[][NoOverClose /\ AveragesExact]`. Every step of `broker_lot` meets
  both: one lot, and prices whose averages are whole. With charges that differ by side the
  cash identity needs the entry cost that is left, `_position_entry_cost`, in its sum.

`SetLemmas`: the community modules define a sum by a recursion over the subsets of a finite
set, as the CHOOSE of a function. The lemmas show that this function exists and is unique, by
taking a smallest counterexample (`LeastSet`), and from that what a sum is after a member
joins, leaves or changes. `Counting` is induction for a set that is given (what holds at 0 and
goes from each number to the next holds up to n): the loops of the engines and of the bars are
followed with it. No theorem of the library with an operator parameter is needed.

`SquareOffProofs` (any processes, halts, instruments, limits and failures):

- `ClaimsImplementLease` (`OneAttemptAtATime`): every step of `SquareOff` is a step of
  `HaltLease` or leaves it alone. It rests on `LeaseInvariant`, the invariant `LeaseInv`: a
  process that works on an event holds its claim IN_PROGRESS, exactly as old as its attempt,
  and no other process works on it. Without the ages the rows would not tell a live holder
  from a dead one, so a stale claim could be taken from either. The assumption
  `AttemptsEndInTime` enters in `ClaimStep` alone: there it makes a live claim too young.
- `SizeLimitKept`: no broker exceeds the position-size limit. The limit is checked in one
  step and the order executed in another; `RoomLeft` says that an order that passed the check
  still fits, because its process does nothing else in between.
- `HaltedStartsNothingHolds`, `CompletedMeansFlatHolds`, from `BooksKept`, which relates the
  brokers to the ledger: `Backed` (a watched row lies on the side of what its owner's broker
  holds) and `Noticed` (a broker that is not flat is one whose orders every other broker has
  found to be foreign), both unless an order was lost. The first property needs `Backed`: a
  monitor's exit, computed from the row, can then only shrink the position. The second needs
  `Noticed`: only so does a clean reconciliation say anything about other processes.

`ManagedPositionProofs` (any prices, plans, quantities, limits and rounding), with what both
engines use of the exit policy: `DecisionGoesOn` (only a later stage is decided for) and
`DecisionWithin` (for no more than remains).

- `TicksGoForwardHolds` (`TicksGoForward`), from `MonitorInvariant`, whose point is that
  nothing remains of a row that was stopped.
- `NeverWedgedHolds` (`NeverWedged`), from `WatchInv`. If the broker fills a signal's lot whole,
  `WatchInv` says of a row with a plan that it is on the side of what is held, that what rests
  is the part of its exit the rounding left (less than a quantum), and that what remains is at
  most what is held less what rests; the row's quantity is then never below what remains. If
  it does not, no order of a signal is ever FILLED and no row gets a plan.
- `WatchedInFullHolds` (`WatchedInFull`) where there is room, `Roomy`: the size limit has twice
  the position signals build up, as an exit counts beside what it closes. Without it the
  property is false: an exit the limit refuses is recorded as done. `monitor` is roomy.
- `ManagedIsHeldHolds` (`ManagedIsHeld`) of the stateful backtest: the managed position is on
  the side of the simulator's, with no more than its quantity, and with all of it if it is long
  or at its first stage, where no cover can have gone unpaid. (That they are always equal holds
  in small instances only: the balance has to fall below the cost of a third.)

`SignalPathProofs` (any processes, signals, channels, outcomes and faults): `OneOrder`
(`OrderedOnce`), `TablesAgree` (`RowsAgree`), `NoticesFirst` (`AnnouncedFirst`), `TypesHold`,
from `Inv`, four conjuncts: `Shapes` (the types, and an index that is in range wherever it is
used), `Alone` (unless ticks overlapped, who works holds the lock), `Knows` (what a process
has looked up and announced on its way to the submission) and `Tracked` (a signal has at most
one order, which its row shows or the process that placed it is about to record, unless ticks
overlapped or one was cut off in it).

`HistoricalRunsProofs` (any runs, plans, calendars, faults): `WellShaped`,
`NothingLeftBehind` (`NeverLeftBehind`), `RealBarsAreKept` (`RealIsKept`),
`BacktestsTellTheTruth` (`ClaimsAreBacked`). The second rests on `RangesMissing` (an
execution only fetches what it found missing), the last on `Counted`: an execution without a
failure has a result of every series it is past, one with fewer failures than series has one
of them, although the same failure may be counted twice.

`MarketDataProofs`, of the worker (any budgets, batches, strategies, edits and faults):
`StopIsRecordedHolds`, `CompletedMeansCleanHolds`, `NothingTrustedAfterLossHolds`, from
`WorkerInvariant`: `Authenticated` (beyond the boot the token was usable), `Endings` (why the
run ended and what its row and tracker say of it agree at every step of the shutdown) and
`ScanCounted` (the report of a scan counts the strategies it ran). The walk through the
transition table is proved as `Verdicts`.

`MarketDataProofs`, of the bars (any quotes, durations, lags, lookbacks that cover a session,
interleavings of the two callers, and orders of rows with equal timestamps). The argument goes
from one turn of the walk to the table:

- `Walking` is what holds after k turns: one bar for each interval that had a quote, in its
  place, which is a bar of exactly the quotes of that interval, and one gap for each that had
  none, except the one that is forming. Every turn keeps it (`QuietTurn`, `BusyTurn`).
  `Counted` is the same for the volumes: the baseline is the last reading so far, and the bars
  hold its growth since the first interval with a reading; that readings at later positions lie
  in the same or a later interval is what makes a turn's difference the right one.
- `BarInvariant` (`BarInv`): a caller at work holds a reading of the rows there were when it
  read, that reading's aggregation and what it trusts; a stored bar counts the rows its caller
  got to read (`HeldBy`). A reading is a one-to-one listing of those rows, whatever order the
  database chose, so quotes and rows are equally many (`CountedInRows`).
- `BarsAreOfTheirQuotes` (`BarsMatchQuotes`) and `VolumeIsAccountedFor` (`VolumeAccountedFor`)
  follow from the walk. The proofs include quotes without a volume, which the run leaves out.
- `TrustedSeriesAreWhole` (`TrustedSeriesIsWhole`): while the session is open the lookback begins
  before it (`OpenReachesBack`, the only use of `Lookback >= CloseAt`), so a closed bar counts
  every row of its interval. A row before the end of the trusted bar lies in a closed bar that
  is handed over with it (`BarBefore`, `HandedHolds`), so nothing observed is missing from the
  series; and promotion asks that the last closed bar before it be its neighbour.
- `BarsNarrowOnlyByARace` (`NarrowedOnlyByARace`): who read no earlier, by a clock not behind,
  and whose lookback covers the bar, counts at least the rows of the bar it overwrites.

`SimulatedRunsProofs`:

- Of the sessions (any days, strategies, clients, operators): `RowsAreWhole`
  (`SessionIsWhole`), from the fact that each request a client carries is a whole session
  already; `StateIsBacked` (`EvidenceOfReconcile`), from the fact that a version names one
  configuration: a cycle that holds the desired version holds its settings (`Current`), a
  process that started under it its universe (`Backed`); `ProjectionLooksBack` (`NoLookAhead`): the two days drive the same recursion, step
  by step (`StepLooksBack`), so the folds are one and the same function.
- Of a portfolio (any instruments, prices, lengths, sizes): `OnePositionEachHolds`
  (`OnePositionEach`). It rests on `LeftBehind`: an instrument that had its turn at a bar may
  have left at the next one, the others at this bar at the latest, so what is entered at the
  next bar on one's turn is entered after one left.
- `CapitalIsAccounted` (`CapitalAccounted`) and `CurveIsOfItsFills` (the portfolio's
  `CurveMatchesFills`, a conjunct of the run's `CurvesMatchFills`), from `MoneyInv`, which adds
  two things to them: `Holdings` (an open position was entered by the bar after the one at
  hand and has its cost and size) and `Calendar` (no trade leaves before it entered or later
  than the loop has come). The assumption `PortfolioConstants` has one clause the proof asked
  for, a price stays positive after slippage, so that a size by cash is a whole number.

- Of `run_backtest` (any bars, signals, plans, sizes, limits and costs), from `LoopInv`, which
  holds after every turn of the loop (`LoopHolds`): `Booked` (two fills for every trade, whose
  result they give), `OneByOne` (trades do not overlap and none is later than the next bar) and
  `ByPlan` (the exit of a position is the one that was looked up for its plan, and still lies
  ahead).
  - `PlansAreKept` (`PlanIsKept`) is for plans whose levels are ordered (`WorstFirst`: stop,
    trailing stop, targets, from the worst to the best). The code checks the levels in that
    order and takes the first, which is the worst for the position only if the levels are in
    it. The default multipliers of the strategies give the order, but each is configured for
    itself and nothing enforces it. `MCBacktests` assumes `WorstFirst` too, so TLC evaluates
    it of the inputs of `backtest`.
  - `EngineCurveIsOfItsFills` (`CurveTellsFills`), `CurvesAreOfTheirFills` (`CurvesMatchFills`,
    with the portfolio's): up to any bar, the fills are those of the first k trades, pair by
    pair (`Pairs`), and at most one of the trade that is held.
  - `HindsightChangesNothing` (`NoHindsight`) compares the loops over n and n + 1 bars turn by
    turn: the runs stay `Alike`, differing at most in an exit that still lies ahead
    (`ExitsAlike`: one more bar adds an exit only at that bar). What the last turn of either
    does lies at or after bar n, but for what is forced out at the end.

Only model-checked: liveness (`HaltLeadsToFlat`, `HaltConverges`, `StopHonoured`,
`RetriesEnd`, `TicksEnd`), which TLAPS does not do here.

## Plan

Done: broker, halts, monitor, worker, bars, signal path with communication, sessions,
historical runs, the three backtest engines; a theorem for every safety property the runs
check.

Left: the token's renewal, `mark_to_market.py` against the ledger, the archive; of the proofs,
that `WorstFirst` is what the strategies' configuration is validated to, once it is.

Composition: `SquareOff` composes brokers, ledger, switch and monitor at the level of lots;
`PaperSessions` composes the sessions over the kill switch. `SignalPath` would feed
`SquareOff`'s `StartEntry`, and `BarAggregation` would feed `SignalPath` its signals: their
product is beyond TLC, and each states what the next one relies on (`TrustedSeriesIsWhole`,
`OrderedOnce`).

## Not modelled

- Events, reports, P&L marks, utilized margin: views of modelled state.
- The trade-count, session, allow-list and per-trade checks of the gate; the loss check is in
  the backtests only.
- Who feeds prices: only the emergency square-off records prices on the process-wide
  broker, so as shipped a MARKET order of a fresh process is rejected for lack of one.
  `SquareOff` and `PositionMonitor` assume a price; `PaperBroker` has the rejection.
- Concurrency inside one broker: each process drives its broker from one thread.
- The fake providers of the worker, the attempt to renew a token, quotes without a volume in
  the run `bars` (the operators and the proofs have them), the kill switch inside `SignalPath` (part of the
  broker's answer).
- Of backtests: counters, identifiers, the position lifecycles that reflect the loops, the
  metrics beyond the net result, `mark_to_market.py`, and the simulator's
  `withdraw_pending_order` and `amend_pending_order`: an order there is never pending.
- Indicators, strategies, signal verification, calendar, archive, packet decoding, settings,
  HTTP and front end: sequential, pure or I/O. `PROJECT.json` lists them with reasons.
