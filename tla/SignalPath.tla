----------------------------- MODULE SignalPath -----------------------------
(***************************************************************************)
(* From a promoted bar to an order and the messages about it.  The         *)
(* ingestion task runs in any of several Celery processes, under a lock    *)
(* that expires (Locked); the market data worker and the active loop task  *)
(* run the same code without it.  Each process has a broker of its own in  *)
(* memory; the order rows, the signal rows and the communication ledger    *)
(* are in the database.  Every promoted bar is evaluated again in every    *)
(* tick, so everything rests on knowing which signals are done.            *)
(*                                                                         *)
(* Any call to the database may raise: the tick ends there.  A process may *)
(* be killed.  A message that is reported as timed out may have arrived.   *)
(* An operator named Bad... is a plausible mistake in the operator that    *)
(* follows it; nothing else uses it.                                       *)
(***************************************************************************)
EXTENDS Integers, FiniteSets, Sequences

CONSTANTS Procs, Locked,      \* the processes, those that take the ingestion lock
          Signals,            \* the signals of the promoted bars, in their order
          Channels,           \* the configured channels, in their order
          Selected,           \* the channels a process may send to
          Outcomes,           \* the templates for what the broker may say of an order
          MaxAttempts,        \* NotificationRouter.max_attempts
          MaxTicks, MaxFaults \* bounds

Nobody == "nobody"
Elements(s) == {s[i] : i \in DOMAIN s}

ASSUME PathConstants ==
  /\ Nobody \notin Procs /\ Locked \subseteq Procs
  /\ Signals \in Seq(STRING) /\ Channels \in Seq(STRING)
  /\ Selected \in [Procs -> SUBSET Elements(Channels)]
  /\ Outcomes \subseteq {"ORDER_REJECTED", "PARTIAL_FILL", "ORDER_FILLED", "ORDER_SUBMITTED"}
  /\ MaxAttempts \in Nat \ {0} /\ MaxTicks \in Nat /\ MaxFaults \in Nat

VARIABLES lock,      \* the cache key of the ingestion lock
          rows,      \* the signals that have a PaperOrderRecord
          recorded,  \* SignalRecord: the outcome it shows
          broker,    \* the idempotency keys each process's PaperBroker has seen
          proc,      \* what each process is doing
          ledger,    \* CommunicationLedgerRecord: signal, template, channel, status
          ticks, faults,
          overlap,   \* history: two ticks may have run at once
          placed,    \* history: how many orders the brokers took for a signal
          cut        \* history: the signals a tick was cut off in

stored == <<lock, rows, recorded, ledger>>
vars == <<stored, broker, proc, ticks, faults, overlap, placed, cut>>

SignalIds == Elements(Signals)
Idle == [at |-> "idle"]
Busy(p) == proc[p] # Idle
Now(p, change) == proc' = [proc EXCEPT ![p] = change]

Init ==
  /\ lock = Nobody /\ rows = {} /\ ledger = {}
  /\ recorded = [s \in SignalIds |-> "none"]
  /\ broker = [p \in Procs |-> {}] /\ proc = [p \in Procs |-> Idle]
  /\ ticks = 0 /\ faults = 0 /\ overlap = FALSE
  /\ placed = [s \in SignalIds |-> 0] /\ cut = {}

-----------------------------------------------------------------------------
\* The lock.

BadFree(p) == TRUE
Free(p) == p \in Locked => lock = Nobody

\* A tick begins with the bars that are promoted at this moment.
Tick(p) ==
  /\ proc[p] = Idle /\ ticks < MaxTicks /\ Free(p)
  /\ lock' = IF p \in Locked THEN p ELSE lock
  /\ overlap' = (overlap \/ p \notin Locked)
  /\ \E n \in 1..Len(Signals) : Now(p, [at |-> "next", todo |-> SubSeq(Signals, 1, n)])
  /\ ticks' = ticks + 1
  /\ UNCHANGED <<rows, recorded, ledger, broker, faults, placed, cut>>

\* The key expires, 90 seconds after it was set.
Lapse ==
  /\ lock # Nobody
  /\ overlap' = (overlap \/ Busy(lock))
  /\ lock' = Nobody
  /\ UNCHANGED <<rows, recorded, ledger, broker, proc, ticks, faults, placed, cut>>

\* release: the holder's own key is looked up first and deleted after.
Release(p) ==
  /\ proc[p].at = "done"
  /\ Now(p, IF lock = p THEN [at |-> "deleting"] ELSE Idle)
  /\ UNCHANGED <<stored, broker, ticks, faults, overlap, placed, cut>>
Delete(p) ==
  /\ proc[p].at = "deleting"
  /\ lock' = Nobody /\ Now(p, Idle)
  /\ UNCHANGED <<rows, recorded, ledger, broker, ticks, faults, overlap, placed, cut>>

-----------------------------------------------------------------------------
\* Delivery: one event after the other, each to one channel after the other.

Rest(p) == [proc[p] EXCEPT !.todo = Tail(@)]
Announce(p, template, then) ==
  IF Channels = <<>> THEN [at |-> then, todo |-> proc[p].todo]
  ELSE [at |-> "send", todo |-> proc[p].todo, template |-> template, channel |-> 1, attempt |-> 1,
        then |-> then]

Current(p) == Head(proc[p].todo)
Entry(p, status) ==
  [signal |-> Current(p), template |-> proc[p].template,
   channel |-> Channels[proc[p].channel], status |-> status]

\* The channel is done with: the next one, or what follows the event.
Onward(p) ==
  IF proc[p].channel < Len(Channels)
  THEN [proc[p] EXCEPT !.channel = @ + 1, !.attempt = 1, !.at = "send"]
  ELSE [at |-> proc[p].then, todo |-> proc[p].todo]

Skip(p) ==
  /\ proc[p].at = "send" /\ Channels[proc[p].channel] \notin Selected[p]
  /\ ledger' = ledger \union {Entry(p, "SKIPPED_NOT_SELECTED")}
  /\ Now(p, Onward(p))
  /\ UNCHANGED <<lock, rows, recorded, broker, ticks, faults, overlap, placed, cut>>

\* What ends the loop: success, an error that will not go away, or the last attempt.
LastAttempt(attempt, answer) == answer \in {"sent", "refused"} \/ attempt = MaxAttempts

\* provider.send: delivered, refused for good, or an error that is worth another attempt
\* (a timeout, a failed connection, 429, 5xx).  Nothing is recorded before the loop is over.
\* The event is new every time, so the search for an earlier delivery of it finds none.
Send(p) ==
  /\ proc[p].at = "send" /\ Channels[proc[p].channel] \in Selected[p]
  /\ \E answer \in {"sent", "refused", "retry"} :
       Now(p, IF LastAttempt(proc[p].attempt, answer)
              THEN [proc[p] EXCEPT !.at = IF answer = "sent" THEN "sent" ELSE "failed"]
              ELSE [proc[p] EXCEPT !.attempt = @ + 1])
  /\ UNCHANGED <<stored, broker, ticks, faults, overlap, placed, cut>>

\* The row is written, then the next channel.
BadRecord(p) ==
  /\ proc[p].at \in {"sent", "failed"}
  /\ ledger' = ledger \union {Entry(p, IF proc[p].at = "sent" THEN "SENT" ELSE "FAILED")}
  /\ Now(p, IF proc[p].at = "sent" THEN Onward(p)
            ELSE [proc[p] EXCEPT !.at = "send", !.attempt = 1])
  /\ UNCHANGED <<lock, rows, recorded, broker, ticks, faults, overlap, placed, cut>>
Record(p) ==
  /\ proc[p].at \in {"sent", "failed"}
  /\ ledger' = ledger \union {Entry(p, IF proc[p].at = "sent" THEN "SENT" ELSE "FAILED")}
  /\ Now(p, Onward(p))
  /\ UNCHANGED <<lock, rows, recorded, broker, ticks, faults, overlap, placed, cut>>

-----------------------------------------------------------------------------
\* One promoted bar: run_active_loop_tick and evaluate_and_submit.

\* load_processed_signal_ids: the signals with an order row, read once for each bar.
BadProcessed(s) == FALSE
Processed(s) == s \in rows

\* The strategy has nothing, is neutral, fails, or the signal is done: the next bar.
PassOver(p) ==
  /\ proc[p].at = "next" /\ proc[p].todo # <<>>
  /\ Now(p, Rest(p))
  /\ UNCHANGED <<stored, broker, ticks, faults, overlap, placed, cut>>

\* A new signal is announced before anything else is done about it.
Evaluate(p) ==
  /\ proc[p].at = "next" /\ proc[p].todo # <<>>
  /\ ~Processed(Current(p))
  /\ Now(p, Announce(p, "VALIDATED_SIGNAL", "submit"))
  /\ UNCHANGED <<stored, broker, ticks, faults, overlap, placed, cut>>

\* The risk gate turns the order down: a halt, or one of its other checks (see SquareOff).
Reject(p) ==
  /\ proc[p].at = "submit"
  /\ Now(p, Announce(p, "VALIDATED_SIGNAL_EXECUTION_BLOCKED", "blocked"))
  /\ UNCHANGED <<stored, broker, ticks, faults, overlap, placed, cut>>

\* PaperBroker.submit_order takes a key once and raises DuplicateOrderSubmissionError after.
Accept(p) ==
  /\ proc[p].at = "submit" /\ Current(p) \notin broker[p]
  /\ broker' = [broker EXCEPT ![p] = @ \union {Current(p)}]
  /\ placed' = [placed EXCEPT ![Current(p)] = @ + 1]
  /\ Now(p, [proc[p] EXCEPT !.at = "persist"])
  /\ UNCHANGED <<stored, ticks, faults, overlap, cut>>
Duplicate(p) ==
  /\ proc[p].at = "submit" /\ Current(p) \in broker[p]
  /\ Now(p, [at |-> "done"])
  /\ cut' = cut \union {Current(p)}
  /\ UNCHANGED <<stored, broker, ticks, faults, overlap, placed>>

\* sync_snapshot, then the message about what became of the order.
Persist(p) ==
  /\ proc[p].at = "persist"
  /\ rows' = rows \union {Current(p)}
  /\ \E outcome \in Outcomes :
       Now(p, Announce(p, outcome, "ordered"))
  /\ UNCHANGED <<lock, recorded, ledger, broker, ticks, faults, overlap, placed, cut>>

\* record_signal: update_or_create with what this evaluation came to.
BadRecordSignal(p) ==
  /\ proc[p].at \in {"blocked", "ordered"}
  /\ recorded' = [recorded EXCEPT ![Current(p)] = "ordered"]
  /\ Now(p, [at |-> "next", todo |-> Tail(proc[p].todo)])
  /\ UNCHANGED <<lock, rows, ledger, broker, ticks, faults, overlap, placed, cut>>
RecordSignal(p) ==
  /\ proc[p].at \in {"blocked", "ordered"}
  /\ recorded' = [recorded EXCEPT ![Current(p)] = proc[p].at]
  /\ Now(p, [at |-> "next", todo |-> Tail(proc[p].todo)])
  /\ UNCHANGED <<lock, rows, ledger, broker, ticks, faults, overlap, placed, cut>>

Finish(p) ==
  /\ proc[p].at = "next" /\ proc[p].todo = <<>>
  /\ Now(p, [at |-> "done"])
  /\ UNCHANGED <<stored, broker, ticks, faults, overlap, placed, cut>>

-----------------------------------------------------------------------------
\* The environment.

Interrupted(p) == IF proc[p].at \in {"next", "done", "deleting"} THEN cut
                  ELSE cut \union {Current(p)}

\* A database call raised: the tick is over, the process and its broker live on.
Fail(p) ==
  /\ Busy(p) /\ proc[p].at \notin {"done", "deleting"} /\ faults < MaxFaults
  /\ Now(p, [at |-> "done"])
  /\ faults' = faults + 1 /\ cut' = Interrupted(p)
  /\ UNCHANGED <<stored, broker, ticks, overlap, placed>>

\* The process is killed; its lock stays until it expires.
Kill(p) ==
  /\ Busy(p) /\ faults < MaxFaults
  /\ Now(p, Idle)
  /\ broker' = [broker EXCEPT ![p] = {}]
  /\ faults' = faults + 1 /\ cut' = Interrupted(p)
  /\ UNCHANGED <<stored, ticks, overlap, placed>>

Step(p) ==
  \/ Release(p) \/ Delete(p)
  \/ Skip(p) \/ Send(p) \/ Record(p)
  \/ PassOver(p) \/ Evaluate(p) \/ Reject(p) \/ Accept(p) \/ Duplicate(p)
  \/ Persist(p) \/ RecordSignal(p) \/ Finish(p)

Next ==
  \/ \E p \in Procs : Tick(p) \/ Step(p) \/ Fail(p) \/ Kill(p)
  \/ Lapse

\* A process that works goes on working; nothing has to fail, nobody has to start a tick.
Spec == Init /\ [][Next]_vars
FairSpec == Spec /\ \A p \in Procs : WF_vars(Step(p))
=============================================================================
