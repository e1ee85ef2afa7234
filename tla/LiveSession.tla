---------------------------- MODULE LiveSession ----------------------------
(***************************************************************************)
(* The live paper session is not a process: it is the scanner              *)
(* configuration (desired), which operators edit, start and stop, and the  *)
(* row in which the worker says which version of it it has applied         *)
(* (effective).  The state of the session is derived from the two rows and *)
(* the readiness checks.                                                   *)
(*                                                                         *)
(* Start, stop and the edit form carry the settings they read into a save  *)
(* that counts the version up under a row lock.  Start and stop do not     *)
(* pass the notification channels, which the save takes as none.           *)
(*                                                                         *)
(* The worker reads the configuration twice: once when its process starts, *)
(* for the universe it subscribes, and again in every aggregation for the  *)
(* other settings.  A reconnect subscribes the same universe once more.    *)
(***************************************************************************)
EXTENDS Integers, FiniteSets

CONSTANTS Operators,
          Timeframes, Universes,   \* settings: the bar length, the instruments (the mode,
          Strategies, Alerts,      \* the list and the watchlist in one), what may be selected
          MaxVersion               \* bound

ASSUME LiveConstants ==
  MaxVersion \in Nat /\ "1m" \in Timeframes /\ "ALL_CONFIGURED" \in Universes

VARIABLES desired,     \* ScannerConfiguration
          effective,   \* WorkerRuntimeStatus: none, or a version and the worker's state
          worker,      \* the worker process: DOWN, IDLE, or in an aggregation: CYCLE, REPORTED
          started,     \* the universe of the worker process, and the version it was read of
          applied,     \* history: the settings and the version of the last cycle, and where
                       \* the universe came from
          token,       \* what readiness and the start of the worker ask of the credential
          order        \* the configuration each operator is about to save
liveVars == <<desired, effective, worker, started, applied, token, order>>

Nil == <<>>
Failed == {"FAILED"}   \* AUTH_FAILED and TOKEN_EXPIRED are treated alike
Config == [enabled: BOOLEAN, timeframe: Timeframes, universe: Universes,
           strategies: SUBSET Strategies, alerts: SUBSET Alerts, version: Nat \ {0}]
\* What a cycle takes from the configuration it reads: everything but the universe.
LiveSettings(c) == <<c.enabled, c.timeframe, c.strategies, c.alerts>>

\* How the worker's watchdog judges the state it persists; DEGRADED and STALE count as HEALTHY.
Watchdog(state) == CASE state = "RUNNING" -> "HEALTHY" [] state \in Failed -> "FAILED"
                     [] OTHER -> "DISCONNECTED"

\* evaluate_live_paper_readiness; a MALFORMED token blocks as an EXPIRED one does.
Readiness(halt) ==
  IF halt THEN "BLOCKED_BY_SAFETY"
  ELSE IF token = "UNCONFIGURED" THEN "NOT_CONFIGURED"
  ELSE IF token = "EXPIRED" THEN "CREDENTIAL_EXPIRED"
  ELSE IF effective = Nil THEN "PROVIDER_UNAVAILABLE"
  ELSE IF Watchdog(effective.state) # "HEALTHY" THEN "PROVIDER_UNAVAILABLE"
  ELSE "READY_FOR_PAPER"
CanStart(halt) == Readiness(halt) = "READY_FOR_PAPER"

\* derive_live_paper_session_state
Reconciled == effective # Nil /\ effective.version = desired.version
SessionState(halt) ==
  IF effective # Nil /\ effective.state \in Failed THEN "FAILED"
  ELSE IF desired.enabled THEN IF Reconciled THEN "RUNNING" ELSE "STARTING"
  ELSE IF effective = Nil THEN IF CanStart(halt) THEN "READY" ELSE "NOT_READY"
  ELSE IF Reconciled THEN "STOPPED" ELSE "STOPPING"

LiveInit ==
  /\ desired = [enabled |-> FALSE, timeframe |-> "1m", universe |-> "ALL_CONFIGURED",
                strategies |-> {}, alerts |-> {}, version |-> 1]
  /\ effective = Nil /\ started = Nil /\ applied = Nil /\ worker = "DOWN"
  /\ token = "UNCONFIGURED"
  /\ order = [o \in Operators |-> Nil]

\* The version is the row's to give when it is saved.
Orders(o, c) ==
  /\ order[o] = Nil /\ desired.version < MaxVersion
  /\ order' = [order EXCEPT ![o] = [c EXCEPT !.version = 0]]
  /\ UNCHANGED <<desired, effective, worker, started, applied, token>>
\* start_live_paper_session, after the checks: what is already on is not saved again.
Start(o, halt) ==
  /\ CanStart(halt) /\ ~desired.enabled
  /\ Orders(o, [desired EXCEPT !.enabled = TRUE, !.alerts = {}])
Stop(o) ==
  /\ desired.enabled
  /\ Orders(o, [desired EXCEPT !.enabled = FALSE, !.alerts = {}])
\* The form is filled in from what was read; the operator changes what they like.
Edit(o) ==
  \E e \in BOOLEAN, t \in Timeframes, u \in Universes,
     s \in SUBSET Strategies, a \in SUBSET Alerts :
    Orders(o, [enabled |-> e, timeframe |-> t, universe |-> u,
               strategies |-> s, alerts |-> a, version |-> 0])

\* DjangoScannerConfigurationRepository.save: the version of the locked row plus one.
Submit(o) ==
  /\ order[o] # Nil
  /\ desired' = [order[o] EXCEPT !.version = desired.version + 1]
  /\ order' = [order EXCEPT ![o] = Nil]
  /\ UNCHANGED <<effective, worker, started, applied, token>>

\* The worker starts with a usable token and subscribes the universe it finds; it writes
\* nothing before its first cycle.  A start that is refused (a bad token, no instrument
\* resolved) writes nothing at all.
WorkerStarts ==
  /\ worker = "DOWN" /\ token = "VALID"
  /\ worker' = "IDLE"
  /\ started' = [universe |-> desired.universe, version |-> desired.version]
  /\ UNCHANGED <<desired, effective, applied, token, order>>
\* One aggregation: the configuration is read and the cycle runs under it and under the
\* universe of its process; an operator may save another configuration meanwhile.
WorkerReads ==
  /\ worker = "IDLE" /\ worker' = "CYCLE"
  /\ applied' = [settings |-> LiveSettings(desired), version |-> desired.version,
                 process |-> started]
  /\ UNCHANGED <<desired, effective, started, token, order>>
\* It reports the version it read, and then its own state in a write of its own.
Row == IF effective = Nil THEN [version |-> 0, state |-> "STOPPED"] ELSE effective
BadReported == desired.version
Reported == applied.version
WorkerReports ==
  /\ worker = "CYCLE" /\ worker' = "REPORTED"
  /\ effective' = [Row EXCEPT !.version = Reported]
  /\ UNCHANGED <<desired, started, applied, token, order>>
Persists(s) ==
  /\ effective' = [Row EXCEPT !.state = s]
  /\ UNCHANGED <<desired, started, applied, token, order>>
\* The cycle that flushes the remainder is the last one: the connection is over, lost or
\* closed on request (RECONNECTING is read as STOPPED is).
WorkerPersists ==
  /\ worker = "REPORTED"
  /\ \/ worker' = "IDLE" /\ Persists("RUNNING")
     \/ worker' = "DOWN" /\ \E s \in Failed \cup {"STOPPED"} : Persists(s)
\* It stops in order, or is killed and leaves its row as it was.
WorkerStops ==
  /\ worker # "DOWN" /\ worker' = "DOWN"
  /\ \/ worker = "IDLE" /\ Persists("STOPPED")
     \/ UNCHANGED <<desired, effective, started, applied, token, order>>

TokenChanges ==
  /\ \E t \in {"VALID", "EXPIRED"} : t # token /\ token' = t
  /\ UNCHANGED <<desired, effective, worker, started, applied, order>>

LiveNext(halt) ==
  \/ \E o \in Operators : Start(o, halt) \/ Stop(o) \/ Edit(o) \/ Submit(o)
  \/ WorkerStarts \/ WorkerReads \/ WorkerReports \/ WorkerPersists \/ WorkerStops
  \/ TokenChanges
=============================================================================
