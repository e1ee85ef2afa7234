------------------------ MODULE SimulatedRunsProofs ------------------------
(***************************************************************************)
(* The runs on simulated money: the replay row and the derived state of    *)
(* the live session, for any clients, operators, days and numbers of       *)
(* requests, and the two backtests, for any instruments, prices, signals,  *)
(* plans, lengths, sizes and limits.                                       *)
(***************************************************************************)
EXTENDS PaperSessions, BacktestCurves, SetLemmas, TLAPS

-----------------------------------------------------------------------------
(* The replay row.                                                         *)

Statuses == {"STOPPED", "RUNNING", "PAUSED", "COMPLETED"}

\* A row some request may have computed.  FAILED is not among the statuses: no request asks
\* for the command that leads there.
Whole(r) ==
  /\ r \in [status: Statuses, day: Days, cursor: Nat, total: Nat]
  /\ r.total = Steps(r.day) /\ r.cursor <= r.total
  /\ r.status = "COMPLETED" => r.cursor = r.total
  /\ r.status # "COMPLETED" /\ r.total > 0 => r.cursor < r.total

\* The row is whole, and so is what every client is about to save.
ReplayInv ==
  /\ row = Nothing \/ Whole(row)
  /\ request = [c \in Clients |-> request[c]]
  /\ \A c \in Clients : request[c] = Nothing \/ Whole(request[c].new)

LEMMA CreatedIsWhole ==
  ASSUME NEW read, NEW day \in Days, NEW r \in Created(read, day)
  PROVE  Whole(r)
<1>1. Steps(day) \in Nat
  <2>1. Len(day) \in Nat
    BY ReplayConstants
  <2> QED
    BY <2>1 DEF Steps
<1>2. r = [status |-> "STOPPED", day |-> day, cursor |-> 0, total |-> Steps(day)]
  BY DEF Created
<1> QED
  BY <1>1, <1>2 DEF Whole, Statuses

\* RESET goes back to the start, the other commands leave the cursor where it is.
LEMMA CommandedIsWhole ==
  ASSUME NEW read, Whole(read), NEW command \in Commands, NEW r \in Commanded(read, command)
  PROVE  Whole(r)
<1>1. PICK status \in Apply(read.status, command) :
        r = [read EXCEPT !.status = status, !.cursor = IF command = "RESET" THEN 0 ELSE @]
  BY DEF Commanded
<1>2. /\ status \in {"STOPPED", "RUNNING", "PAUSED"}
      /\ command # "RESET" => read.status # "COMPLETED"
  BY <1>1 DEF Apply, Transitions, Commands, Whole, Statuses
<1>3. CASE command = "RESET"
  <2>1. r = [read EXCEPT !.status = status, !.cursor = 0]
    BY <1>1, <1>3
  <2>2. /\ r \in [status: Statuses, day: Days, cursor: Nat, total: Nat]
        /\ r.status = status /\ r.cursor = 0 /\ r.day = read.day /\ r.total = read.total
    <3>1. status \in Statuses /\ read \in [status: Statuses, day: Days, cursor: Nat, total: Nat]
      BY <1>2 DEF Statuses, Whole
    <3>2. [read EXCEPT !.status = status] \in [status: Statuses, day: Days, cursor: Nat, total: Nat]
      BY <3>1
    <3> QED
      BY <2>1, <3>1, <3>2
  <2> QED
    BY <1>2, <2>2 DEF Whole
<1>4. CASE command # "RESET"
  <2>1. r = [read EXCEPT !.status = status, !.cursor = read.cursor]
    BY <1>1, <1>4
  <2>2. /\ r \in [status: Statuses, day: Days, cursor: Nat, total: Nat]
        /\ r.status = status /\ r.cursor = read.cursor /\ r.day = read.day
        /\ r.total = read.total
    BY <1>2, <2>1 DEF Statuses, Whole
  <2> QED
    BY <1>2, <1>4, <2>2 DEF Whole
<1> QED
  BY <1>3, <1>4

\* A step never passes the end of the day, and completes the session when it reaches it.
LEMMA SteppedIsWhole ==
  ASSUME NEW read, Whole(read), NEW r \in Stepped(read)
  PROVE  Whole(r)
<1>1. /\ read.status = "RUNNING"
      /\ r = [read EXCEPT !.cursor = Target(read),
                !.status = IF Target(read) >= read.total THEN "COMPLETED" ELSE @]
  BY DEF Stepped
<1>2. read.cursor \in Nat /\ read.total \in Nat /\ Speed \in Nat \ {0}
  BY ReplayConstants DEF Whole
<1>3. Target(read) \in Nat /\ Target(read) <= read.total
  BY <1>2 DEF Target
<1>4. CASE Target(read) >= read.total
  <2>1. r = [read EXCEPT !.cursor = Target(read), !.status = "COMPLETED"]
    BY <1>1, <1>4
  <2>2. Target(read) = read.total
    BY <1>2, <1>3, <1>4
  <2>3. /\ r \in [status: Statuses, day: Days, cursor: Nat, total: Nat]
        /\ r.status = "COMPLETED" /\ r.cursor = Target(read) /\ r.day = read.day
        /\ r.total = read.total
    <3>1. "COMPLETED" \in Statuses /\ read \in [status: Statuses, day: Days, cursor: Nat, total: Nat]
      BY DEF Statuses, Whole
    <3>2. [read EXCEPT !.cursor = Target(read)] \in [status: Statuses, day: Days, cursor: Nat, total: Nat]
      BY <1>3, <3>1
    <3> QED
      BY <1>3, <2>1, <3>1, <3>2
  <2> QED
    BY <1>2, <1>3, <2>2, <2>3 DEF Whole
<1>5. CASE ~(Target(read) >= read.total)
  <2>1. r = [read EXCEPT !.cursor = Target(read), !.status = "RUNNING"]
    BY <1>1, <1>5
  <2>2. /\ r \in [status: Statuses, day: Days, cursor: Nat, total: Nat]
        /\ r.status = "RUNNING" /\ r.cursor = Target(read) /\ r.day = read.day
        /\ r.total = read.total
    <3>1. "RUNNING" \in Statuses /\ read \in [status: Statuses, day: Days, cursor: Nat, total: Nat]
      BY DEF Statuses, Whole
    <3>2. [read EXCEPT !.cursor = Target(read)] \in [status: Statuses, day: Days, cursor: Nat, total: Nat]
      BY <1>3, <3>1
    <3> QED
      BY <1>3, <2>1, <3>1, <3>2
  <2> QED
    BY <1>2, <1>3, <1>5, <2>2 DEF Whole
<1> QED
  BY <1>4, <1>5

LEMMA ReplayStarts == Init => ReplayInv
BY DEF Init, ReplayInit, ReplayInv

LEMMA ReadKeeps ==
  ASSUME ReplayInv, NEW c \in Clients, Read(c)
  PROVE  ReplayInv'
<1>1. PICK new \in Requests :
        request' = [request EXCEPT ![c] = [command |-> new[1], read |-> row, new |-> new[2]]]
  BY DEF Read
<1>2. Whole(new[2])
  <2>1. CASE new \in Creations
    <3>1. \E day \in Days : \E r \in Created(row, day) : new = <<"CREATE", r>>
      BY <2>1 DEF Creations
    <3> QED
      BY <3>1, CreatedIsWhole
  <2>2. CASE row # Nothing /\ new \in Commandings
    <3>1. Whole(row)
      BY <2>2 DEF ReplayInv
    <3>2. \E k \in Commands : \E r \in Commanded(row, k) : new = <<k, r>>
      BY <2>2 DEF Commandings
    <3> QED
      BY <3>1, <3>2, CommandedIsWhole
  <2>3. CASE row # Nothing /\ new \in Steppings
    <3>1. Whole(row)
      BY <2>3 DEF ReplayInv
    <3>2. \E r \in Stepped(row) : new = <<"STEP", r>>
      BY <2>3 DEF Steppings
    <3> QED
      BY <3>1, <3>2, SteppedIsWhole
  <2> QED
    BY <2>1, <2>2, <2>3 DEF Requests
<1>3. row' = row
  BY DEF Read
<1>4. [command |-> new[1], read |-> row, new |-> new[2]].new = new[2]
  OBVIOUS
<1> QED
  BY <1>1, <1>2, <1>3, <1>4 DEF ReplayInv

LEMMA ReplayStep == ReplayInv /\ [Next]_vars => ReplayInv'
<1> SUFFICES ASSUME ReplayInv, [Next]_vars PROVE ReplayInv'
  OBVIOUS
<1>1. ASSUME NEW c \in Clients, Read(c) PROVE ReplayInv'
  BY <1>1, ReadKeeps
<1>2. ASSUME NEW c \in Clients, Save(c) PROVE ReplayInv'
  <2>1. row' = request[c].new /\ request' = [request EXCEPT ![c] = Nothing]
    BY <1>2 DEF Save, Saved
  <2>2. Whole(row')
    BY <1>2, <2>1 DEF Save, ReplayInv
  <2> QED
    BY <2>1, <2>2 DEF ReplayInv
<1>3. CASE UNCHANGED <<row, request>>
  BY <1>3 DEF ReplayInv
<1>4. KillSwitch \/ UNCHANGED replayVars \/ UNCHANGED vars => UNCHANGED <<row, request>>
  BY DEF KillSwitch, replayVars, vars
<1> QED
  BY <1>1, <1>2, <1>3, <1>4 DEF Next, ReplayNext

\* However the requests of any clients overlap, the replay row is one that some request
\* computed as a whole.
THEOREM RowsAreWhole == Spec => []SessionIsWhole
<1>1. ReplayInv => SessionIsWhole
  BY DEF ReplayInv, Whole, SessionIsWhole
<1> QED
  BY <1>1, ReplayStarts, ReplayStep, PTL DEF Spec

-----------------------------------------------------------------------------
(* The projection.                                                         *)

\* The recursion by which the steps up to n are folded; the account before the first.
Untouched == [position |-> 0, cash |-> 0, shown |-> <<>>]
Walks(day, halt, steps, g) ==
  g = [s \in SUBSET DOMAIN steps |->
         IF s = {} THEN Untouched ELSE StepAt(day, halt, g[s \ {Max(s)}], steps[Max(s)])]
Walk(day, halt, steps) == (CHOOSE g : Walks(day, halt, steps, g))[DOMAIN steps]

LEMMA WalkUnfolds ==
  ASSUME NEW day, NEW halt, NEW steps
  PROVE  FoldLeft(LAMBDA a, k : StepAt(day, halt, a, k), Untouched, steps) = Walk(day, halt, steps)
BY DEF FoldLeft, MapThenFoldSet, Walk, Walks

\* A step looks at the bars up to its own and at the open of the next one.
LEMMA StepLooksBack ==
  ASSUME NEW d \in Days, NEW e \in Days, NEW n \in Nat, Agree(d, e, n), NEW k \in 1..n
  PROVE  SubSeq(d, 1, k) = SubSeq(e, 1, k) /\ d[k + 1].open = e[k + 1].open
<1>1. /\ d \in Seq([open : Nat, close : Nat]) /\ e \in Seq([open : Nat, close : Nat])
      /\ n < Len(d) /\ n < Len(e) /\ d[n + 1].open = e[n + 1].open
  BY ReplayConstants DEF Agree
<1>2. \A j \in 1..n : d[j] = e[j]
  <2>1. TAKE j \in 1..n
  <2>2. SubSeq(d, 1, n)[j] = d[j] /\ SubSeq(e, 1, n)[j] = e[j]
    BY <1>1
  <2> QED
    BY <2>2 DEF Agree
<1>3. d[k + 1].open = e[k + 1].open
  <2>1. CASE k = n
    BY <1>1, <2>1
  <2>2. CASE k # n
    BY <1>2, <2>2
  <2> QED
    BY <2>1, <2>2
<1>4. SubSeq(d, 1, k) = [j \in 1..k |-> d[j]] /\ SubSeq(e, 1, k) = [j \in 1..k |-> e[j]]
  BY <1>1
<1>5. \A j \in 1..k : d[j] = e[j]
  BY <1>2
<1> QED
  BY <1>3, <1>4, <1>5

LEMMA WalksTheSame ==
  ASSUME NEW d \in Days, NEW e \in Days, NEW n \in Nat, Agree(d, e, n), NEW halt
  PROVE  Walk(d, halt, [k \in 1..n |-> k]) = Walk(e, halt, [k \in 1..n |-> k])
<1> DEFINE steps == [k \in 1..n |-> k]
<1>1. ASSUME NEW a, NEW k \in 1..n PROVE StepAt(d, halt, a, k) = StepAt(e, halt, a, k)
  BY StepLooksBack DEF StepAt
<1>2. ASSUME NEW s \in SUBSET (1..n), s # {} PROVE Max(s) \in 1..n /\ steps[Max(s)] = Max(s)
  <2>1. s \subseteq 0..n
    BY <1>2
  <2> QED
    BY <1>2, <2>1, LargestMember
<1>3. DOMAIN steps = 1..n
  OBVIOUS
<1> HIDE DEF steps
<1>4. ASSUME NEW g PROVE Walks(d, halt, steps, g) <=> Walks(e, halt, steps, g)
  <2> DEFINE Taken(day, s) ==
        IF s = {} THEN Untouched ELSE StepAt(day, halt, g[s \ {Max(s)}], steps[Max(s)])
  <2>1. \A s \in SUBSET (1..n) : Taken(d, s) = Taken(e, s)
    BY <1>1, <1>2
  <2>2. \A day : Walks(day, halt, steps, g) <=> g = [s \in SUBSET (1..n) |-> Taken(day, s)]
    BY <1>3 DEF Walks
  <2> HIDE DEF Taken
  <2>3. [s \in SUBSET (1..n) |-> Taken(d, s)] = [s \in SUBSET (1..n) |-> Taken(e, s)]
    BY <2>1
  <2> QED
    BY <2>2, <2>3
<1>5. (CHOOSE g : Walks(d, halt, steps, g)) = (CHOOSE g : Walks(e, halt, steps, g))
  BY <1>4, Zenon
<1> QED
  BY <1>5 DEF Walk, steps

\* The projection of a replay shows up to the cursor what it would show of any other day that
\* is the same up to there, for any strategy, days, speeds and interleavings.
THEOREM ProjectionLooksBack == Spec => []NoLookAhead
<1>1. ReplayInv => NoLookAhead
  <2> SUFFICES ASSUME ReplayInv, row # Nothing, NEW other \in Days,
                      Agree(row.day, other, row.cursor)
               PROVE  Project(row.day, row.cursor, halted).shown
                        = Project(other, row.cursor, halted).shown
    BY DEF NoLookAhead
  <2>1. PICK n \in Nat : n = row.cursor
    BY DEF ReplayInv, Whole
  <2>2. row.day \in Days
    BY DEF ReplayInv, Whole
  <2>3. ASSUME NEW day \in Days, n < Len(day)
        PROVE  Project(day, n, halted).shown = Walk(day, halted, [k \in 1..n |-> k]).shown
    <3>1. (IF n < Steps(day) THEN n ELSE Steps(day)) = n
      <4>1. Len(day) \in Nat
        BY ReplayConstants
      <4> QED
        BY <2>3, <4>1 DEF Steps
    <3> QED
      BY <3>1, WalkUnfolds DEF Project, Untouched
  <2>4. n < Len(row.day) /\ n < Len(other) /\ Agree(row.day, other, n)
    BY <2>1 DEF Agree
  <2> QED
    BY <2>1, <2>2, <2>3, <2>4, WalksTheSame
<1> QED
  BY <1>1, ReplayStarts, ReplayStep, PTL DEF Spec

-----------------------------------------------------------------------------
(* The live session.                                                       *)

\* What an operator is about to save: settings that still want a version.
Draft == [enabled: BOOLEAN, timeframe: Timeframes, universe: Universes,
          strategies: SUBSET Strategies, alerts: SUBSET Alerts, version: {0}]
Process == [universe: Universes, version: Nat]
Effective == [version: Nat, state: {"RUNNING", "STOPPED", "FAILED"}]

\* Whoever holds the number of the desired configuration holds its universe (a process) or
\* its other settings (a cycle), and nobody is ahead of it.
Backed(p, d) ==
  /\ p.version <= d.version
  /\ p.version = d.version => p.universe = d.universe
Current(v, a, d) ==
  /\ v <= d.version
  /\ v = d.version => a # Nil /\ a.settings = LiveSettings(d)
LiveInv ==
  /\ desired \in Config
  /\ order = [o \in Operators |-> order[o]]
  /\ \A o \in Operators : order[o] = Nil \/ order[o] \in Draft
  /\ started = Nil \/ (started \in Process /\ Backed(started, desired))
  /\ applied = Nil \/
       (/\ applied # Nil /\ applied.version \in Nat /\ Current(applied.version, applied, desired)
        /\ applied.process \in Process /\ Backed(applied.process, desired))
  /\ effective = Nil \/ (effective \in Effective /\ Current(effective.version, applied, desired))
  /\ worker # "DOWN" => started # Nil
  /\ worker \in {"CYCLE", "REPORTED"} => applied # Nil

LEMMA EffectiveIsNotNil == ASSUME NEW f \in Effective PROVE f # Nil
<1>1. "version" \in DOMAIN f
  BY DEF Effective
<1>2. "version" \notin DOMAIN Nil
  BY DEF Nil
<1> QED
  BY <1>1, <1>2

LEMMA LiveStarts == Init => LiveInv
BY LiveConstants DEF Init, LiveInit, LiveInv, Config

\* Writing the row that is there, or the one made of the defaults, keeps it typed.
LEMMA RowIsTyped ==
  ASSUME LiveInv
  PROVE  Row \in Effective /\ Current(Row.version, applied, desired)
<1>1. CASE effective = Nil
  <2>1. Row = [version |-> 0, state |-> "STOPPED"]
    BY <1>1 DEF Row
  <2> QED
    BY <2>1 DEF Effective, Current, LiveInv, Config
<1>2. CASE effective # Nil
  BY <1>2 DEF Row, LiveInv
<1> QED
  BY <1>1, <1>2

LEMMA PersistsKeeps ==
  ASSUME LiveInv, NEW s \in {"RUNNING", "STOPPED", "FAILED"}, Persists(s),
         worker' \in {"IDLE", "DOWN"}, worker # "DOWN"
  PROVE  LiveInv'
<1>1. UNCHANGED <<desired, started, applied, order>> /\ effective' = [Row EXCEPT !.state = s]
  BY DEF Persists
<1>2. effective' \in Effective /\ effective'.version = Row.version
  BY <1>1, RowIsTyped DEF Effective
<1>3. Current(effective'.version, applied', desired')
  BY <1>1, <1>2, RowIsTyped
<1> QED
  BY <1>1, <1>2, <1>3, EffectiveIsNotNil DEF LiveInv

LEMMA LiveMoves ==
  ASSUME LiveInv, NEW halt, LiveNext(halt)
  PROVE  LiveInv'
<1>1. /\ desired \in Config /\ desired.version \in Nat \ {0}
  BY DEF LiveInv, Config
<1>2. ASSUME NEW o \in Operators, NEW c, [c EXCEPT !.version = 0] \in Draft, Orders(o, c)
      PROVE  LiveInv'
  <2>1. /\ UNCHANGED <<desired, effective, worker, started, applied>>
        /\ order' = [order EXCEPT ![o] = [c EXCEPT !.version = 0]]
    BY <1>2 DEF Orders
  <2>2. /\ order' = [p \in Operators |-> order'[p]]
        /\ \A p \in Operators : order'[p] \in Draft \/ order'[p] = order[p]
    BY <1>2, <2>1 DEF LiveInv
  <2> QED
    BY <2>1, <2>2 DEF LiveInv
<1>3. ASSUME NEW o \in Operators, Start(o, halt) \/ Stop(o) PROVE LiveInv'
  <2>1. ASSUME NEW e \in BOOLEAN
        PROVE  [[desired EXCEPT !.enabled = e, !.alerts = {}] EXCEPT !.version = 0] \in Draft
    BY <1>1 DEF Config, Draft
  <2> QED
    BY <1>2, <1>3, <2>1 DEF Start, Stop
<1>4. ASSUME NEW o \in Operators, Edit(o) PROVE LiveInv'
  <2>1. PICK e \in BOOLEAN, t \in Timeframes, u \in Universes,
             s \in SUBSET Strategies, a \in SUBSET Alerts :
          Orders(o, [enabled |-> e, timeframe |-> t, universe |-> u,
                     strategies |-> s, alerts |-> a, version |-> 0])
    BY <1>4 DEF Edit
  <2> DEFINE c == [enabled |-> e, timeframe |-> t, universe |-> u,
                   strategies |-> s, alerts |-> a, version |-> 0]
  <2>2. [c EXCEPT !.version = 0] \in Draft
    BY DEF Draft
  <2>3. Orders(o, c)
    BY <2>1
  <2> HIDE DEF c
  <2> QED
    BY <1>2, <2>2, <2>3
<1>5. ASSUME NEW o \in Operators, Submit(o) PROVE LiveInv'
  <2>1. desired' \in Config /\ desired'.version = desired.version + 1
    BY <1>1, <1>5 DEF Submit, Config, Draft, LiveInv
  <2>2. order' = [order EXCEPT ![o] = Nil] /\ UNCHANGED <<effective, worker, started, applied>>
    BY <1>5 DEF Submit
  <2>3. ASSUME NEW p \in Process, Backed(p, desired) PROVE Backed(p, desired')
    BY <1>1, <2>1, <2>3 DEF Backed, Process
  <2>4. ASSUME NEW v \in Nat, Current(v, applied, desired) PROVE Current(v, applied, desired')
    BY <1>1, <2>1, <2>4 DEF Current
  <2>5. effective \in Effective => effective.version \in Nat
    BY DEF Effective
  <2> QED
    BY <2>1, <2>2, <2>3, <2>4, <2>5 DEF LiveInv
<1>6. CASE WorkerStarts
  <2>1. /\ UNCHANGED <<desired, effective, applied, order>> /\ worker' = "IDLE"
        /\ started' = [universe |-> desired.universe, version |-> desired.version]
    BY <1>6 DEF WorkerStarts
  <2>2. started' \in Process /\ Backed(started', desired') /\ started' # Nil
    <3>1. started' \in Process /\ Backed(started', desired')
      BY <1>1, <2>1 DEF Config, Process, Backed
    <3>2. "version" \in DOMAIN started' /\ "version" \notin DOMAIN Nil
      BY <2>1 DEF Nil
    <3> QED
      BY <3>1, <3>2
  <2> QED
    BY <2>1, <2>2 DEF LiveInv
<1>7. CASE WorkerReads
  <2>1. /\ UNCHANGED <<desired, effective, started, order>> /\ worker = "IDLE"
        /\ applied' = [settings |-> LiveSettings(desired), version |-> desired.version,
                       process |-> started]
    BY <1>7 DEF WorkerReads
  <2>2. started \in Process /\ Backed(started, desired)
    BY <2>1 DEF LiveInv
  <2>3. applied' # Nil
    <3>1. "version" \in DOMAIN applied' /\ "version" \notin DOMAIN Nil
      BY <2>1 DEF Nil
    <3> QED
      BY <3>1
  <2>4. /\ applied'.settings = LiveSettings(desired) /\ LiveSettings(desired)' = LiveSettings(desired)
        /\ applied'.version = desired.version /\ applied'.process = started
    BY <2>1 DEF LiveSettings
  <2>5. Current(applied'.version, applied', desired')
    BY <1>1, <2>1, <2>3, <2>4 DEF Current
  <2>6. effective = Nil \/ (effective' \in Effective /\ Current(effective'.version, applied', desired'))
    BY <2>1, <2>3, <2>4 DEF LiveInv, Current
  <2> QED
    BY <1>1, <2>1, <2>2, <2>3, <2>4, <2>5, <2>6 DEF LiveInv
<1>8. CASE WorkerReports
  <2>1. /\ applied # Nil /\ UNCHANGED <<desired, started, applied, order>>
        /\ worker = "CYCLE" /\ effective' = [Row EXCEPT !.version = applied.version]
    BY <1>8 DEF WorkerReports, Reported, LiveInv
  <2>2. applied.version \in Nat /\ Current(applied.version, applied, desired)
    BY <2>1 DEF LiveInv
  <2>3. effective' \in Effective /\ effective'.version = applied.version
    BY <2>1, <2>2, RowIsTyped DEF Effective
  <2>4. Current(effective'.version, applied', desired')
    BY <2>1, <2>2, <2>3
  <2> QED
    BY <2>1, <2>3, <2>4 DEF LiveInv
<1>9. CASE WorkerPersists
  BY <1>9, PersistsKeeps DEF WorkerPersists, Failed
<1>10. CASE WorkerStops
  <2>1. CASE Persists("STOPPED")
    BY <1>10, <2>1, PersistsKeeps DEF WorkerStops
  <2>2. CASE UNCHANGED <<desired, effective, started, applied, order>>
    BY <1>10, <2>2 DEF WorkerStops, LiveInv
  <2> QED
    BY <1>10, <2>1, <2>2 DEF WorkerStops
<1>11. CASE TokenChanges
  BY <1>11 DEF TokenChanges, LiveInv
<1> QED
  BY <1>3, <1>4, <1>5, <1>6, <1>7, <1>8, <1>9, <1>10, <1>11 DEF LiveNext

LEMMA LiveStep == LiveInv /\ [Next]_vars => LiveInv'
<1> SUFFICES ASSUME LiveInv, [Next]_vars PROVE LiveInv'
  OBVIOUS
<1>1. CASE LiveNext(halted)
  BY <1>1, LiveMoves
<1>2. CASE UNCHANGED liveVars
  BY <1>2 DEF liveVars, LiveInv
<1>3. UNCHANGED vars => UNCHANGED liveVars
  BY DEF vars
<1> QED
  BY <1>1, <1>2, <1>3 DEF Next

\* RUNNING and STOPPED are shown for the settings the worker's last cycle really ran under,
\* however many operators save what they read earlier and whenever the worker starts, reports
\* and dies; for the universe only if its process started under the desired version.
THEOREM StateIsBacked == Spec => []EvidenceOfReconcile
<1>1. LiveInv => EvidenceOfReconcile
  <2> SUFFICES ASSUME LiveInv, SessionState(halted) \in {"RUNNING", "STOPPED"}
               PROVE  /\ applied # Nil /\ applied.settings = LiveSettings(desired)
                      /\ applied.process.version = desired.version =>
                           applied.process.universe = desired.universe
    BY DEF EvidenceOfReconcile
  <2>1. Reconciled
    BY DEF SessionState
  <2> QED
    BY <2>1 DEF LiveInv, Reconciled, Current, Backed
<1> QED
  BY <1>1, LiveStarts, LiveStep, PTL DEF Spec

-----------------------------------------------------------------------------
(* The positions of a portfolio backtest.                                  *)

\* Only what the argument needs is typed: when something happened, and to which instrument.
Trade == [instrument: Instruments, entered: Int, left: Int]
Times(t) == [instrument |-> t.instrument, entered |-> t.position.entered, left |-> t.left]

Shapes ==
  /\ config.bars \in Nat /\ config.concurrent \in Nat
  /\ i \in Nat /\ turn \in DOMAIN Assignments
  /\ IsFiniteSet(DOMAIN open) /\ DOMAIN open \subseteq Instruments
  /\ \A x \in DOMAIN open : open[x].entered \in Int
  /\ \E S : trades \in Seq(S)
  /\ \A t \in DOMAIN trades : Times(trades[t]) \in Trade

\* Whoever had its turn at this bar may have left at the next one, the others only at this:
\* what an instrument enters on its turn, at the next bar, it enters after it left.
LeftBehind ==
  \A k \in DOMAIN Assignments : \A t \in DOMAIN trades :
    trades[t].instrument = Assignments[k] => trades[t].left <= IF k < turn THEN i + 1 ELSE i

Inv == Shapes /\ LeftBehind /\ OnePositionEach

-----------------------------------------------------------------------------
LEMMA InitInv == PortfolioInit => Inv
<1> SUFFICES ASSUME PortfolioInit PROVE Inv
  OBVIOUS
<1>1. Assignments \in Seq(Instruments) /\ Assignments # <<>>
  BY PortfolioConstants
<1>2. 1 \in DOMAIN Assignments /\ Len(Assignments) \in Nat
  BY <1>1
<1>3. DOMAIN open = {} /\ DOMAIN trades = {} /\ trades \in Seq({})
  BY DEF PortfolioInit
<1>4. config.bars \in Nat /\ config.concurrent \in 1..Len(Assignments)
  BY PortfolioConstants DEF PortfolioInit
<1>5. Shapes
  BY <1>2, <1>3, <1>4, FS_EmptySet DEF PortfolioInit, Shapes
<1>6. LeftBehind /\ OnePositionEach
  BY <1>2, <1>3, <1>4, FS_EmptySet DEF LeftBehind, OnePositionEach
<1> QED
  BY <1>5, <1>6 DEF Inv

\* Time goes on: the turn passes to the next instrument or to the first one at the next bar.
LEMMA Turns ==
  ASSUME Inv, NEW close, Advance(close)
  PROVE  /\ config' = config /\ i' \in Nat /\ turn' \in DOMAIN Assignments
         /\ Me \in Instruments
         /\ \A k \in DOMAIN Assignments :
              (IF k < turn THEN i + 1 ELSE i) <= (IF k < turn' THEN i' + 1 ELSE i')
         /\ i + 1 <= IF turn < turn' THEN i' + 1 ELSE i'
<1>1. Assignments \in Seq(Instruments) /\ Len(Assignments) \in Nat
        /\ DOMAIN Assignments = 1..Len(Assignments) /\ Len(Assignments) # 0
  BY PortfolioConstants
<1>2. i \in Nat /\ turn \in 1..Len(Assignments)
  BY <1>1 DEF Inv, Shapes
<1> QED
  BY <1>1, <1>2 DEF Advance, Me

\* A turn on which nothing is entered or left.
LEMMA StayStep ==
  ASSUME Inv, NEW close, Advance(close), UNCHANGED <<open, trades>>
  PROVE  Inv'
<1>1. Shapes'
  BY Turns DEF Inv, Shapes
<1>2. LeftBehind'
  <2> SUFFICES ASSUME NEW k \in DOMAIN Assignments, NEW t \in DOMAIN trades,
                      trades[t].instrument = Assignments[k]
               PROVE  trades[t].left <= IF k < turn' THEN i' + 1 ELSE i'
    BY DEF LeftBehind
  <2>1. trades[t].left \in Int
    BY DEF Inv, Shapes, Times, Trade
  <2>2. trades[t].left <= IF k < turn THEN i + 1 ELSE i
    BY DEF Inv, LeftBehind
  <2>3. i \in Nat /\ turn \in Nat /\ k \in Nat
    BY PortfolioConstants DEF Inv, Shapes
  <2> QED
    BY <2>1, <2>2, <2>3, Turns
<1>3. OnePositionEach'
  BY Turns DEF Inv, OnePositionEach
<1> QED
  BY <1>1, <1>2, <1>3 DEF Inv

LEMMA EnterStep ==
  ASSUME Inv, NEW signal, NEW next, NEW close, Enter(signal, next, close)
  PROVE  Inv'
<1> DEFINE price == Slipped(Entering(signal), next)
           quantity == QuantityFor(price)
           position == [direction |-> signal, entered |-> i + 1, price |-> price,
                        quantity |-> quantity]
<1>1. Advance(close) /\ trades' = trades /\ Me \notin DOMAIN open
  BY DEF Enter
<1>2. CASE open' = open
  BY <1>1, <1>2, StayStep
<1>3. CASE HasRoom /\ open' = With(open, Me, position)
  <2>1. /\ DOMAIN open' = DOMAIN open \union {Me} /\ open'[Me] = position
        /\ \A x \in DOMAIN open : open'[x] = open[x]
    BY <1>1, <1>3 DEF With
  <2>2. i \in Nat /\ position.entered = i + 1
    BY DEF Inv, Shapes
  <2>3. IsFiniteSet(DOMAIN open') /\ Cardinality(DOMAIN open') = Cardinality(DOMAIN open) + 1
    BY <2>1, <1>1, FS_AddElement DEF Inv, Shapes
  <2>4. Cardinality(DOMAIN open) \in Nat
    BY FS_CardinalityType DEF Inv, Shapes
  <2>5. Shapes'
    BY <2>1, <2>2, <2>3, <1>1, Turns DEF Inv, Shapes
  <2>6. LeftBehind'
    <3> SUFFICES ASSUME NEW k \in DOMAIN Assignments, NEW t \in DOMAIN trades,
                        trades[t].instrument = Assignments[k]
                 PROVE  trades[t].left <= IF k < turn' THEN i' + 1 ELSE i'
      BY <1>1 DEF LeftBehind
    <3>1. trades[t].left \in Int
      BY DEF Inv, Shapes, Times, Trade
    <3>2. trades[t].left <= IF k < turn THEN i + 1 ELSE i
      BY DEF Inv, LeftBehind
    <3>3. i \in Nat /\ turn \in Nat /\ k \in Nat
      BY PortfolioConstants DEF Inv, Shapes
    <3> QED
      BY <1>1, <3>1, <3>2, <3>3, Turns
  <2>7. \A t \in DOMAIN trades : trades[t].instrument = Me => trades[t].left <= i
    <3>1. turn \in DOMAIN Assignments /\ turn \in Nat
      BY PortfolioConstants DEF Inv, Shapes
    <3> QED
      BY <3>1 DEF Inv, LeftBehind, Me
  <2>8. Cardinality(DOMAIN open') <= config'.concurrent
    BY <1>1, <1>3, <2>3, <2>4, Turns DEF HasRoom, Inv, Shapes
  <2>9. \A t \in DOMAIN trades : trades[t].instrument \in DOMAIN open' =>
          trades[t].left < open'[trades[t].instrument].entered
    <3> SUFFICES ASSUME NEW t \in DOMAIN trades, trades[t].instrument \in DOMAIN open'
                 PROVE  trades[t].left < open'[trades[t].instrument].entered
      OBVIOUS
    <3>1. trades[t].left \in Int
      BY DEF Inv, Shapes, Times, Trade
    <3>2. CASE trades[t].instrument = Me
      BY <2>1, <2>2, <2>7, <3>1, <3>2
    <3>3. CASE trades[t].instrument # Me
      BY <2>1, <3>3 DEF Inv, OnePositionEach
    <3> QED
      BY <3>2, <3>3
  <2> QED
    BY <1>1, <2>5, <2>6, <2>8, <2>9 DEF Inv, OnePositionEach
<1> QED
  BY <1>2, <1>3 DEF Enter

LEMMA CloseStep ==
  ASSUME Inv, NEW close, NEW at \in Int, NEW price, NEW reason, Advance(close),
         Me \in DOMAIN open, at <= i + 1, Close(at, price, reason)
  PROVE  Inv'
<1> DEFINE n == Len(trades) + 1
<1>1. /\ DOMAIN open' = DOMAIN open \ {Me}
      /\ \A x \in DOMAIN open' : open'[x] = open[x]
  BY DEF Close, Without
<1>2. /\ Len(trades') = n /\ DOMAIN trades' = 1..n
      /\ \A t \in DOMAIN trades : trades'[t] = trades[t]
      /\ \E S : trades' \in Seq(S)
      /\ Times(trades'[n]) = [instrument |-> Me, entered |-> open[Me].entered, left |-> at]
  <2> DEFINE p == open[Me]
             exit == Slipped(Leaving(p.direction), price)
             costs == Cost(Entering(p.direction), Notional(p))
                        + Cost(Leaving(p.direction), exit * p.quantity)
             net == SignedGross(p.direction, p.price, exit, p.quantity) - costs
             trade == [instrument |-> Me, position |-> p, left |-> at, exit |-> exit,
                       costs |-> costs, net |-> net, reason |-> reason]
  <2>1. trades' = Append(trades, trade)
    BY DEF Close
  <2>2. trade.instrument = Me /\ trade.position = p /\ trade.left = at
    OBVIOUS
  <2> HIDE DEF trade
  <2>3. PICK S : trades \in Seq(S)
    BY DEF Inv, Shapes
  <2>4. trades \in Seq(S \union {trade}) /\ trade \in S \union {trade}
    BY <2>3
  <2>5. /\ trades' \in Seq(S \union {trade}) /\ Len(trades') = n /\ DOMAIN trades' = 1..n
        /\ \A t \in DOMAIN trades : trades'[t] = trades[t]
        /\ trades'[n] = trade
    BY <2>1, <2>4
  <2> QED
    BY <2>2, <2>5 DEF Times
<1>3. i \in Nat /\ turn \in DOMAIN Assignments /\ turn \in Nat /\ Me \in Instruments
      /\ open[Me].entered \in Int /\ Len(trades) \in Nat /\ DOMAIN trades = 1..Len(trades)
  BY Turns, PortfolioConstants DEF Inv, Shapes
<1>4. /\ IsFiniteSet(DOMAIN open') /\ Cardinality(DOMAIN open') <= Cardinality(DOMAIN open)
      /\ Cardinality(DOMAIN open) \in Nat
  <2>1. IsFiniteSet(DOMAIN open)
    BY DEF Inv, Shapes
  <2>2. Cardinality(DOMAIN open) \in Nat
    BY <2>1, FS_CardinalityType
  <2>3. IsFiniteSet(DOMAIN open \ {Me})
          /\ Cardinality(DOMAIN open \ {Me}) = Cardinality(DOMAIN open) - 1
    BY <2>1, FS_RemoveElement
  <2> QED
    BY <1>1, <2>2, <2>3
<1>5. \A t \in DOMAIN trades' : t = n \/ t \in DOMAIN trades
  BY <1>2, <1>3
<1>6. trades'[n].instrument = Me /\ trades'[n].position.entered = open[Me].entered
        /\ trades'[n].left = at
  BY <1>2 DEF Times
<1>7. Shapes'
  <2>1. \A t \in DOMAIN trades' : Times(trades'[t]) \in Trade
    BY <1>2, <1>3, <1>5 DEF Trade, Inv, Shapes
  <2>2. \A x \in DOMAIN open' : open'[x].entered \in Int
    BY <1>1 DEF Inv, Shapes
  <2>3. \A t \in DOMAIN trades' : Times(trades[t])' \in Trade
    BY <2>1 DEF Times
  <2> QED
    BY <1>1, <1>2, <1>4, <2>2, <2>3, Turns DEF Inv, Shapes
<1>8. LeftBehind'
  <2> SUFFICES ASSUME NEW k \in DOMAIN Assignments, NEW t \in DOMAIN trades',
                      trades'[t].instrument = Assignments[k]
               PROVE  trades'[t].left <= IF k < turn' THEN i' + 1 ELSE i'
    BY DEF LeftBehind
  <2>1. CASE t = n
    <3>1. k = turn
      BY <1>3, <1>6, <2>1, PortfolioConstants DEF Me
    <3> QED
      BY <1>3, <1>6, <2>1, <3>1, Turns
  <2>2. CASE t \in DOMAIN trades
    <3>1. trades[t].left \in Int /\ k \in Nat
      BY <2>2, PortfolioConstants DEF Inv, Shapes, Times, Trade
    <3>2. trades[t].left <= IF k < turn THEN i + 1 ELSE i
      BY <1>2, <2>2 DEF Inv, LeftBehind
    <3> QED
      BY <1>2, <1>3, <2>2, <3>1, <3>2, Turns
  <2> QED
    BY <1>5, <2>1, <2>2
<1>9. Cardinality(DOMAIN open') <= config'.concurrent
  <2>1. config' = config /\ config.concurrent \in Nat
    BY Turns DEF Inv, Shapes
  <2>2. Cardinality(DOMAIN open') \in Nat
    BY <1>4, FS_CardinalityType
  <2>3. Cardinality(DOMAIN open) <= config.concurrent
    BY DEF Inv, OnePositionEach
  <2> QED
    BY <1>4, <2>1, <2>2, <2>3
<1>10. ASSUME NEW s \in DOMAIN trades', NEW t \in DOMAIN trades', s < t,
              trades'[s].instrument = trades'[t].instrument
       PROVE  trades'[s].left < trades'[t].position.entered
  <2>1. s \in DOMAIN trades
    BY <1>2, <1>3, <1>5, <1>10
  <2>2. CASE t = n
    BY <1>2, <1>6, <1>10, <2>1, <2>2 DEF Inv, OnePositionEach
  <2>3. CASE t \in DOMAIN trades
    BY <1>2, <1>10, <2>1, <2>3 DEF Inv, OnePositionEach
  <2> QED
    BY <1>5, <2>2, <2>3
<1>11. ASSUME NEW t \in DOMAIN trades', trades'[t].instrument \in DOMAIN open'
       PROVE  trades'[t].left < open'[trades'[t].instrument].entered
  <2>1. t \in DOMAIN trades
    BY <1>1, <1>5, <1>6, <1>11
  <2> QED
    BY <1>1, <1>2, <1>11, <2>1 DEF Inv, OnePositionEach
<1> QED
  BY <1>7, <1>8, <1>9, <1>10, <1>11 DEF Inv, OnePositionEach

-----------------------------------------------------------------------------
LEMMA NextInv == Inv /\ [PortfolioNext]_portfolioVars => Inv'
<1> SUFFICES ASSUME Inv, [PortfolioNext]_portfolioVars PROVE Inv'
  OBVIOUS
<1>1. CASE UNCHANGED portfolioVars
  BY <1>1 DEF portfolioVars, Inv, Shapes, LeftBehind, OnePositionEach, Times, HasRoom
<1>2. i \in Nat
  BY DEF Inv, Shapes
<1>3. ASSUME NEW close \in Prices, EndOfData(close) PROVE Inv'
  <2>1. PICK at \in Int : at = i
    BY <1>2
  <2> QED
    BY <1>2, <1>3, <2>1, CloseStep DEF EndOfData
<1>4. ASSUME NEW close \in Prices, NEW signal, Stay(signal, close) PROVE Inv'
  BY <1>4, StayStep DEF Stay
<1>5. ASSUME NEW close \in Prices, NEW signal, NEW next \in Prices, Enter(signal, next, close)
      PROVE  Inv'
  BY <1>5, EnterStep
<1>6. ASSUME NEW close \in Prices, NEW signal, NEW next \in Prices, Reversal(signal, next, close)
      PROVE  Inv'
  <2>1. PICK at \in Int : at = i + 1
    BY <1>2
  <2> QED
    BY <1>2, <1>6, <2>1, CloseStep DEF Reversal
<1> QED
  BY <1>1, <1>3, <1>4, <1>5, <1>6 DEF PortfolioNext

\* However many instruments compete for the account, there are never more open positions than
\* max_concurrent_positions, and no instrument's holdings overlap.
THEOREM OnePositionEachHolds == PortfolioSpec => []OnePositionEach
<1>1. Inv => OnePositionEach
  BY DEF Inv
<1> QED
  BY InitInv, NextInv, <1>1, PTL DEF PortfolioSpec

-----------------------------------------------------------------------------
(* The money of a portfolio backtest.                                      *)

\* The bar of an instrument's next turn.
Due(k) == IF k < turn THEN i + 1 ELSE i

Position == [direction: Directions, entered: Int, price: Int, quantity: Int]

\* A trade that is over by the end, after it began, and whose result is its exit's.
Settled(t) ==
  /\ t.position \in Position
  /\ t.left \in Int /\ t.exit \in Int /\ t.costs \in Int
  /\ t.net = SignedGross(t.position.direction, t.position.price, t.exit, t.position.quantity)
               - t.costs
  /\ t.net \in Int
  /\ t.position.entered <= t.left /\ t.left <= config.bars

\* An open position was entered before its instrument's next turn and will have one more,
\* and every instrument has the closes of the bars it was looked at.
Calendar ==
  \A k \in DOMAIN Assignments :
    /\ Assignments[k] \in DOMAIN open =>
         open[Assignments[k]].entered <= Due(k) /\ Due(k) <= config.bars
    /\ Due(k) <= config.bars + 1
    /\ closes[Assignments[k]] \in Seq(Int)
    /\ Len(closes[Assignments[k]]) = Due(k) - 1

Holdings ==
  /\ cash \in Int /\ config.size \in Nat
  /\ open = [x \in DOMAIN open |-> open[x]]
  /\ \A x \in DOMAIN open : open[x] \in Position
  /\ \A t \in DOMAIN trades : Settled(trades[t])
  /\ closes = [x \in Instruments |-> closes[x]]

\* CapitalAccounted alone says nothing of the types that make its sums numbers, nor that a
\* position still open has a turn at which it is closed: Holdings and Calendar do.
MoneyInv == Inv /\ Holdings /\ Calendar /\ CapitalAccounted

LEMMA AssignmentsFacts ==
  /\ Assignments \in Seq(Instruments) /\ Len(Assignments) \in Nat \ {0}
  /\ DOMAIN Assignments = 1..Len(Assignments)
  /\ \A x \in Instruments : \E k \in DOMAIN Assignments : x = Assignments[k]
  /\ \A k \in DOMAIN Assignments : Assignments[k] \in Instruments
<1>1. Assignments \in Seq(Instruments) /\ Assignments # <<>>
  BY PortfolioConstants
<1>2. Len(Assignments) \in Nat \ {0} /\ DOMAIN Assignments = 1..Len(Assignments)
  BY <1>1
<1> QED
  BY <1>1, <1>2 DEF Instruments

\* A turn puts off the next one of its own instrument by a bar and leaves the others'.
LEMMA DueStep ==
  ASSUME Inv, NEW close, Advance(close), NEW m, m = turn
  PROVE  /\ m \in DOMAIN Assignments /\ Me = Assignments[m] /\ Me \in Instruments
         /\ config' = config /\ closes' = [closes EXCEPT ![Me] = Append(@, close)]
         /\ i \in Nat /\ config.bars \in Nat /\ i <= config.bars
         /\ Due(m) = i /\ Due(m)' = i + 1
         /\ \A k \in DOMAIN Assignments :
              /\ Due(k) \in Nat
              /\ k # m => Due(k)' = Due(k) /\ Assignments[k] # Me
<1>1. /\ Len(Assignments) \in Nat \ {0} /\ DOMAIN Assignments = 1..Len(Assignments)
      /\ i \in Nat /\ m \in 1..Len(Assignments) /\ config.bars \in Nat
  BY AssignmentsFacts DEF Inv, Shapes
<1>2. /\ IF m < Len(Assignments) THEN turn' = m + 1 /\ i' = i ELSE turn' = 1 /\ i' = i + 1
      /\ config' = config /\ ~(i > config.bars)
      /\ closes' = [closes EXCEPT ![Me] = Append(@, close)]
  BY DEF Advance, Done
<1>3. Me = Assignments[m] /\ Me \in Instruments
  BY <1>1, AssignmentsFacts DEF Me
<1>4. ASSUME NEW k \in DOMAIN Assignments
      PROVE  /\ Due(k) \in Nat
             /\ k # m => Due(k)' = Due(k) /\ Assignments[k] # Me
  <2>1. k \in 1..Len(Assignments)
    BY <1>1
  <2>2. Due(k) = (IF k < m THEN i + 1 ELSE i) /\ Due(k)' = (IF k < turn' THEN i' + 1 ELSE i')
    BY DEF Due
  <2>3. k # m => Assignments[k] # Me
    BY <1>1, <1>3, PortfolioConstants
  <2> QED
    BY <1>1, <1>2, <2>1, <2>2, <2>3
<1>5. Due(m) = i /\ Due(m)' = i + 1
  <2>1. Due(m) = (IF m < m THEN i + 1 ELSE i) /\ Due(m)' = (IF m < turn' THEN i' + 1 ELSE i')
    BY DEF Due
  <2> QED
    BY <1>1, <1>2, <2>1
<1> QED
  BY <1>1, <1>2, <1>3, <1>4, <1>5

LEMMA CalendarStep ==
  ASSUME MoneyInv, NEW close \in Prices, Advance(close),
         \A x \in DOMAIN open' : x # Me => x \in DOMAIN open /\ open'[x] = open[x],
         Me \in DOMAIN open' => open'[Me].entered <= i + 1 /\ i + 1 <= config.bars
  PROVE  Calendar' /\ closes' = [x \in Instruments |-> closes'[x]]
<1>1. PICK m : m = turn
  OBVIOUS
<1>2. /\ m \in DOMAIN Assignments /\ Me = Assignments[m] /\ Me \in Instruments
      /\ config' = config /\ closes' = [closes EXCEPT ![Me] = Append(@, close)]
      /\ i \in Nat /\ config.bars \in Nat /\ i <= config.bars
      /\ Due(m) = i /\ Due(m)' = i + 1
      /\ \A k \in DOMAIN Assignments :
           /\ Due(k) \in Nat
           /\ k # m => Due(k)' = Due(k) /\ Assignments[k] # Me
  BY <1>1, DueStep DEF MoneyInv
<1>3. closes = [x \in Instruments |-> closes[x]] /\ close \in Int
  BY PortfolioConstants DEF MoneyInv, Holdings
<1>4. ASSUME NEW k \in DOMAIN Assignments
      PROVE  /\ Assignments[k] \in DOMAIN open' =>
                  open'[Assignments[k]].entered <= Due(k)' /\ Due(k)' <= config'.bars
             /\ Due(k)' <= config'.bars + 1
             /\ closes'[Assignments[k]] \in Seq(Int)
             /\ Len(closes'[Assignments[k]]) = Due(k)' - 1
  <2>1. /\ Assignments[k] \in DOMAIN open =>
             open[Assignments[k]].entered <= Due(k) /\ Due(k) <= config.bars
        /\ Due(k) <= config.bars + 1
        /\ closes[Assignments[k]] \in Seq(Int)
        /\ Len(closes[Assignments[k]]) = Due(k) - 1
    BY DEF MoneyInv, Calendar
  <2>2. CASE k = m
    <3>1. closes'[Me] = Append(closes[Me], close)
      BY <1>2, <1>3
    <3>2. closes'[Me] \in Seq(Int) /\ Len(closes'[Me]) = Len(closes[Me]) + 1
      BY <1>2, <1>3, <2>1, <2>2, <3>1
    <3> QED
      BY <1>2, <2>1, <2>2, <3>2
  <2>3. CASE k # m
    <3>1. Assignments[k] # Me /\ Due(k)' = Due(k) /\ Assignments[k] \in Instruments
      BY <1>2, <2>3, AssignmentsFacts
    <3>2. closes'[Assignments[k]] = closes[Assignments[k]]
      BY <1>2, <1>3, <3>1
    <3> QED
      BY <1>2, <2>1, <3>1, <3>2
  <2> QED
    BY <2>2, <2>3
<1>5. Calendar'
  BY <1>4 DEF Calendar
<1> QED
  BY <1>2, <1>3, <1>5

-----------------------------------------------------------------------------
(* What is committed and what was earned.                                  *)

Committed == [x \in DOMAIN open |-> Notional(open[x])]

LEMMA CommittedType ==
  ASSUME MoneyInv
  PROVE  /\ IsFiniteSet(DOMAIN open) /\ DOMAIN Committed = DOMAIN open
         /\ \A x \in DOMAIN open : Committed[x] = Notional(open[x]) /\ Committed[x] \in Int
         /\ SumFunction(Committed) = SumFunctionOnSet(Committed, DOMAIN open)
         /\ SumFunction(Committed) \in Int
<1>1. IsFiniteSet(DOMAIN open)
  BY DEF MoneyInv, Inv, Shapes
<1>2. \A x \in DOMAIN open : Committed[x] = Notional(open[x]) /\ Committed[x] \in Int
  <2>1. ASSUME NEW x \in DOMAIN open
        PROVE  Notional(open[x]) \in Int
    <3>1. open[x].price \in Int /\ open[x].quantity \in Int
      BY DEF MoneyInv, Holdings, Position
    <3> QED
      BY <3>1 DEF Notional
  <2> QED
    BY <2>1 DEF Committed
<1>3. DOMAIN Committed = DOMAIN open /\ SumFunction(Committed) = SumFunctionOnSet(Committed, DOMAIN open)
  BY DEF SumFunction, Committed
<1> QED
  BY <1>1, <1>2, <1>3, SumSplit

LEMMA CommittedEnter ==
  ASSUME MoneyInv, NEW x, x \notin DOMAIN open, NEW p \in Position, open' = With(open, x, p)
  PROVE  SumFunction(Committed)' = SumFunction(Committed) + Notional(p)
<1> DEFINE S == DOMAIN open
           T == S \union {x}
           G == Committed'
<1>1. DOMAIN open' = T /\ open'[x] = p /\ \A y \in S : open'[y] = open[y]
  BY DEF With
<1>2. Notional(p) \in Int
  <2>1. p.price \in Int /\ p.quantity \in Int
    BY DEF Position
  <2> QED
    BY <2>1 DEF Notional
<1>3. G[x] = Notional(p) /\ \A y \in S : G[y] = Committed[y] /\ Committed[y] \in Int
  BY <1>1, CommittedType DEF Committed, Notional
<1>4. SumFunction(Committed)' = SumFunctionOnSet(G, T)
  BY <1>1 DEF SumFunction, Committed
<1>5. IsFiniteSet(S) /\ IsFiniteSet(T) /\ x \in T /\ T \ {x} = S
  BY CommittedType, FS_AddElement
<1> HIDE DEF G, T, S
<1>6. SumFunctionOnSet(G, T) = G[x] + SumFunctionOnSet(G, S)
  <2>1. \A y \in T : G[y] \in Int
    BY <1>2, <1>3, <1>5
  <2> QED
    BY <1>5, <2>1, SumSplit
<1>7. SumFunctionOnSet(G, S) = SumFunctionOnSet(Committed, S)
  BY <1>3, <1>5, SumSame
<1>8. SumFunction(Committed) = SumFunctionOnSet(Committed, S) /\ SumFunction(Committed) \in Int
  BY CommittedType DEF S
<1> QED
  BY <1>2, <1>3, <1>4, <1>6, <1>7, <1>8

LEMMA CommittedLeave ==
  ASSUME MoneyInv, NEW x \in DOMAIN open, open' = Without(open, x)
  PROVE  SumFunction(Committed)' = SumFunction(Committed) - Notional(open[x])
<1> DEFINE S == DOMAIN open
           T == S \ {x}
           G == Committed'
<1>1. DOMAIN open' = T /\ \A y \in T : open'[y] = open[y]
  BY DEF Without
<1>2. Committed[x] = Notional(open[x]) /\ \A y \in S : Committed[y] \in Int
  BY CommittedType
<1>3. \A y \in T : G[y] = Committed[y]
  BY <1>1 DEF Committed, Notional
<1>4. SumFunction(Committed)' = SumFunctionOnSet(G, T)
  BY <1>1 DEF SumFunction, Committed
<1>5. IsFiniteSet(S) /\ IsFiniteSet(T) /\ T \subseteq S /\ x \in S
  BY CommittedType, FS_RemoveElement
<1>6. SumFunction(Committed) = SumFunctionOnSet(Committed, S)
  BY CommittedType
<1>7. SumFunctionOnSet(Committed, S) = Committed[x] + SumFunctionOnSet(Committed, T)
  BY <1>2, <1>5, SumSplit
<1>8. SumFunctionOnSet(Committed, T) \in Int /\ Committed[x] \in Int
  <2> HIDE DEF T, S
  <2> QED
    BY <1>2, <1>5, SumSplit
<1>9. SumFunctionOnSet(G, T) = SumFunctionOnSet(Committed, T)
  <2> HIDE DEF T, G, S
  <2> QED
    BY <1>2, <1>3, <1>5, SumSame
<1> QED
  BY <1>2, <1>4, <1>6, <1>7, <1>8, <1>9

LEMMA NetType ==
  ASSUME MoneyInv
  PROVE  /\ DOMAIN trades = 1..Len(trades) /\ Len(trades) \in Nat
         /\ \A t \in DOMAIN trades : Net[t] = trades[t].net /\ Net[t] \in Int
         /\ SumFunction(Net) = SumFunctionOnSet(Net, DOMAIN trades)
         /\ SumFunction(Net) \in Int
<1>1. DOMAIN trades = 1..Len(trades) /\ Len(trades) \in Nat
  BY DEF MoneyInv, Inv, Shapes
<1>2. \A t \in DOMAIN trades : Net[t] = trades[t].net /\ Net[t] \in Int
  BY DEF MoneyInv, Holdings, Settled, Net
<1>3. SumFunction(Net) = SumFunctionOnSet(Net, DOMAIN trades)
  BY DEF SumFunction, Net
<1>4. IsFiniteSet(DOMAIN trades)
  BY <1>1, FS_Interval
<1> QED
  BY <1>1, <1>2, <1>3, <1>4, SumSplit

LEMMA NetAppended ==
  ASSUME MoneyInv, NEW t, t.net \in Int, trades' = Append(trades, t)
  PROVE  SumFunction(Net)' = SumFunction(Net) + t.net
<1> DEFINE n == Len(trades)
           S == 1..n
           T == S \union {n + 1}
           G == Net'
<1>1. PICK A : trades \in Seq(A)
  BY DEF MoneyInv, Inv, Shapes
<1>2. /\ n \in Nat /\ DOMAIN trades = S /\ DOMAIN trades' = T
      /\ trades'[n + 1] = t /\ \A k \in S : trades'[k] = trades[k]
  <2>1. trades \in Seq(A \union {t}) /\ t \in A \union {t}
    BY <1>1
  <2> QED
    BY <2>1
<1>3. G[n + 1] = t.net /\ \A k \in S : G[k] = Net[k] /\ Net[k] \in Int
  BY <1>2, NetType DEF Net
<1>4. SumFunction(Net)' = SumFunctionOnSet(G, T)
  BY <1>2 DEF SumFunction, Net
<1>5. SumFunction(Net) = SumFunctionOnSet(Net, S)
  BY <1>2, NetType
<1>6. n + 1 \in T
  OBVIOUS
<1> HIDE DEF G, n
<1>7. SumFunctionOnSet(G, T) = SumFunctionOnSet(Net, S) + G[n + 1]
  BY <1>2, <1>3, <1>6, SumAppended
<1> QED
  BY <1>3, <1>4, <1>5, <1>7
-----------------------------------------------------------------------------
(* The money of a turn.                                                    *)

LEMMA SlippedPrice ==
  ASSUME NEW side, NEW price \in Nat \ {0}, price * (100 - SlippagePercent) >= 100
  PROVE  Slipped(side, price) \in Nat \ {0}
<1>1. /\ price \in Nat \ {0} /\ SlippagePercent \in 0..99
      /\ price * (100 - SlippagePercent) >= 100
  BY ExecutionConstants
<1>2. CASE side = "BUY"
  <2>1. PICK m \in Nat : m = price * (100 + SlippagePercent) /\ m >= 100
    <3>1. price * (100 + SlippagePercent) \in Nat
      BY <1>1
    <3>2. price * (100 + SlippagePercent) >= 100
      BY <1>1
    <3> QED
      BY <3>1, <3>2
  <2>2. m \div 100 \in Nat \ {0}
    BY <2>1
  <2> QED
    BY <1>2, <2>1, <2>2 DEF Slipped
<1>3. CASE side # "BUY"
  <2>1. PICK m \in Nat : m = price * (100 - SlippagePercent) /\ m >= 100
    BY <1>1
  <2>2. m \div 100 \in Nat \ {0}
    BY <2>1
  <2> QED
    BY <1>3, <2>1, <2>2 DEF Slipped
<1> QED
  BY <1>2, <1>3

LEMMA CostType ==
  ASSUME NEW side \in {"BUY", "SELL"}, NEW notional \in Int
  PROVE  Cost(side, notional) \in Int
<1>1. CostPercent[side] \in Nat
  BY ExecutionConstants
<1>2. PICK m \in Int : m = notional * CostPercent[side]
  BY <1>1
<1>3. m \div 100 \in Int
  OBVIOUS
<1> QED
  BY <1>2, <1>3 DEF Cost

LEMMA QuantityType ==
  ASSUME MoneyInv, NEW price \in Nat \ {0}
  PROVE  QuantityFor(price) \in Nat
<1>1. cash \in Int /\ config.size \in Nat /\ CashPercent \in Nat \ {0}
  BY PortfolioConstants DEF MoneyInv, Holdings
<1>2. CASE config.size > 0 \/ cash < 0
  BY <1>1, <1>2 DEF QuantityFor
<1>3. CASE ~(config.size > 0) /\ ~(cash < 0)
  <2>1. PICK m \in Nat : m = cash * CashPercent
    <3>1. cash \in Nat
      BY <1>1, <1>3
    <3> QED
      BY <1>1, <3>1
  <2>2. PICK d \in Nat \ {0} : d = 100 * price
    OBVIOUS
  <2>3. m \div d \in Nat
    BY <2>1, <2>2
  <2> QED
    BY <1>3, <2>1, <2>2, <2>3 DEF QuantityFor
<1> QED
  BY <1>2, <1>3

LEMMA MoneyInit == PortfolioInit => MoneyInv
<1> SUFFICES ASSUME PortfolioInit PROVE MoneyInv
  OBVIOUS
<1>1. Inv
  BY InitInv
<1>2. DOMAIN open = {} /\ DOMAIN trades = {} /\ open = <<>> /\ trades = <<>>
  BY DEF PortfolioInit
<1>3. config.size \in Nat /\ config.bars \in Nat \ {0} /\ InitialCapital \in Nat
  BY PortfolioConstants DEF PortfolioInit
<1>4. Holdings
  <2>1. open = [x \in DOMAIN open |-> open[x]]
    BY <1>2
  <2>2. cash \in Int /\ closes = [x \in Instruments |-> closes[x]]
    BY <1>3 DEF PortfolioInit
  <2> QED
    BY <1>2, <1>3, <2>1, <2>2 DEF Holdings
<1>5. Calendar
  <2> SUFFICES ASSUME NEW k \in DOMAIN Assignments
               PROVE  /\ Due(k) <= config.bars + 1
                      /\ closes[Assignments[k]] \in Seq(Int)
                      /\ Len(closes[Assignments[k]]) = Due(k) - 1
    BY <1>2 DEF Calendar
  <2>1. k \in 1..Len(Assignments) /\ Len(Assignments) \in Nat /\ Assignments[k] \in Instruments
    BY AssignmentsFacts
  <2>2. Due(k) = 1
    BY <2>1 DEF Due, PortfolioInit
  <2>3. closes[Assignments[k]] = <<>>
    BY <2>1 DEF PortfolioInit
  <2> QED
    BY <1>3, <2>2, <2>3
<1>6. CapitalAccounted
  <2>1. SumFunction([x \in DOMAIN open |-> Notional(open[x])]) = 0 /\ SumFunction(Net) = 0
    <3>1. \A f : SumFunctionOnSet(f, {}) = 0
      BY SumDef, FS_EmptySet
    <3>2. DOMAIN [x \in DOMAIN open |-> Notional(open[x])] = {} /\ DOMAIN Net = {}
      BY <1>2 DEF Net
    <3> QED
      BY <3>1, <3>2 DEF SumFunction
  <2> QED
    BY <1>3, <2>1 DEF CapitalAccounted, PortfolioInit
<1> QED
  BY <1>1, <1>4, <1>5, <1>6 DEF MoneyInv

LEMMA MoneyStay ==
  ASSUME MoneyInv, NEW close \in Prices, Advance(close), UNCHANGED <<cash, open, trades>>,
         Me \in DOMAIN open => i < config.bars
  PROVE  MoneyInv'
<1>1. Inv'
  BY StayStep DEF MoneyInv
<1>2. PICK x : x = Me
  OBVIOUS
<1>3. config' = config
  BY DEF Advance
<1>4. PICK m : m = turn
  OBVIOUS
<1>5. m \in DOMAIN Assignments /\ Me = Assignments[m] /\ Due(m) = i /\ i \in Nat /\ config.bars \in Nat
  BY <1>4, DueStep DEF MoneyInv
<1>6. x \in DOMAIN open' => open'[x].entered <= i + 1 /\ i + 1 <= config.bars
  <2> SUFFICES ASSUME x \in DOMAIN open PROVE open[x].entered <= i + 1 /\ i + 1 <= config.bars
    OBVIOUS
  <2>1. open[x].entered \in Int
    BY DEF MoneyInv, Inv, Shapes
  <2>2. open[x].entered <= i
    BY <1>2, <1>5 DEF MoneyInv, Calendar
  <2> QED
    BY <1>2, <1>5, <2>1, <2>2
<1>7. Calendar' /\ closes' = [z \in Instruments |-> closes'[z]]
  BY <1>2, <1>6, CalendarStep
<1>8. Holdings'
  <2>1. Holdings
    BY DEF MoneyInv
  <2>2. \A t \in DOMAIN trades : Settled(trades[t])'
    BY <1>3, <2>1 DEF Holdings, Settled, SignedGross
  <2> QED
    BY <1>3, <1>7, <2>1, <2>2 DEF Holdings
<1>9. CapitalAccounted'
  BY DEF MoneyInv, CapitalAccounted, Net, Notional
<1> QED
  BY <1>1, <1>7, <1>8, <1>9 DEF MoneyInv

LEMMA MoneyEnter ==
  ASSUME MoneyInv, NEW close \in Prices, NEW next \in Prices, NEW signal,
         Enter(signal, next, close)
  PROVE  MoneyInv'
<1> DEFINE price == Slipped(Entering(signal), next)
           quantity == QuantityFor(price)
           position == [direction |-> signal, entered |-> i + 1, price |-> price,
                        quantity |-> quantity]
<1>1. /\ Advance(close) /\ UNCHANGED <<realized, trades>> /\ ~IsLastBar
      /\ Me \notin DOMAIN open /\ signal \in Directions
      /\ \/ open' = With(open, Me, position) /\ cash' = cash - Notional(position)
         \/ UNCHANGED <<open, cash>>
  BY DEF Enter
<1>2. CASE UNCHANGED <<open, cash>>
  BY <1>1, <1>2, MoneyStay
<1>3. CASE open' = With(open, Me, position) /\ cash' = cash - Notional(position)
  <2>1. PICK x : x = Me
    OBVIOUS
  <2>2. PICK m : m = turn
    OBVIOUS
  <2>3. /\ m \in DOMAIN Assignments /\ Me = Assignments[m] /\ Due(m) = i
        /\ i \in Nat /\ config.bars \in Nat /\ i <= config.bars /\ config' = config
    BY <1>1, <2>2, DueStep DEF MoneyInv
  <2>4. i + 1 <= config.bars
    BY <1>1, <2>3 DEF IsLastBar
  <2>5. position \in Position
    <3>1. price \in Nat \ {0}
      BY SlippedPrice, PortfolioConstants
    <3>2. quantity \in Nat
      BY <3>1, QuantityType
    <3> HIDE DEF price, quantity
    <3> QED
      BY <1>1, <2>3, <3>1, <3>2 DEF Position
  <2>6. position.entered = i + 1
    OBVIOUS
  <2> HIDE DEF position
  <2>7. PICK p \in Position : p = position
    BY <2>5
  <2>8. /\ DOMAIN open' = DOMAIN open \union {x} /\ open'[x] = p
        /\ \A z \in DOMAIN open : open'[z] = open[z]
        /\ open' = [z \in DOMAIN open' |-> open'[z]]
    BY <1>1, <1>3, <2>1, <2>7 DEF With
  <2>9. Inv'
    BY EnterStep DEF MoneyInv
  <2>10. Calendar' /\ closes' = [z \in Instruments |-> closes'[z]]
    BY <1>1, <2>1, <2>3, <2>4, <2>6, <2>7, <2>8, CalendarStep
  <2>11. Notional(p) \in Int
    <3>1. p.price \in Int /\ p.quantity \in Int
      BY DEF Position
    <3> QED
      BY <3>1 DEF Notional
  <2>12. Holdings'
    <3>1. Holdings
      BY DEF MoneyInv
    <3>2. \A t \in DOMAIN trades : Settled(trades[t])'
      BY <1>1, <2>3, <3>1 DEF Holdings, Settled, SignedGross
    <3>3. cash' \in Int
      BY <1>3, <2>7, <2>11, <3>1 DEF Holdings
    <3>4. \A z \in DOMAIN open' : open'[z] \in Position
      BY <2>8, <3>1 DEF Holdings
    <3> QED
      BY <1>1, <2>3, <2>8, <2>10, <3>1, <3>2, <3>3, <3>4 DEF Holdings
  <2>13. CapitalAccounted'
    <3>1. SumFunction(Committed)' = SumFunction(Committed) + Notional(p)
      BY <1>1, <1>3, <2>1, <2>7, CommittedEnter
    <3>2. SumFunction(Committed) \in Int /\ SumFunction(Net) \in Int /\ cash \in Int
            /\ InitialCapital \in Int
      BY CommittedType, NetType, PortfolioConstants DEF MoneyInv, Holdings
    <3>3. SumFunction(Net)' = SumFunction(Net)
      BY <1>1 DEF Net
    <3>4. cash + SumFunction(Committed) = InitialCapital + SumFunction(Net)
      BY DEF MoneyInv, CapitalAccounted, Committed
    <3>5. cash' + SumFunction(Committed)' = InitialCapital + SumFunction(Net)'
      BY <1>3, <2>7, <2>11, <3>1, <3>2, <3>3, <3>4
    <3> QED
      BY <3>5 DEF CapitalAccounted, Committed
  <2> QED
    BY <2>9, <2>10, <2>12, <2>13 DEF MoneyInv
<1> QED
  BY <1>1, <1>2, <1>3

LEMMA MoneyClose ==
  ASSUME MoneyInv, NEW close \in Prices, NEW at \in Int, NEW price \in Prices, NEW reason,
         Advance(close), Me \in DOMAIN open, i <= at, at <= i + 1, at <= config.bars,
         Close(at, price, reason)
  PROVE  MoneyInv'
<1>1. PICK x : x = Me
  OBVIOUS
<1>2. PICK m : m = turn
  OBVIOUS
<1>3. /\ m \in DOMAIN Assignments /\ Me = Assignments[m] /\ Due(m) = i
      /\ i \in Nat /\ config.bars \in Nat /\ config' = config
  BY <1>2, DueStep DEF MoneyInv
<1>4. PICK p \in Position : p = open[x] /\ p.entered <= i
  BY <1>1, <1>3 DEF MoneyInv, Holdings, Calendar
<1> DEFINE exit == Slipped(Leaving(p.direction), price)
           costs == Cost(Entering(p.direction), Notional(p))
                      + Cost(Leaving(p.direction), exit * p.quantity)
           net == SignedGross(p.direction, p.price, exit, p.quantity) - costs
           trade == [instrument |-> x, position |-> p, left |-> at, exit |-> exit,
                     costs |-> costs, net |-> net, reason |-> reason]
<1>5. /\ trades' = Append(trades, trade) /\ cash' = cash + Released(p, net)
      /\ open' = Without(open, x)
  BY <1>1, <1>4 DEF Close
<1>6. p.price \in Int /\ p.quantity \in Int /\ p.entered \in Int /\ Notional(p) \in Int
  <2>1. p.price \in Int /\ p.quantity \in Int /\ p.entered \in Int
    BY DEF Position
  <2> QED
    BY <2>1 DEF Notional
<1>7. exit \in Int /\ costs \in Int /\ net \in Int
  <2>1. exit \in Int
    BY SlippedPrice, PortfolioConstants
  <2> HIDE DEF exit
  <2>2. exit * p.quantity \in Int
    BY <1>6, <2>1
  <2>3. Entering(p.direction) \in {"BUY", "SELL"} /\ Leaving(p.direction) \in {"BUY", "SELL"}
    BY DEF Entering, Leaving
  <2>4. Cost(Entering(p.direction), Notional(p)) \in Int
          /\ Cost(Leaving(p.direction), exit * p.quantity) \in Int
    BY <1>6, <2>2, <2>3, CostType
  <2>5. costs \in Int
    BY <2>4
  <2> HIDE DEF costs
  <2>6. SignedGross(p.direction, p.price, exit, p.quantity) \in Int
    BY <1>6, <2>1 DEF SignedGross
  <2> QED
    BY <2>1, <2>5, <2>6
<1>8. /\ trade.net = net /\ trade.position = p /\ trade.left = at /\ trade.exit = exit
      /\ trade.costs = costs
  OBVIOUS
<1>9. net = SignedGross(p.direction, p.price, exit, p.quantity) - costs
  OBVIOUS
<1> HIDE DEF exit, costs, net, trade
<1>10. PICK u : u = trade
  OBVIOUS
<1>11. PICK gain \in Int : gain = net
  BY <1>7
<1>12. Settled(u)'
  BY <1>3, <1>4, <1>6, <1>7, <1>8, <1>9, <1>10 DEF Settled, SignedGross
<1>13. /\ DOMAIN open' = DOMAIN open \ {x} /\ \A z \in DOMAIN open' : open'[z] = open[z]
       /\ open' = [z \in DOMAIN open' |-> open'[z]]
  BY <1>5 DEF Without
<1>14. Inv'
  BY CloseStep DEF MoneyInv
<1>15. Calendar' /\ closes' = [z \in Instruments |-> closes'[z]]
  BY <1>1, <1>13, CalendarStep
<1>16. Holdings'
  <2>1. Holdings
    BY DEF MoneyInv
  <2>2. \A t \in DOMAIN trades' : trades'[t] = u \/ (t \in DOMAIN trades /\ trades'[t] = trades[t])
    <3>1. PICK S : trades \in Seq(S)
      BY DEF MoneyInv, Inv, Shapes
    <3>2. trades \in Seq(S \union {u}) /\ u \in S \union {u}
      BY <3>1
    <3> QED
      BY <1>5, <1>10, <3>2
  <2>3. \A t \in DOMAIN trades : Settled(trades[t]) /\ config'.bars = config.bars
    BY <1>3, <2>1 DEF Holdings
  <2>4. \A t \in DOMAIN trades' : Settled(trades[t])'
    BY <1>12, <2>2, <2>3 DEF Settled, SignedGross
  <2>5. cash' \in Int
    BY <1>5, <1>6, <1>7, <2>1 DEF Holdings, Released
  <2> QED
    BY <1>3, <1>13, <1>15, <2>1, <2>4, <2>5 DEF Holdings
<1>17. CapitalAccounted'
  <2>1. SumFunction(Committed)' = SumFunction(Committed) - Notional(p)
    BY <1>1, <1>4, <1>5, CommittedLeave
  <2>2. SumFunction(Net)' = SumFunction(Net) + gain
    BY <1>5, <1>8, <1>10, <1>11, NetAppended
  <2>3. SumFunction(Committed) \in Int /\ SumFunction(Net) \in Int /\ cash \in Int
          /\ InitialCapital \in Int
    BY CommittedType, NetType, PortfolioConstants DEF MoneyInv, Holdings
  <2>4. cash + SumFunction(Committed) = InitialCapital + SumFunction(Net)
    BY DEF MoneyInv, CapitalAccounted, Committed
  <2>5. cash' = cash + Notional(p) + gain
    BY <1>5, <1>6, <1>11, <2>3 DEF Released
  <2>6. PICK paid \in Int : paid = Notional(p)
    BY <1>6
  <2>7. cash' + SumFunction(Committed)' = cash + gain + SumFunction(Committed)
    BY <1>11, <2>1, <2>3, <2>5, <2>6
  <2>8. cash' + SumFunction(Committed)' = InitialCapital + SumFunction(Net)'
    BY <1>11, <2>2, <2>3, <2>4, <2>7
  <2> QED
    BY <2>8 DEF CapitalAccounted, Committed
<1> QED
  BY <1>14, <1>15, <1>16, <1>17 DEF MoneyInv

LEMMA MoneyNext == MoneyInv /\ [PortfolioNext]_portfolioVars => MoneyInv'
<1> SUFFICES ASSUME MoneyInv, [PortfolioNext]_portfolioVars PROVE MoneyInv'
  OBVIOUS
<1>1. CASE UNCHANGED portfolioVars
  <2>1. Inv'
    BY <1>1, NextInv DEF MoneyInv
  <2>2. Holdings'
    BY <1>1 DEF portfolioVars, MoneyInv, Holdings, Settled, SignedGross
  <2>3. Calendar'
    BY <1>1 DEF portfolioVars, MoneyInv, Calendar, Due
  <2>4. CapitalAccounted'
    BY <1>1 DEF portfolioVars, MoneyInv, CapitalAccounted, Notional, Net
  <2> QED
    BY <2>1, <2>2, <2>3, <2>4 DEF MoneyInv
<1>2. i \in Nat /\ config.bars \in Nat
  BY DEF MoneyInv, Inv, Shapes
<1>3. ASSUME NEW close, Advance(close) PROVE i <= config.bars
  BY <1>2, <1>3 DEF Advance, Done
<1>4. ASSUME NEW close \in Prices, EndOfData(close) PROVE MoneyInv'
  <2>1. PICK at \in Int : at = i
    BY <1>2
  <2> QED
    BY <1>2, <1>3, <1>4, <2>1, MoneyClose DEF EndOfData, IsLastBar
<1>5. ASSUME NEW close \in Prices, NEW signal, NEW next \in Prices, Reversal(signal, next, close)
      PROVE  MoneyInv'
  <2>1. PICK at \in Int : at = i + 1
    BY <1>2
  <2>2. at <= config.bars
    BY <1>2, <1>3, <1>5, <2>1 DEF Reversal, IsLastBar
  <2> QED
    BY <1>2, <1>5, <2>1, <2>2, MoneyClose DEF Reversal
<1>6. ASSUME NEW close \in Prices, NEW signal, Stay(signal, close) PROVE MoneyInv'
  <2>1. i <= config.bars /\ Advance(close)
    BY <1>3, <1>6 DEF Stay
  <2>2. Me \in DOMAIN open => i < config.bars
    BY <1>2, <1>6, <2>1 DEF Stay, IsLastBar
  <2> QED
    BY <1>6, <2>1, <2>2, MoneyStay DEF Stay
<1>7. ASSUME NEW close \in Prices, NEW signal, NEW next \in Prices, Enter(signal, next, close)
      PROVE  MoneyInv'
  BY <1>7, MoneyEnter
<1> QED
  BY <1>1, <1>4, <1>5, <1>6, <1>7 DEF PortfolioNext

\* For any instruments, prices, charges, sizes and limits, the cash and what is committed to
\* the open positions are the capital and the results of the trades, after every turn.
THEOREM CapitalIsAccounted == PortfolioSpec => []CapitalAccounted
<1>1. MoneyInv => CapitalAccounted
  BY DEF MoneyInv
<1> QED
  BY MoneyInit, MoneyNext, <1>1, PTL DEF PortfolioSpec

-----------------------------------------------------------------------------
(* The equity curve of a portfolio backtest.                               *)

\* At the end every instrument has had the turn of the last bar, on which it gave up what it
\* held, and has the closes of all the bars.
LEMMA AtTheEnd ==
  ASSUME MoneyInv, Done
  PROVE  /\ DOMAIN open = {} /\ open = <<>> /\ config.bars \in Nat
         /\ \A x \in Instruments : \A b \in 1..config.bars : closes[x][b] \in Int
<1>1. i \in Nat /\ turn \in Nat /\ config.bars \in Nat /\ i > config.bars
  BY AssignmentsFacts DEF MoneyInv, Inv, Shapes, Done
<1>2. ASSUME NEW x \in Instruments
      PROVE  /\ x \notin DOMAIN open
             /\ closes[x] \in Seq(Int) /\ Len(closes[x]) = config.bars
  <2>1. PICK k \in DOMAIN Assignments : x = Assignments[k]
    BY AssignmentsFacts
  <2>2. k \in Nat
    BY AssignmentsFacts
  <2>3. Due(k) \in Nat /\ Due(k) > config.bars
    BY <1>1, <2>2 DEF Due
  <2> QED
    BY <1>1, <2>1, <2>3 DEF MoneyInv, Calendar
<1>3. DOMAIN open = {}
  BY <1>2 DEF MoneyInv, Inv, Shapes
<1>4. open = <<>>
  BY <1>3 DEF MoneyInv, Holdings
<1>5. ASSUME NEW x \in Instruments, NEW b \in 1..config.bars PROVE closes[x][b] \in Int
  BY <1>1, <1>2
<1> QED
  BY <1>1, <1>3, <1>4, <1>5

\* What a trade is worth at a bar: nothing before its entry, what it would give at the close
\* while it is held, its result when it is over.
Worth(t, b) ==
  (IF trades[t].left <= b THEN trades[t].net ELSE 0) + (IF Marked(t, b) THEN Mark(t, b) ELSE 0)

LEMMA Distributes ==
  \A a, b, q \in Int : /\ (a - b) * q = a * q - b * q
                       /\ (a - b) * q = -(b * q) + q * a
                       /\ (b - a) * q = b * q + (-q) * a
                       /\ a * q \in Int /\ (a - b) * q \in Int
  OBVIOUS

LEMMA WorthIsAccount ==
  ASSUME MoneyInv, Done, NEW t \in DOMAIN trades, NEW b \in 1..config.bars
  PROVE  /\ trades[t].net \in Int /\ trades[t].left \in Int /\ Mark(t, b) \in Int
         /\ trades[t].left <= config.bars
         /\ Account(t, b) = Worth(t, b)
<1> DEFINE tr == trades[t]
           p == tr.position
<1>1. /\ p \in Position /\ tr.left \in Int /\ tr.exit \in Int /\ tr.costs \in Int /\ tr.net \in Int
      /\ tr.net = SignedGross(p.direction, p.price, tr.exit, p.quantity) - tr.costs
      /\ p.entered <= tr.left /\ tr.left <= config.bars
  BY DEF MoneyInv, Holdings, Settled
<1>2. /\ p.price \in Int /\ p.quantity \in Int /\ p.entered \in Int
      /\ p.direction \in {"BULLISH", "BEARISH"}
  BY <1>1 DEF Position, Directions
<1>3. tr.instrument \in Instruments
  BY DEF MoneyInv, Inv, Shapes, Times, Trade
<1>4. closes[tr.instrument][b] \in Int /\ b \in Int /\ config.bars \in Nat
  BY <1>3, AtTheEnd
<1>5. PICK c \in Int : c = closes[tr.instrument][b]
  BY <1>4
<1>6. Mark(t, b) = SignedGross(p.direction, p.price, c, p.quantity)
  BY <1>5 DEF Mark
<1>7. /\ Paid(p) = (IF p.direction = "BULLISH" THEN -(p.price * p.quantity)
                    ELSE p.price * p.quantity)
      /\ Received(t) = (IF p.direction = "BULLISH" THEN tr.exit * p.quantity
                        ELSE -(tr.exit * p.quantity))
      /\ Holding(t) = (IF p.direction = "BULLISH" THEN p.quantity ELSE -p.quantity)
  BY DEF Paid, Received, Holding, Notional
<1>8. Marked(t, b) <=> p.entered <= b /\ ~(tr.left <= b)
  BY <1>1, <1>2, <1>4 DEF Marked
<1>9. Account(t, b) =
        (IF p.entered <= b
           THEN Paid(p) + (IF tr.left <= b THEN 0 ELSE Holding(t) * c)
           ELSE 0)
        + (IF tr.left <= b THEN Received(t) - tr.costs ELSE 0)
  BY <1>5 DEF Account
<1>10. Worth(t, b) = (IF tr.left <= b THEN tr.net ELSE 0)
                       + (IF Marked(t, b) THEN Mark(t, b) ELSE 0)
  BY DEF Worth
<1> HIDE DEF p, tr
<1>11. tr.net = Paid(p) + Received(t) - tr.costs
  BY <1>1, <1>2, <1>7, Distributes DEF SignedGross
<1>12. Mark(t, b) = Paid(p) + Holding(t) * c
  BY <1>2, <1>6, <1>7, Distributes DEF SignedGross
<1>13. Mark(t, b) \in Int /\ Paid(p) \in Int /\ Received(t) \in Int
  BY <1>1, <1>2, <1>6, <1>7, Distributes DEF SignedGross
<1>14. PICK held \in Int : held = Holding(t) * c
  <2>1. Holding(t) \in Int
    BY <1>2, <1>7
  <2> QED
    BY <2>1
<1>15. Account(t, b) = Worth(t, b)
  BY <1>1, <1>2, <1>4, <1>8, <1>9, <1>10, <1>11, <1>12, <1>13, <1>14
<1> QED
  BY <1>1, <1>13, <1>15 DEF tr

LEMMA EquityOfFills ==
  ASSUME MoneyInv, Done, NEW b \in 1..config.bars
  PROVE  TotalEquity(b) = EquityByFills(b)
<1> DEFINE T == DOMAIN trades
           left == {t \in T : trades[t].left <= b}
           marked == {t \in T : Marked(t, b)}
           over == [t \in T |-> IF trades[t].left <= b THEN trades[t].net ELSE 0]
           held == [t \in T |-> IF Marked(t, b) THEN Mark(t, b) ELSE 0]
           marks == [t \in marked |-> Mark(t, b)]
           worth == [t \in T |-> Account(t, b)]
<1>1. \A t \in T : trades[t].net \in Int /\ Mark(t, b) \in Int /\ Account(t, b) = Worth(t, b)
  BY WorthIsAccount
<1>2. IsFiniteSet(T) /\ left \in SUBSET T /\ marked \in SUBSET T
        /\ IsFiniteSet(left) /\ IsFiniteSet(marked)
  <2>1. IsFiniteSet(T)
    BY NetType, FS_Interval
  <2> QED
    BY <2>1, FS_Subset
<1>3. \A t \in T : over[t] \in Int /\ held[t] \in Int /\ worth[t] = over[t] + held[t]
  BY <1>1 DEF Worth
<1>4. /\ \A t \in left : over[t] \in Int /\ Net[t] = over[t]
      /\ \A t \in T \ left : over[t] = 0
  BY <1>1 DEF Net
<1>5. /\ \A t \in marked : held[t] \in Int /\ marks[t] = held[t]
      /\ \A t \in T \ marked : held[t] = 0
  BY <1>1
<1>6. RealizedAt(b) = SumFunctionOnSet(Net, left)
  BY DEF RealizedAt
<1>7. UnrealizedAt(b) = SumFunctionOnSet(marks, marked)
  BY DEF UnrealizedAt, SumFunction
<1>8. EquityByFills(b) = InitialCapital + SumFunctionOnSet(worth, T)
  BY DEF EquityByFills, SumFunction
<1> HIDE DEF T, left, marked, over, held, marks, worth
<1>9. RealizedAt(b) = SumFunctionOnSet(over, T)
  <2>1. SumFunctionOnSet(Net, left) = SumFunctionOnSet(over, left)
    BY <1>2, <1>4, SumSame
  <2>2. SumFunctionOnSet(over, T) = SumFunctionOnSet(over, left)
    BY <1>2, <1>3, <1>4, SumZeros
  <2> QED
    BY <1>6, <2>1, <2>2
<1>10. UnrealizedAt(b) = SumFunctionOnSet(held, T)
  <2>1. SumFunctionOnSet(marks, marked) = SumFunctionOnSet(held, marked)
    BY <1>2, <1>5, SumSame
  <2>2. SumFunctionOnSet(held, T) = SumFunctionOnSet(held, marked)
    BY <1>2, <1>3, <1>5, SumZeros
  <2> QED
    BY <1>7, <2>1, <2>2
<1>11. SumFunctionOnSet(worth, T) = SumFunctionOnSet(over, T) + SumFunctionOnSet(held, T)
  BY <1>2, <1>3, SumPlus
<1>12. SumFunctionOnSet(over, T) \in Int /\ SumFunctionOnSet(held, T) \in Int
         /\ InitialCapital \in Int
  BY <1>2, <1>3, SumSplit, PortfolioConstants
<1> QED
  BY <1>8, <1>9, <1>10, <1>11, <1>12 DEF TotalEquity

LEMMA EquityIsCash ==
  ASSUME MoneyInv, Done
  PROVE  TotalEquity(config.bars) = cash
<1>1. DOMAIN open = {} /\ config.bars \in Nat
  BY AtTheEnd
<1>2. /\ DOMAIN trades = {t \in DOMAIN trades : trades[t].left <= config.bars}
      /\ {t \in DOMAIN trades : Marked(t, config.bars)} = {}
  <2> SUFFICES ASSUME NEW t \in DOMAIN trades
               PROVE  trades[t].left <= config.bars /\ ~Marked(t, config.bars)
    OBVIOUS
  <2>1. /\ trades[t].left \in Int /\ trades[t].left <= config.bars
        /\ trades[t].position \in Position
    BY DEF MoneyInv, Holdings, Settled
  <2>2. trades[t].position.entered \in Int
    BY <2>1 DEF Position
  <2> QED
    BY <1>1, <2>1, <2>2 DEF Marked
<1>3. RealizedAt(config.bars) = SumFunction(Net) /\ SumFunction(Net) \in Int
  BY <1>2, NetType DEF RealizedAt
<1>4. \A f : SumFunctionOnSet(f, {}) = 0
  BY SumDef, FS_EmptySet
<1>5. UnrealizedAt(config.bars) = 0
  <2> DEFINE marked == {t \in DOMAIN trades : Marked(t, config.bars)}
             marks == [t \in marked |-> Mark(t, config.bars)]
  <2>1. UnrealizedAt(config.bars) = SumFunctionOnSet(marks, DOMAIN marks)
    BY DEF UnrealizedAt, SumFunction
  <2>2. DOMAIN marks = {}
    BY <1>2
  <2> HIDE DEF marks
  <2> QED
    BY <1>4, <2>1, <2>2
<1>6. SumFunction(Committed) = 0
  BY <1>1, <1>4, CommittedType
<1>7. cash + SumFunction(Committed) = InitialCapital + SumFunction(Net)
  BY DEF MoneyInv, CapitalAccounted, Committed
<1>8. cash \in Int /\ InitialCapital \in Int
  BY PortfolioConstants DEF MoneyInv, Holdings
<1> QED
  BY <1>3, <1>5, <1>6, <1>7, <1>8 DEF TotalEquity

\* Whatever was traded, the equity curve of a finished run is at every bar what its fills say,
\* and ends at the cash.
THEOREM CurveIsOfItsFills == PortfolioSpec => []CurveMatchesFills
<1>1. MoneyInv => CurveMatchesFills
  <2> SUFFICES ASSUME MoneyInv, Done
               PROVE  /\ \A b \in 1..config.bars : TotalEquity(b) = EquityByFills(b)
                      /\ open = <<>> /\ TotalEquity(config.bars) = cash
    BY DEF CurveMatchesFills
  <2> QED
    BY AtTheEnd, EquityOfFills, EquityIsCash
<1> QED
  BY MoneyInit, MoneyNext, <1>1, PTL DEF PortfolioSpec

-----------------------------------------------------------------------------
(* The single-instrument engine: what its loop is built from.              *)

\* The loop's recursion has a solution, so a run is computed turn by turn.
Unrolls(m, n, g) ==
  g = [k \in 0..m |-> IF k = 0 THEN Fresh ELSE Iteration(g[k - 1], k, n)]

\* The run of the model is such a solution.
LEMMA RunUnfolds ==
  ASSUME NEW b, NEW n
  PROVE  RunTo(b, n) = (CHOOSE g : Unrolls(n, n, g))[b]
BY DEF RunTo, Unrolls

\* Every turn is an iteration on what the turn before left.
LEMMA TurnByTurn ==
  ASSUME NEW n \in Nat
  PROVE  /\ RunTo(0, n) = Fresh
         /\ \A k \in 1..n : RunTo(k, n) = Iteration(RunTo(k - 1, n), k, n)
<1> DEFINE S == {m \in 0..n : \E g : Unrolls(m, n, g)}
<1>1. 0 \in S
  <2> DEFINE g == [k \in 0..0 |-> Fresh]
  <2>1. Unrolls(0, n, g)
    <3>1. \A k \in 0..0 : k = 0
      OBVIOUS
    <3> QED
      BY <3>1 DEF Unrolls
  <2> QED
    BY <2>1
<1>2. ASSUME NEW m \in 1..n, m - 1 \in S PROVE m \in S
  <2>1. PICK g : Unrolls(m - 1, n, g)
    BY <1>2
  <2> DEFINE h == [k \in 0..m |-> IF k = m THEN Iteration(g[m - 1], m, n) ELSE g[k]]
  <2>2. ASSUME NEW k \in 0..m
        PROVE  h[k] = IF k = 0 THEN Fresh ELSE Iteration(h[k - 1], k, n)
    <3>1. CASE k = m
      <4>1. h[k - 1] = g[m - 1] /\ h[k] = Iteration(g[m - 1], m, n)
        BY <3>1
      <4> QED
        BY <3>1, <4>1
    <3>2. CASE k # m
      <4>1. k \in 0..(m - 1) /\ h[k] = g[k]
        BY <3>2
      <4>2. g[k] = IF k = 0 THEN Fresh ELSE Iteration(g[k - 1], k, n)
        BY <2>1, <4>1 DEF Unrolls
      <4>3. k # 0 => h[k - 1] = g[k - 1]
        BY <4>1
      <4> HIDE DEF h
      <4> QED
        BY <4>1, <4>2, <4>3
    <3> QED
      BY <3>1, <3>2
  <2>3. h = [k \in 0..m |-> h[k]]
    OBVIOUS
  <2> HIDE DEF h
  <2>4. h = [k \in 0..m |-> IF k = 0 THEN Fresh ELSE Iteration(h[k - 1], k, n)]
    BY <2>2, <2>3
  <2>5. \E f : Unrolls(m, n, f)
    BY <2>4 DEF Unrolls
  <2> QED
    BY <2>5
<1>3. n \in S
  <2> HIDE DEF S
  <2> QED
    BY <1>1, <1>2, Counting
<1> DEFINE after == CHOOSE g : Unrolls(n, n, g)
<1>4. Unrolls(n, n, after)
  BY <1>3
<1> HIDE DEF after
<1>5. /\ after[0] = Fresh
      /\ \A k \in 1..n : after[k] = Iteration(after[k - 1], k, n)
  BY <1>4 DEF Unrolls
<1>6. \A k : RunTo(k, n) = after[k]
  BY RunUnfolds DEF after
<1> QED
  BY <1>5, <1>6

-----------------------------------------------------------------------------
(* The shape of a run of the engine.                                       *)

PlansOf == {x.plan : x \in Inputs}
Exits == {Never} \union [at : Nat \ {0}, price : Int, reason : Reasons]
Held == [direction : Directions, entered : Nat, price : Nat \ {0}, quantity : Nat \ {0},
         plan : PlansOf, exit : Exits]
LeavingReasons == Reasons \union {"signal_reversal", "EOD", "end_of_data"}
ClosedTrade == [position : Held, left : Nat, reason : LeavingReasons, net : Int]
Executed == [at : Nat, side : {"BUY", "SELL"}, quantity : Nat \ {0}, price : Int, cost : Int]
RunShape == [equity : Int, open : Held \union {Flat}, trades : Seq(ClosedTrade), fills : Seq(Executed)]

\* What a bar and its signal are made of.
LEMMA InputFacts ==
  ASSUME history \in Seq(Inputs), NEW b \in 1..Known
  PROVE  /\ Bar(b).open \in Nat \ {0} /\ Bar(b).open * (100 - SlippagePercent) >= 100
         /\ Bar(b).close \in Nat /\ Plan(b) \in PlansOf
         /\ Bar(b).low \in Nat /\ Bar(b).high \in Nat
<1>1. history[b] \in Inputs
  BY DEF Known
<1>2. PICK x \in Inputs : x = history[b]
  BY <1>1
<1>3. /\ x.bar.open \in Nat /\ x.bar.high \in Nat /\ x.bar.low \in Nat /\ x.bar.close \in Nat
      /\ x.bar.low > 0 /\ x.bar.open >= x.bar.low
      /\ x.bar.low * (100 - SlippagePercent) >= 100
  BY EngineConstants
<1>4. x.bar.open * (100 - SlippagePercent) >= 100
  <2>1. PICK s \in Nat : s = 100 - SlippagePercent
    BY ExecutionConstants
  <2>3. PICK low \in Nat : low = x.bar.low
    BY <1>3
  <2>2. PICK d \in Nat : d = x.bar.open - low
    BY <1>3, <2>3
  <2>4. (low + d) * s = low * s + d * s /\ d * s \in Nat /\ low * s \in Nat
    OBVIOUS
  <2>5. x.bar.open = low + d
    BY <1>3, <2>2, <2>3
  <2>6. low * s >= 100
    BY <1>3, <2>1, <2>3
  <2>7. (low + d) * s >= 100
    BY <2>4, <2>6
  <2> QED
    BY <2>1, <2>5, <2>7
<1> QED
  BY <1>2, <1>3, <1>4 DEF Bar, Plan, PlansOf

\* A plan is a price for each of some reasons.
LEMMA PlanLevels ==
  ASSUME NEW plan \in PlansOf, NEW reason \in DOMAIN plan
  PROVE  reason \in Reasons /\ plan[reason] \in Int
BY EngineConstants DEF PlansOf

\* What simulate_tradeplan_exit finds: the first bar that touches a level, and the first of
\* its levels in the order of the checks.
FirstHit(exit, plan, direction, entered, n) ==
  /\ exit \in Exits
  /\ exit = Never => \A b \in (entered + 1)..n : TouchedAt(plan, direction, b) = {}
  /\ exit # Never =>
       /\ exit.at \in (entered + 1)..n
       /\ \A b \in (entered + 1)..(exit.at - 1) : TouchedAt(plan, direction, b) = {}
       /\ TouchedAt(plan, direction, exit.at) # {}
       /\ exit.reason = CheckOrder[Min(TouchedAt(plan, direction, exit.at))]
       /\ exit.reason \in DOMAIN plan /\ exit.reason \in Reasons
       /\ exit.price = plan[exit.reason]

\* It finds it, for any plan, entry and length.
LEMMA PlannedExitIs ==
  ASSUME NEW plan \in PlansOf, NEW direction, NEW entered \in Nat, NEW n \in Nat
  PROVE  FirstHit(PlannedExit(plan, direction, entered, n), plan, direction, entered, n)
<1>0. PICK exit : exit = PlannedExit(plan, direction, entered, n)
  OBVIOUS
<1> DEFINE hits == {b \in (entered + 1)..n : TouchedAt(plan, direction, b) # {}}
           first == Min(hits)
           reason == CheckOrder[Min(TouchedAt(plan, direction, first))]
<1>1. exit = IF hits = {} THEN Never ELSE [at |-> first, price |-> plan[reason], reason |-> reason]
  BY <1>0 DEF PlannedExit
<1>2. CASE hits = {}
  <2>1. exit = Never /\ \A b \in (entered + 1)..n : TouchedAt(plan, direction, b) = {}
    BY <1>1, <1>2
  <2> QED
    BY <1>0, <2>1 DEF Exits, FirstHit
<1>3. CASE hits # {}
  <2>1. hits \subseteq Nat
    OBVIOUS
  <2>2. first \in hits /\ \A b \in hits : first <= b
    <3> HIDE DEF hits
    <3> QED
      BY <1>3, <2>1, SmallestMember
  <2>3. TouchedAt(plan, direction, first) \subseteq 1..5
    BY DEF TouchedAt, CheckOrder
  <2>4. Min(TouchedAt(plan, direction, first)) \in TouchedAt(plan, direction, first)
    <3>1. TouchedAt(plan, direction, first) \subseteq Nat
      BY <2>3
    <3> QED
      BY <2>2, <3>1, SmallestMember
  <2>5. reason \in DOMAIN plan
    BY <2>4 DEF TouchedAt, Touched
  <2>6. reason \in Reasons /\ plan[reason] \in Int
    BY <2>5, PlanLevels
  <2> HIDE DEF reason
  <2>7. exit = [at |-> first, price |-> plan[reason], reason |-> reason]
    BY <1>1, <1>3
  <2>8. first \in (entered + 1)..n /\ first \in Nat \ {0}
    BY <2>2
  <2>9. \A b \in (entered + 1)..(first - 1) : TouchedAt(plan, direction, b) = {}
    BY <2>2
  <2> HIDE DEF first, hits
  <2>10. exit \in Exits /\ exit.at = first /\ exit.reason = reason
    BY <2>6, <2>7, <2>8 DEF Exits
  <2>11. exit # Never
    BY <2>7, <2>8 DEF Never
  <2> QED
    BY <1>0, <2>2, <2>5, <2>6, <2>7, <2>8, <2>9, <2>10, <2>11 DEF hits, reason, FirstHit
<1> QED
  BY <1>2, <1>3

-----------------------------------------------------------------------------
(* Its loop.                                                               *)

Entry(p) == Fill(p.entered, Entering(p.direction), p.quantity, p.price)
Exit(trade, price) ==
  Fill(trade.left, Leaving(trade.position.direction), trade.position.quantity, price)

\* Every trade has its two fills and the result they give, an open position has its first.
Booked(run) ==
  /\ Len(run.fills) = 2 * Len(run.trades) + (IF run.open = Flat THEN 0 ELSE 1)
  /\ \A t \in 1..Len(run.trades) :
       LET trade == run.trades[t] p == run.trades[t].position IN
       /\ run.fills[2 * t - 1] = Entry(p)
       /\ run.fills[2 * t] = Exit(trade, run.fills[2 * t].price)
       /\ trade.net = SignedGross(p.direction, p.price, run.fills[2 * t].price, p.quantity)
                        - (run.fills[2 * t - 1].cost + run.fills[2 * t].cost)
  /\ run.open # Flat => run.fills[2 * Len(run.trades) + 1] = Entry(run.open)
  /\ run.equity = Capital + NetPnl(run)

\* One after the other, none of them later than the next bar.
OneByOne(run, k, n) ==
  /\ \A t \in 1..Len(run.trades) :
       /\ run.trades[t].position.entered \in 1..run.trades[t].left
       /\ run.trades[t].left <= n /\ run.trades[t].left <= k + 1
  /\ \A s, t \in 1..Len(run.trades) :
       s < t => run.trades[s].left < run.trades[t].position.entered
  /\ run.open # Flat =>
       /\ run.open.entered \in 1..n /\ run.open.entered <= k + 1 /\ k < n
       /\ \A t \in 1..Len(run.trades) : run.trades[t].left < run.open.entered

\* The plan came with the signal, and the exit is the one that was looked up for it, which
\* still lies ahead of an open position; what is forced out is forced out at the end.
Foreseen(p, n) ==
  /\ \E x \in Inputs : p.plan = x.plan /\ p.direction = x.signal
  /\ p.exit = PlannedExit(p.plan, p.direction, p.entered, n)
ByPlan(run, k, n) ==
  /\ \A t \in 1..Len(run.trades) :
       LET trade == run.trades[t] p == run.trades[t].position IN
       /\ Foreseen(p, n)
       /\ p.plan # <<>> =>
            IF trade.reason = "EOD" THEN trade.left = n /\ p.exit = Never
            ELSE /\ p.exit # Never /\ trade.left = p.exit.at /\ trade.reason = p.exit.reason
                 /\ run.fills[2 * t].price = Slipped(Leaving(p.direction), p.exit.price)
       /\ k < n => trade.reason \notin {"EOD", "end_of_data"}
  /\ run.open # Flat =>
       /\ Foreseen(run.open, n)
       /\ run.open.plan # <<>> /\ run.open.exit # Never => run.open.exit.at > k

LoopInv(run, k, n) ==
  run \in RunShape /\ Booked(run) /\ OneByOne(run, k, n) /\ ByPlan(run, k, n)

\* A held position is not the absence of one.
LEMMA NotFlat == \A p \in Held : p # Flat /\ p.direction # "NEUTRAL"
BY DEF Held, Flat, Directions

\* The types of a closed trade.
LEMMA TradeType ==
  ASSUME NEW run \in RunShape, NEW t \in 1..Len(run.trades)
  PROVE  /\ run.trades[t] \in ClosedTrade /\ run.trades[t].left \in Nat
         /\ run.trades[t].position \in Held
<1>1. run.trades \in Seq(ClosedTrade)
  BY DEF RunShape
<1>2. run.trades[t] \in ClosedTrade
  BY <1>1
<1> QED
  BY <1>2 DEF ClosedTrade

\* A fill costs whole units.
LEMMA FillType ==
  ASSUME NEW b \in Nat, NEW side \in {"BUY", "SELL"}, NEW quantity \in Nat \ {0}, NEW price \in Int
  PROVE  Fill(b, side, quantity, price) \in Executed
<1>1. price * quantity \in Int
  OBVIOUS
<1>2. Cost(side, price * quantity) \in Int
  BY <1>1, CostType
<1> QED
  BY <1>2 DEF Fill, Executed

\* A price that slipped is a price.
LEMMA SlippedType ==
  ASSUME NEW side, NEW price \in Int PROVE Slipped(side, price) \in Int
<1>1. SlippagePercent \in Int
  BY ExecutionConstants
<1>2. PICK m \in Int :
        m = price * (IF side = "BUY" THEN 100 + SlippagePercent ELSE 100 - SlippagePercent)
  <2>1. PICK r \in Int : r = IF side = "BUY" THEN 100 + SlippagePercent ELSE 100 - SlippagePercent
    BY <1>1
  <2>2. price * r \in Int
    OBVIOUS
  <2> QED
    BY <2>1, <2>2
<1>3. m \div 100 \in Int
  OBVIOUS
<1> QED
  BY <1>2, <1>3 DEF Slipped

\* The results of the trades can be added.
LEMMA NetOfType ==
  ASSUME NEW run \in RunShape
  PROVE  /\ DOMAIN run.trades = 1..Len(run.trades) /\ Len(run.trades) \in Nat
         /\ \A t \in 1..Len(run.trades) : NetOf(run)[t] = run.trades[t].net /\ run.trades[t].net \in Int
         /\ NetPnl(run) = SumFunctionOnSet(NetOf(run), 1..Len(run.trades))
         /\ NetPnl(run) \in Int
<1>1. run.trades \in Seq(ClosedTrade)
  BY DEF RunShape
<1>2. /\ DOMAIN run.trades = 1..Len(run.trades) /\ Len(run.trades) \in Nat
      /\ \A t \in 1..Len(run.trades) : run.trades[t] \in ClosedTrade
  BY <1>1
<1>3. \A t \in 1..Len(run.trades) : NetOf(run)[t] = run.trades[t].net /\ run.trades[t].net \in Int
  BY <1>2 DEF NetOf, ClosedTrade
<1>4. NetPnl(run) = SumFunctionOnSet(NetOf(run), 1..Len(run.trades))
  BY <1>2 DEF NetPnl, SumFunction, NetOf
<1>5. IsFiniteSet(1..Len(run.trades))
  BY <1>2, FS_Interval
<1> QED
  BY <1>2, <1>3, <1>4, <1>5, SumSplit

\* Before the first turn.
LEMMA FreshInv ==
  ASSUME NEW n \in Nat PROVE LoopInv(Fresh, 0, n)
<1>1. /\ Fresh.trades = <<>> /\ Fresh.fills = <<>> /\ Fresh.open = Flat /\ Fresh.equity = Capital
      /\ Len(Fresh.trades) = 0 /\ Len(Fresh.fills) = 0
  BY DEF Fresh
<1>2. Fresh \in RunShape
  BY EngineConstants DEF RunShape, Fresh
<1>3. NetPnl(Fresh) = 0
  BY <1>1, <1>2, NetOfType, SumSplit, FS_EmptySet
<1> QED
  BY <1>1, <1>2, <1>3, EngineConstants DEF LoopInv, Booked, OneByOne, ByPlan

\* The types of the open position.
LEMMA OpenIs ==
  ASSUME NEW run \in RunShape, run.open # Flat
  PROVE  /\ run.open \in Held /\ run.open.direction \in Directions /\ run.open.entered \in Nat
         /\ run.open.price \in Nat \ {0} /\ run.open.quantity \in Nat \ {0}
         /\ run.open.plan \in PlansOf /\ run.open.exit \in Exits
BY DEF RunShape, Held

\* A turn that closes, at its own bar or at the next one, by the plan if there is one.
LEMMA CloseKeeps ==
  ASSUME NEW n \in Nat, NEW k \in 1..n, NEW run, LoopInv(run, k - 1, n), run.open # Flat,
         NEW b \in Nat, run.open.entered <= b, b <= n, b <= k + 1,
         NEW price \in Int, NEW reason \in LeavingReasons,
         run.open.plan # <<>> =>
           IF reason = "EOD" THEN b = n /\ run.open.exit = Never
           ELSE run.open.exit # Never /\ b = run.open.exit.at /\ reason = run.open.exit.reason
                /\ price = run.open.exit.price,
         k < n => reason \notin {"EOD", "end_of_data"}
  PROVE  LoopInv(CloseTrade(run, b, price, reason), k, n)
<1> DEFINE p == run.open
           slipped == Slipped(Leaving(p.direction), price)
           fill == Fill(b, Leaving(p.direction), p.quantity, slipped)
           gross == SignedGross(p.direction, p.price, slipped, p.quantity)
           net == gross - (Cost(Entering(p.direction), p.price * p.quantity) + fill.cost)
           trade == [position |-> p, left |-> b, reason |-> reason, net |-> net]
           next == CloseTrade(run, b, price, reason)
<1>1. run \in RunShape /\ Booked(run) /\ OneByOne(run, k - 1, n) /\ ByPlan(run, k - 1, n)
  BY DEF LoopInv
<1>2. /\ p \in Held /\ p.direction \in Directions /\ p.entered \in Nat
      /\ p.price \in Nat \ {0} /\ p.quantity \in Nat \ {0}
  BY <1>1, OpenIs
<1>3. /\ run.trades \in Seq(ClosedTrade) /\ run.fills \in Seq(Executed) /\ run.equity \in Int
      /\ Len(run.trades) \in Nat /\ Len(run.fills) = 2 * Len(run.trades) + 1
  BY <1>1 DEF RunShape, Booked
<1>20. PICK m \in Nat : m = Len(run.trades)
  BY <1>3
<1>4. slipped \in Int /\ Leaving(p.direction) \in {"BUY", "SELL"} /\ Entering(p.direction) \in {"BUY", "SELL"}
  BY SlippedType DEF Leaving, Entering
<1>5. fill \in Executed /\ fill.cost \in Int /\ fill.price = slipped
  <2>1. fill \in Executed
    BY <1>2, <1>4, FillType
  <2>2. fill.price = slipped
    BY DEF Fill
  <2> QED
    BY <2>1, <2>2 DEF Executed
<1>6. net \in Int
  <2>1. gross \in Int
    <3>1. slipped - p.price \in Int /\ p.price - slipped \in Int
      BY <1>2, <1>4
    <3>2. \A x, y \in Int : x * y \in Int
      OBVIOUS
    <3> QED
      BY <1>2, <3>1, <3>2 DEF SignedGross
  <2>2. p.price * p.quantity \in Int
    BY <1>2
  <2>3. Cost(Entering(p.direction), p.price * p.quantity) \in Int
    BY <1>4, <2>2, CostType
  <2> HIDE DEF gross, fill
  <2> QED
    BY <1>5, <2>1, <2>3
<1>7. next = [equity |-> run.equity + net, open |-> Flat, fills |-> Append(run.fills, fill),
              trades |-> Append(run.trades, trade)]
  BY <1>5 DEF CloseTrade, Fill
<1>8. trade \in ClosedTrade
  BY <1>2, <1>6 DEF ClosedTrade
<1>9. run.fills[2 * m + 1] = Entry(p)
  BY <1>1, <1>20 DEF Booked
<1>10. Cost(Entering(p.direction), p.price * p.quantity) = run.fills[2 * m + 1].cost
  BY <1>9 DEF Entry, Fill
<1>11. fill = Exit(trade, slipped)
  BY DEF Exit
<1> HIDE DEF slipped, fill, net
<1>12. net = SignedGross(p.direction, p.price, slipped, p.quantity) - (run.fills[2 * m + 1].cost + fill.cost)
  BY <1>10 DEF net, fill, slipped
<1>13. /\ next.trades = Append(run.trades, trade) /\ next.fills = Append(run.fills, fill)
       /\ next.open = Flat /\ next.equity = run.equity + net
  BY <1>7
<1>14. /\ Len(next.trades) = m + 1 /\ Len(next.fills) = 2 * m + 2
       /\ next.trades[m + 1] = trade /\ next.fills[2 * m + 2] = fill
       /\ \A t \in 1..m : next.trades[t] = run.trades[t]
       /\ \A f \in 1..(2 * m + 1) : next.fills[f] = run.fills[f]
  <2>1. /\ Len(Append(run.trades, trade)) = m + 1 /\ Append(run.trades, trade)[m + 1] = trade
        /\ \A t \in 1..m : Append(run.trades, trade)[t] = run.trades[t]
    BY <1>3, <1>8, <1>20, Appended
  <2>2. Len(run.fills) = 2 * m + 1
    BY <1>3, <1>20
  <2>3. /\ Len(Append(run.fills, fill)) = Len(run.fills) + 1
        /\ Append(run.fills, fill)[Len(run.fills) + 1] = fill
        /\ \A f \in 1..Len(run.fills) : Append(run.fills, fill)[f] = run.fills[f]
    <3>1. run.fills \in Seq(Executed) /\ fill \in Executed
      BY <1>3, <1>5
    <3> QED
      BY <3>1, Appended
  <2>4. (2 * m + 1) + 1 = 2 * m + 2
    OBVIOUS
  <2> QED
    BY <1>13, <2>1, <2>2, <2>3, <2>4
<1>15. next \in RunShape
  <2>1. Append(run.trades, trade) \in Seq(ClosedTrade) /\ Append(run.fills, fill) \in Seq(Executed)
    BY <1>3, <1>5, <1>8
  <2>2. run.equity + net \in Int
    BY <1>3, <1>6
  <2> QED
    BY <1>7, <2>1, <2>2 DEF RunShape
<1> HIDE DEF next
<1>16. NetPnl(next) = NetPnl(run) + net
  <2>1. /\ NetPnl(run) = SumFunctionOnSet(NetOf(run), 1..m)
        /\ NetPnl(next) = SumFunctionOnSet(NetOf(next), 1..(m + 1))
        /\ \A t \in 1..m : NetOf(run)[t] \in Int /\ NetOf(next)[t] = NetOf(run)[t]
        /\ NetOf(next)[m + 1] = net
    <3>1. NetPnl(run) = SumFunctionOnSet(NetOf(run), 1..m) /\ \A t \in 1..m : NetOf(run)[t] = run.trades[t].net /\ run.trades[t].net \in Int
      BY <1>1, <1>20, NetOfType
    <3>2. /\ NetPnl(next) = SumFunctionOnSet(NetOf(next), 1..(m + 1))
          /\ \A t \in 1..(m + 1) : NetOf(next)[t] = next.trades[t].net
      BY <1>14, <1>15, NetOfType
    <3>3. \A t \in 1..m : t \in 1..(m + 1) /\ next.trades[t] = run.trades[t]
      BY <1>14
    <3>4. m + 1 \in 1..(m + 1) /\ next.trades[m + 1].net = net
      BY <1>14
    <3> QED
      BY <3>1, <3>2, <3>3, <3>4
  <2>2. 1..(m + 1) = (1..m) \union {m + 1}
    BY <1>3
  <2> QED
    BY <1>6, <2>1, <2>2, SumAppended
<1>17. Booked(next)
  <2>1. next.equity = Capital + NetPnl(next)
    <3>1. run.equity = Capital + NetPnl(run) /\ NetPnl(run) \in Int /\ Capital \in Int
      BY <1>1, NetOfType, EngineConstants DEF Booked
    <3> QED
      BY <1>6, <1>13, <1>16, <3>1
  <2>2. ASSUME NEW t \in 1..(m + 1)
        PROVE  /\ next.fills[2 * t - 1] = Entry(next.trades[t].position)
               /\ next.fills[2 * t] = Exit(next.trades[t], next.fills[2 * t].price)
               /\ next.trades[t].net
                    = SignedGross(next.trades[t].position.direction, next.trades[t].position.price,
                                  next.fills[2 * t].price, next.trades[t].position.quantity)
                        - (next.fills[2 * t - 1].cost + next.fills[2 * t].cost)
    <3>1. CASE t = m + 1
      <4>1. 2 * t = 2 * m + 2 /\ 2 * t - 1 = 2 * m + 1 /\ 2 * m + 1 \in 1..(2 * m + 1)
        BY <3>1
      <4>2. /\ next.trades[t] = trade /\ next.fills[2 * t] = fill
            /\ next.fills[2 * t - 1] = run.fills[2 * m + 1]
        BY <1>14, <3>1, <4>1
      <4>3. next.trades[t].position = p /\ next.trades[t].net = net
        BY <4>2
      <4> HIDE DEF trade
      <4> QED
        BY <1>5, <1>9, <1>11, <1>12, <4>2, <4>3
    <3>2. CASE t # m + 1
      <4>1. /\ t \in 1..m /\ 2 * t \in 1..(2 * m + 1) /\ 2 * t - 1 \in 1..(2 * m + 1)
        BY <1>3, <3>2
      <4>2. /\ next.trades[t] = run.trades[t] /\ next.fills[2 * t - 1] = run.fills[2 * t - 1]
            /\ next.fills[2 * t] = run.fills[2 * t]
        BY <1>14, <4>1
      <4> QED
        BY <1>1, <1>20, <4>1, <4>2 DEF Booked
    <3> QED
      BY <3>1, <3>2
  <2>3. Len(next.fills) = 2 * Len(next.trades) + 0 /\ next.open = Flat
    <3>1. 2 * m + 2 = 2 * (m + 1) + 0
      OBVIOUS
    <3>2. Len(next.fills) = 2 * m + 2 /\ Len(next.trades) = m + 1 /\ next.open = Flat
      BY <1>13, <1>14
    <3> QED
      BY <3>1, <3>2
  <2>4. 1..Len(next.trades) = 1..(m + 1)
    BY <1>14
  <2> QED
    BY <2>1, <2>2, <2>3, <2>4 DEF Booked
<1>18. OneByOne(next, k, n)
  <2>1. p.entered \in 1..b
    BY <1>1, <1>2 DEF OneByOne
  <2>2. \A t \in 1..m : run.trades[t].left < p.entered
    BY <1>1, <1>20 DEF OneByOne
  <2>3. ASSUME NEW t \in 1..(m + 1)
        PROVE  /\ next.trades[t].position.entered \in 1..next.trades[t].left
               /\ next.trades[t].left <= n /\ next.trades[t].left <= k + 1
    <3>1. CASE t = m + 1
      BY <1>14, <2>1, <3>1
    <3>2. CASE t # m + 1
      <4>1. t \in 1..m /\ next.trades[t] = run.trades[t] /\ run.trades[t] \in ClosedTrade
        BY <1>3, <1>14, <1>20, <3>2
      <4>2. run.trades[t].left <= (k - 1) + 1 /\ run.trades[t].left \in Nat
        BY <1>1, <1>20, <4>1 DEF OneByOne, ClosedTrade
      <4> QED
        BY <1>1, <1>20, <4>1, <4>2 DEF OneByOne
    <3> QED
      BY <3>1, <3>2
  <2>4. ASSUME NEW s \in 1..(m + 1), NEW t \in 1..(m + 1), s < t
        PROVE  next.trades[s].left < next.trades[t].position.entered
    <3>1. s \in 1..m /\ next.trades[s] = run.trades[s]
      BY <1>3, <1>14, <2>4
    <3>2. CASE t = m + 1
      BY <1>14, <2>2, <3>1, <3>2
    <3>3. CASE t # m + 1
      <4>1. t \in 1..m
        BY <3>3
      <4>2. next.trades[t] = run.trades[t]
        BY <1>14, <4>1
      <4> QED
        BY <1>1, <1>20, <2>4, <3>1, <4>1, <4>2 DEF OneByOne
    <3> QED
      BY <3>2, <3>3
  <2> QED
    BY <1>13, <1>14, <2>3, <2>4 DEF OneByOne
<1>19. ByPlan(next, k, n)
  <2>1. Foreseen(p, n)
    BY <1>1 DEF ByPlan
  <2>2. ASSUME NEW t \in 1..(m + 1)
        PROVE  /\ Foreseen(next.trades[t].position, n)
               /\ next.trades[t].position.plan # <<>> =>
                    IF next.trades[t].reason = "EOD"
                    THEN next.trades[t].left = n /\ next.trades[t].position.exit = Never
                    ELSE /\ next.trades[t].position.exit # Never
                         /\ next.trades[t].left = next.trades[t].position.exit.at
                         /\ next.trades[t].reason = next.trades[t].position.exit.reason
                         /\ next.fills[2 * t].price
                              = Slipped(Leaving(next.trades[t].position.direction),
                                        next.trades[t].position.exit.price)
               /\ k < n => next.trades[t].reason \notin {"EOD", "end_of_data"}
    <3>1. CASE t = m + 1
      <4>1. 2 * t = 2 * m + 2 /\ next.trades[t] = trade /\ next.fills[2 * t] = fill
        BY <1>3, <1>14, <3>1
      <4> QED
        BY <1>5, <2>1, <4>1 DEF slipped
    <3>2. CASE t # m + 1
      <4>1. t \in 1..m /\ 2 * t \in 1..(2 * m + 1)
        BY <1>3, <3>2
      <4>2. next.trades[t] = run.trades[t] /\ next.fills[2 * t] = run.fills[2 * t] /\ k - 1 < n
        BY <1>14, <4>1
      <4> QED
        BY <1>1, <1>20, <4>1, <4>2 DEF ByPlan
    <3> QED
      BY <3>1, <3>2
  <2> QED
    BY <1>13, <1>14, <2>2 DEF ByPlan
<1> QED
  BY <1>15, <1>17, <1>18, <1>19 DEF LoopInv, next

\* A turn that does nothing.
LEMMA StayKeeps ==
  ASSUME NEW n \in Nat, NEW k \in 1..n, NEW run, LoopInv(run, k - 1, n),
         run.open # Flat =>
           k < n /\ (run.open.plan # <<>> /\ run.open.exit # Never => run.open.exit.at # k)
  PROVE  LoopInv(run, k, n)
<1>1. run \in RunShape /\ Booked(run) /\ OneByOne(run, k - 1, n) /\ ByPlan(run, k - 1, n)
  BY DEF LoopInv
<1>2. OneByOne(run, k, n)
  <2>1. \A t \in 1..Len(run.trades) : run.trades[t].left \in Nat
    BY <1>1, TradeType
  <2>2. \A t \in 1..Len(run.trades) : run.trades[t].left <= k + 1
    <3>1. \A t \in 1..Len(run.trades) : run.trades[t].left <= (k - 1) + 1
      BY <1>1 DEF OneByOne
    <3> QED
      BY <2>1, <3>1
  <2>3. run.open # Flat => run.open.entered <= k + 1
    BY <1>1 DEF OneByOne
  <2> QED
    BY <1>1, <2>2, <2>3 DEF OneByOne
<1>3. ByPlan(run, k, n)
  <2>1. k < n => k - 1 < n
    OBVIOUS
  <2>2. ASSUME run.open # Flat, run.open.plan # <<>>, run.open.exit # Never
        PROVE  run.open.exit.at > k
    <3>1. run.open.exit.at > k - 1 /\ run.open.exit.at # k
      BY <1>1, <2>2 DEF ByPlan
    <3>2. run.open.exit.at \in Nat
      BY <1>1, <2>2, OpenIs DEF Exits
    <3> QED
      BY <3>1, <3>2
  <2> QED
    BY <1>1, <2>1, <2>2 DEF ByPlan
<1> QED
  BY <1>1, <1>2, <1>3 DEF LoopInv

\* A turn that enters.
LEMMA OpenKeeps ==
  ASSUME history \in Seq(Inputs), NEW n \in Nat, n <= Known, NEW k \in 1..n, k < n,
         NEW run, LoopInv(run, k - 1, n), run.open = Flat, Signal(k) \in Directions
  PROVE  LoopInv(OpenTrade(run, k, n), k, n)
<1> DEFINE direction == Signal(k)
           price == Slipped(Entering(direction), Bar(k + 1).open)
           quantity == SizeFor(run.equity, price)
           exit == PlannedExit(Plan(k), direction, k + 1, n)
           p == [direction |-> direction, entered |-> k + 1, price |-> price,
                 quantity |-> quantity, plan |-> Plan(k), exit |-> exit]
           fill == Fill(k + 1, Entering(direction), quantity, price)
           next == OpenTrade(run, k, n)
<1>1. run \in RunShape /\ Booked(run) /\ OneByOne(run, k - 1, n) /\ ByPlan(run, k - 1, n)
  BY DEF LoopInv
<1>2. CASE ~(quantity > 0 /\ EntryApproved(run.equity, quantity))
  <2>1. next = run
    BY <1>2 DEF OpenTrade
  <2> HIDE DEF next
  <2> QED
    BY <2>1, StayKeeps DEF next
<1>3. CASE quantity > 0 /\ EntryApproved(run.equity, quantity)
  <2>1. Known \in Nat /\ k \in 1..Known /\ k + 1 \in 1..Known /\ k + 1 \in Nat
    BY DEF Known
  <2>2. price \in Nat \ {0}
    BY <2>1, InputFacts, SlippedPrice
  <2> HIDE DEF price
  <2>3. quantity \in Nat \ {0}
    <3>1. PICK w \in Int : w = run.equity * EquityPercent
      BY <1>1, EngineConstants DEF RunShape
    <3>2. PICK d \in Nat \ {0} : d = 100 * price
      BY <2>2
    <3>3. w \div d \in Int
      OBVIOUS
    <3>4. quantity \in Int
      BY <3>1, <3>2, <3>3, EngineConstants DEF SizeFor
    <3> HIDE DEF quantity
    <3> QED
      BY <1>3, <3>4
  <2> HIDE DEF quantity
  <2>4. Plan(k) \in PlansOf
    BY <2>1, InputFacts
  <2>5. exit \in Exits /\ (exit # Never => exit.at \in ((k + 1) + 1)..n)
    <3>1. FirstHit(exit, Plan(k), direction, k + 1, n)
      BY <2>1, <2>4, PlannedExitIs
    <3> HIDE DEF exit, direction
    <3> QED
      BY <3>1 DEF FirstHit
  <2>6. Foreseen(p, n)
    <3>1. history[k] \in Inputs
      BY <2>1 DEF Known
    <3>2. p.plan = history[k].plan /\ p.direction = history[k].signal
      BY DEF Plan, Signal
    <3>3. p.exit = PlannedExit(p.plan, p.direction, p.entered, n)
      OBVIOUS
    <3> HIDE DEF p
    <3> QED
      BY <3>1, <3>2, <3>3 DEF Foreseen
  <2> HIDE DEF exit
  <2>7. p \in Held
    BY <2>1, <2>2, <2>3, <2>4, <2>5 DEF Held
  <2>8. fill \in Executed /\ fill = Entry(p)
    <3>1. Entering(direction) \in {"BUY", "SELL"} /\ price \in Int
      BY <2>2 DEF Entering
    <3>2. fill = Entry(p)
      BY DEF Entry
    <3> QED
      BY <2>1, <2>3, <3>1, <3>2, FillType
  <2> HIDE DEF fill
  <2>9. next = [run EXCEPT !.open = p, !.fills = Append(run.fills, fill)]
    BY <1>3 DEF OpenTrade, price, quantity, exit, fill
  <2>10. p.entered = k + 1 /\ p.plan = Plan(k) /\ p.exit = exit
    OBVIOUS
  <2> HIDE DEF p, next
  <2>11. /\ next.open = p /\ next.fills = Append(run.fills, fill)
         /\ next.trades = run.trades /\ next.equity = run.equity
    BY <1>1, <2>9 DEF RunShape
  <2>12. run.fills \in Seq(Executed) /\ Len(run.trades) \in Nat
    BY <1>1 DEF RunShape
  <2>13. next \in RunShape
    <3>1. Append(run.fills, fill) \in Seq(Executed)
      BY <2>8, <2>12
    <3> QED
      BY <1>1, <2>7, <2>9, <3>1 DEF RunShape
  <2>14. p # Flat
    BY <2>7, NotFlat
  <2>15. PICK m \in Nat : m = Len(run.trades)
    BY <2>12
  <2>16. Len(run.fills) = 2 * m
    BY <1>1, <2>15 DEF Booked
  <2>17. /\ Len(next.fills) = 2 * m + 1 /\ next.fills[2 * m + 1] = Entry(p)
         /\ \A f \in 1..(2 * m) : next.fills[f] = run.fills[f]
    <3>1. run.fills \in Seq(Executed) /\ fill \in Executed
      BY <2>8, <2>12
    <3>2. /\ Len(Append(run.fills, fill)) = Len(run.fills) + 1
          /\ Append(run.fills, fill)[Len(run.fills) + 1] = fill
          /\ \A f \in 1..Len(run.fills) : Append(run.fills, fill)[f] = run.fills[f]
      BY <3>1, Appended
    <3> QED
      BY <2>8, <2>11, <2>16, <3>2
  <2>18. \A t \in 1..m : next.fills[2 * t - 1] = run.fills[2 * t - 1] /\ next.fills[2 * t] = run.fills[2 * t]
    <3> SUFFICES ASSUME NEW t \in 1..m
                 PROVE  next.fills[2 * t - 1] = run.fills[2 * t - 1] /\ next.fills[2 * t] = run.fills[2 * t]
      OBVIOUS
    <3>1. 2 * t \in 1..(2 * m) /\ 2 * t - 1 \in 1..(2 * m)
      OBVIOUS
    <3> QED
      BY <2>17, <3>1
  <2>19. Booked(next)
    <3>1. NetPnl(next) = NetPnl(run)
      <4>1. NetOf(next) = NetOf(run)
        BY <2>11 DEF NetOf
      <4> QED
        BY <4>1 DEF NetPnl
    <3>2. Len(next.fills) = 2 * Len(next.trades) + (IF next.open = Flat THEN 0 ELSE 1)
      BY <2>11, <2>14, <2>15, <2>17
    <3> QED
      BY <1>1, <2>11, <2>15, <2>17, <2>18, <3>1, <3>2 DEF Booked
  <2>20. LoopInv(run, k, n)
    BY StayKeeps
  <2>21. OneByOne(next, k, n)
    <3>1. OneByOne(run, k - 1, n) /\ OneByOne(run, k, n)
      BY <1>1, <2>20 DEF LoopInv
    <3>2. \A t \in 1..Len(run.trades) : run.trades[t].left < p.entered
      <4> SUFFICES ASSUME NEW t \in 1..Len(run.trades) PROVE run.trades[t].left < p.entered
        OBVIOUS
      <4>1. run.trades[t].left <= (k - 1) + 1
        BY <3>1 DEF OneByOne
      <4>2. run.trades[t].left \in Nat
        BY <1>1, TradeType
      <4> QED
        BY <2>10, <4>1, <4>2
    <3>3. p.entered \in 1..n /\ p.entered <= k + 1
      BY <2>10
    <3> QED
      BY <2>11, <3>1, <3>2, <3>3 DEF OneByOne
  <2>22. ByPlan(next, k, n)
    <3>1. ByPlan(run, k, n)
      BY <2>20 DEF LoopInv
    <3>2. p.exit # Never => p.exit.at > k
      BY <2>5, <2>10
    <3> QED
      BY <2>6, <2>11, <2>15, <2>18, <3>1, <3>2 DEF ByPlan
  <2> QED
    BY <2>13, <2>19, <2>21, <2>22 DEF LoopInv, next
<1> QED
  BY <1>2, <1>3

\* Every turn of the loop.
LEMMA IterationKeeps ==
  ASSUME history \in Seq(Inputs), NEW n \in Nat, n <= Known, NEW k \in 1..n,
         NEW run, LoopInv(run, k - 1, n)
  PROVE  LoopInv(Iteration(run, k, n), k, n)
<1> DEFINE p == run.open
           enters == p = Flat /\ Signal(k) \in Directions /\ k < n
           due == p # Flat /\ p.plan # <<>> /\ DueAt(p.exit, k)
           turns == p # Flat /\ p.plan = <<>> /\ Signal(k) \notin {p.direction, "WARMUP"} /\ k < n
           ends == p # Flat /\ k = n /\ ~(p.plan # <<>> /\ DueAt(p.exit, k))
           next == Iteration(run, k, n)
<1>1. /\ enters => next = OpenTrade(run, k, n)
      /\ due => next = CloseTrade(run, k, p.exit.price, p.exit.reason)
      /\ turns => next = CloseTrade(run, k + 1, Bar(k + 1).open, "signal_reversal")
      /\ ends => next = CloseTrade(run, k, Bar(k).close, IF p.plan # <<>> THEN "EOD" ELSE "end_of_data")
      /\ ~enters /\ ~due /\ ~turns /\ ~ends => next = run
  BY DEF Iteration
<1>2. run \in RunShape /\ OneByOne(run, k - 1, n) /\ ByPlan(run, k - 1, n)
  BY DEF LoopInv
<1>3. ASSUME p # Flat
      PROVE  /\ p.entered \in Nat /\ p.entered <= k /\ p.plan \in PlansOf /\ p.exit \in Exits
             /\ p.exit = PlannedExit(p.plan, p.direction, p.entered, n)
             /\ p.plan # <<>> /\ p.exit # Never => p.exit.at > k - 1
  BY <1>2, <1>3, OpenIs DEF OneByOne, ByPlan, Foreseen
<1>4. Known \in Nat /\ k \in 1..Known /\ (k < n => k + 1 \in 1..Known)
  BY DEF Known
<1>5. ASSUME p # Flat, p.exit # Never
      PROVE  p.exit.at \in Nat /\ p.exit.at <= n /\ p.exit.price \in Int /\ p.exit.reason \in Reasons
  <2>1. p.exit.at \in (p.entered + 1)..n
    <3>1. FirstHit(p.exit, p.plan, p.direction, p.entered, n)
      BY <1>3, <1>5, PlannedExitIs
    <3> QED
      BY <1>5, <3>1 DEF FirstHit
  <2>2. p.exit \in Exits
    BY <1>3, <1>5
  <2> HIDE DEF p
  <2> QED
    BY <1>5, <2>1, <2>2 DEF Exits
<1> HIDE DEF next
<1>6. CASE enters
  BY <1>1, <1>6, OpenKeeps DEF next
<1>7. CASE due
  <2>1. p.exit # Never /\ p.exit.at = k
    BY <1>7 DEF DueAt
  <2>2. /\ p.exit.reason \in LeavingReasons /\ p.exit.reason \notin {"EOD", "end_of_data"}
        /\ p.exit.price \in Int
    BY <1>5, <1>7, <2>1 DEF Reasons, LeavingReasons
  <2>3. p.exit.reason # "EOD" /\ k \in Nat /\ k <= n /\ k <= k + 1 /\ p.entered <= k
    BY <1>3, <1>7, <2>2
  <2>4. next = CloseTrade(run, k, p.exit.price, p.exit.reason)
    BY <1>1, <1>7
  <2>5. LoopInv(CloseTrade(run, k, p.exit.price, p.exit.reason), k, n)
    BY <1>7, <2>1, <2>2, <2>3, CloseKeeps
  <2> QED
    BY <2>4, <2>5 DEF next
<1>8. CASE turns
  <2>1. Bar(k + 1).open \in Int
    BY <1>4, <1>8, InputFacts
  <2>2. k + 1 \in Nat /\ k + 1 <= n /\ p.entered <= k + 1 /\ p # Flat /\ p.plan = <<>>
    BY <1>3, <1>8
  <2>3. "signal_reversal" \in LeavingReasons /\ "signal_reversal" \notin {"EOD", "end_of_data"}
    BY DEF LeavingReasons
  <2>4. next = CloseTrade(run, k + 1, Bar(k + 1).open, "signal_reversal")
    BY <1>1, <1>8
  <2>5. LoopInv(CloseTrade(run, k + 1, Bar(k + 1).open, "signal_reversal"), k, n)
    BY <2>1, <2>2, <2>3, CloseKeeps
  <2> QED
    BY <2>4, <2>5 DEF next
<1>9. CASE ends
  <2>1. Bar(k).close \in Int
    BY <1>4, InputFacts
  <2>2. p.plan # <<>> => p.exit = Never
    BY <1>3, <1>5, <1>9 DEF DueAt
  <2>3. PICK reason \in LeavingReasons : reason = IF p.plan # <<>> THEN "EOD" ELSE "end_of_data"
    BY DEF LeavingReasons
  <2>4. next = CloseTrade(run, k, Bar(k).close, reason)
    BY <1>1, <1>9, <2>3
  <2>5. k \in Nat /\ k <= n /\ k <= k + 1 /\ p.entered <= k /\ p # Flat /\ ~(k < n) /\ k = n
    BY <1>3, <1>9
  <2>6. LoopInv(CloseTrade(run, k, Bar(k).close, reason), k, n)
    BY <2>1, <2>2, <2>3, <2>5, CloseKeeps
  <2> QED
    BY <2>4, <2>6 DEF next
<1>10. CASE ~enters /\ ~due /\ ~turns /\ ~ends
  <2>1. p # Flat => k < n /\ (p.plan # <<>> /\ p.exit # Never => p.exit.at # k)
    BY <1>10 DEF DueAt
  <2> QED
    BY <1>1, <1>10, <2>1, StayKeeps DEF next
<1> QED
  BY <1>6, <1>7, <1>8, <1>9, <1>10

\* So the invariant holds after every turn.
LEMMA LoopHolds ==
  ASSUME history \in Seq(Inputs), NEW n \in Nat, n <= Known
  PROVE  \A k \in 0..n : LoopInv(RunTo(k, n), k, n)
<1> DEFINE S == {k \in 0..n : LoopInv(RunTo(k, n), k, n)}
<1>1. 0 \in S
  BY TurnByTurn, FreshInv
<1>2. ASSUME NEW k \in 1..n, k - 1 \in S PROVE k \in S
  <2>1. RunTo(k, n) = Iteration(RunTo(k - 1, n), k, n)
    BY TurnByTurn
  <2>2. LoopInv(RunTo(k - 1, n), k - 1, n)
    BY <1>2
  <2>3. LoopInv(RunTo(k, n), k, n)
    BY <2>1, <2>2, IterationKeeps
  <2> QED
    BY <2>3
<1> HIDE DEF S
<1>3. \A k \in 0..n : k \in S
  BY <1>1, <1>2, Counting
<1> QED
  BY <1>3 DEF S

\* What is left of the loop's invariant when it is over.
LEMMA ResultIs ==
  ASSUME history \in Seq(Inputs), NEW n \in Nat, n <= Known
  PROVE  LoopInv(Result(n), n, n) /\ Result(n).open = Flat
<1>1. LoopInv(RunTo(n, n), n, n)
  BY LoopHolds
<1>2. ~(n < n)
  OBVIOUS
<1> QED
  BY <1>1, <1>2 DEF Result, LoopInv, OneByOne

\* The bars known so far are those of the history.
LEMMA KnownType ==
  ASSUME history \in Seq(Inputs) PROVE Known \in Nat /\ DOMAIN history = 1..Known
BY DEF Known

\* The history only ever takes up another input.
LEMMA HistoryType == EngineSpec => [](history \in Seq(Inputs))
<1>1. EngineInit => history \in Seq(Inputs)
  BY DEF EngineInit
<1>2. history \in Seq(Inputs) /\ [EngineNext]_history => (history \in Seq(Inputs))'
  BY DEF EngineNext, Extend
<1> QED
  BY <1>1, <1>2, PTL DEF EngineSpec

-----------------------------------------------------------------------------
(* Its plans.                                                              *)

\* A bar reaches a level of a plan when one of the checks finds it touched.
LEMMA ReachesIsTouched ==
  ASSUME NEW p \in Held, NEW b
  PROVE  \A r \in DOMAIN p.plan :
           Reaches(p, r, b) <=> \E c \in TouchedAt(p.plan, p.direction, b) : CheckOrder[c] = r
<1> SUFFICES ASSUME NEW r \in DOMAIN p.plan
             PROVE  Reaches(p, r, b) <=> \E c \in TouchedAt(p.plan, p.direction, b) : CheckOrder[c] = r
  OBVIOUS
<1>1. p.plan \in PlansOf /\ p.direction \in {"BULLISH", "BEARISH"}
  BY DEF Held, Directions
<1>2. r \in Reasons
  BY <1>1, PlanLevels
<1>3. DOMAIN CheckOrder = 1..5 /\ \E c \in 1..5 : CheckOrder[c] = r
  <2>1. DOMAIN CheckOrder = 1..5
    BY DEF CheckOrder
  <2>2. CASE r \in {"STOP_LOSS", "TRAILING_STOP"}
    <3>1. CheckOrder[1] = "STOP_LOSS" /\ CheckOrder[2] = "TRAILING_STOP" /\ 1 \in 1..5 /\ 2 \in 1..5
      BY DEF CheckOrder
    <3> QED
      BY <2>1, <2>2, <3>1
  <2>3. CASE r \notin {"STOP_LOSS", "TRAILING_STOP"}
    <3>1. /\ CheckOrder[3] = "TARGET_1" /\ CheckOrder[4] = "TARGET_2" /\ CheckOrder[5] = "TARGET_3"
          /\ 3 \in 1..5 /\ 4 \in 1..5 /\ 5 \in 1..5
      BY DEF CheckOrder
    <3>2. r \in {"TARGET_1", "TARGET_2", "TARGET_3"}
      BY <1>2, <2>3 DEF Reasons
    <3> QED
      BY <2>1, <3>1, <3>2
  <2> QED
    BY <2>2, <2>3
<1>4. Reaches(p, r, b) <=> Touched(p.plan, p.direction, r, Bar(b))
  <2>1. "BULLISH" # "BEARISH"
    OBVIOUS
  <2>2. CASE p.direction = "BULLISH"
    BY <2>2 DEF Reaches, Touched
  <2>3. CASE p.direction = "BEARISH"
    BY <2>3 DEF Reaches, Touched
  <2> QED
    BY <1>1, <2>2, <2>3
<1> QED
  BY <1>3, <1>4 DEF TouchedAt

\* What the loop's invariant says of a trade with a plan is what the property asks for.
LEMMA PlanOfTrade ==
  ASSUME history \in Seq(Inputs), WorstFirst, NEW run, LoopInv(run, Known, Known),
         NEW t \in 1..Len(run.trades), run.trades[t].position.plan # <<>>
  PROVE  LeftByPlan(run, t)
<1> DEFINE trade == run.trades[t]
           p == trade.position
           reached == {r \in DOMAIN p.plan : Reaches(p, r, trade.left)}
<1>20. p.plan # <<>>
  OBVIOUS
<1>1. Known \in Nat
  BY KnownType
<1>2. /\ run \in RunShape /\ OneByOne(run, Known, Known) /\ ByPlan(run, Known, Known)
  BY DEF LoopInv
<1>3. p \in Held /\ p.plan \in PlansOf /\ p.direction \in Directions /\ p.entered \in Nat /\ trade.left \in Nat
  BY <1>2, TradeType DEF Held
<1>4. p.entered \in 1..trade.left /\ trade.left <= Known
  BY <1>2 DEF OneByOne
<1>5. /\ Foreseen(p, Known)
      /\ IF trade.reason = "EOD" THEN trade.left = Known /\ p.exit = Never
         ELSE /\ p.exit # Never /\ trade.left = p.exit.at /\ trade.reason = p.exit.reason
              /\ run.fills[2 * t].price = Slipped(Leaving(p.direction), p.exit.price)
  BY <1>2, <1>20 DEF ByPlan
<1> DEFINE Touches(b) == TouchedAt(p.plan, p.direction, b)
<1>6. /\ p.exit = Never => \A b \in (p.entered + 1)..Known : Touches(b) = {}
      /\ p.exit # Never =>
           /\ p.exit.at \in (p.entered + 1)..Known
           /\ \A b \in (p.entered + 1)..(p.exit.at - 1) : Touches(b) = {}
           /\ Touches(p.exit.at) # {}
           /\ p.exit.reason = CheckOrder[Min(Touches(p.exit.at))]
           /\ p.exit.reason \in DOMAIN p.plan
           /\ p.exit.price = p.plan[p.exit.reason]
  <2>1. p.exit = PlannedExit(p.plan, p.direction, p.entered, Known)
    BY <1>5 DEF Foreseen
  <2>2. FirstHit(p.exit, p.plan, p.direction, p.entered, Known)
    BY <1>1, <1>3, <2>1, PlannedExitIs
  <2> QED
    BY <2>2 DEF FirstHit
<1>7. \A b : \A r \in DOMAIN p.plan : Reaches(p, r, b) <=> \E c \in Touches(b) : CheckOrder[c] = r
  BY <1>3, ReachesIsTouched
<1> HIDE DEF Touches
<1>8. ASSUME trade.reason = "EOD"
      PROVE  /\ \A b \in (p.entered + 1)..(trade.left - 1) : \A r \in DOMAIN p.plan : ~Reaches(p, r, b)
             /\ trade.left = Known /\ (reached = {} \/ trade.left = p.entered)
  <2>1. trade.left = Known /\ \A b \in (p.entered + 1)..Known : Touches(b) = {}
    BY <1>5, <1>6, <1>8
  <2>2. \A b \in (p.entered + 1)..Known : \A r \in DOMAIN p.plan : ~Reaches(p, r, b)
    BY <1>7, <2>1
  <2>3. trade.left # p.entered => Known \in (p.entered + 1)..Known
    BY <1>1, <1>3, <1>4, <2>1
  <2>4. \A b \in (p.entered + 1)..(trade.left - 1) : b \in (p.entered + 1)..Known
    BY <1>1, <1>3, <2>1
  <2> QED
    BY <2>1, <2>2, <2>3, <2>4
<1>9. ASSUME trade.reason # "EOD"
      PROVE  /\ \A b \in (p.entered + 1)..(trade.left - 1) : \A r \in DOMAIN p.plan : ~Reaches(p, r, b)
             /\ trade.left > p.entered /\ trade.reason \in reached
             /\ \A r \in reached : NoBetterThan(p.direction, p.plan[trade.reason], p.plan[r])
             /\ run.fills[2 * t].price = Slipped(Leaving(p.direction), p.plan[trade.reason])
  <2>1. /\ p.exit # Never /\ trade.left = p.exit.at /\ trade.reason = p.exit.reason
        /\ run.fills[2 * t].price = Slipped(Leaving(p.direction), p.exit.price)
    BY <1>5, <1>9
  <2>2. /\ trade.left \in (p.entered + 1)..Known
        /\ \A b \in (p.entered + 1)..(trade.left - 1) : Touches(b) = {}
        /\ Touches(trade.left) # {}
        /\ trade.reason = CheckOrder[Min(Touches(trade.left))]
        /\ trade.reason \in DOMAIN p.plan
        /\ p.exit.price = p.plan[trade.reason]
    BY <1>6, <2>1
  <2>3. \A b \in (p.entered + 1)..(trade.left - 1) : \A r \in DOMAIN p.plan : ~Reaches(p, r, b)
    BY <1>7, <2>2
  <2>4. PICK first : /\ first = Min(Touches(trade.left)) /\ first \in Touches(trade.left)
                     /\ \A c \in Touches(trade.left) : first <= c
    <3>1. Touches(trade.left) \subseteq Nat
      BY DEF Touches, TouchedAt, CheckOrder
    <3> QED
      BY <2>2, <3>1, SmallestMember
  <2>5. trade.reason \in reached
    BY <1>7, <2>2, <2>4
  <2>6. ASSUME NEW r \in reached
        PROVE  NoBetterThan(p.direction, p.plan[trade.reason], p.plan[r])
    <3>1. PICK c \in Touches(trade.left) : CheckOrder[c] = r
      BY <1>7
    <3>2. first <= c /\ c \in 1..5 /\ first \in 1..5
      <4>1. Touches(trade.left) \subseteq 1..5
        BY DEF Touches, TouchedAt, CheckOrder
      <4> QED
        BY <2>4, <3>1, <4>1
    <3>3. CASE c = first
      <4>1. r = trade.reason /\ p.plan[r] \in Int
        BY <1>3, <2>2, <2>4, <3>1, <3>3, PlanLevels
      <4> QED
        BY <4>1 DEF NoBetterThan
    <3>4. CASE c # first
      <4>1. first < c
        BY <3>2, <3>4
      <4>2. PICK x \in Inputs : p.plan = x.plan /\ p.direction = x.signal
        BY <1>5 DEF Foreseen
      <4>3. Ladder = CheckOrder /\ DOMAIN Ladder = 1..5
        BY DEF Ladder, CheckOrder
      <4>4. Ladder[first] = trade.reason /\ Ladder[c] = r /\ {trade.reason, r} \subseteq DOMAIN x.plan
        BY <2>2, <2>4, <3>1, <4>2, <4>3
      <4>5. NoBetterThan(x.signal, x.plan[trade.reason], x.plan[r])
        BY <3>2, <4>1, <4>3, <4>4 DEF WorstFirst
      <4> QED
        BY <4>2, <4>5
    <3> QED
      BY <3>3, <3>4
  <2>7. trade.left > p.entered
    BY <1>3, <2>2
  <2> QED
    BY <2>1, <2>2, <2>3, <2>5, <2>6, <2>7
<1> HIDE DEF trade, p, reached
<1> QED
  BY <1>8, <1>9 DEF trade, p, reached, LeftByPlan

\* Whatever the prices do and however long it runs, a position with a plan leaves at the first
\* later bar that reaches a level of it, at the worst of those it reaches, if the strategy puts
\* the levels of its plans in their order.
THEOREM PlansAreKept ==
  ASSUME WorstFirst PROVE EngineSpec => []PlanIsKept
<1>1. history \in Seq(Inputs) => PlanIsKept
  <2> SUFFICES ASSUME history \in Seq(Inputs) PROVE PlanIsKept
    OBVIOUS
  <2>1. PICK run : run = Result(Known)
    OBVIOUS
  <2>2. LoopInv(run, Known, Known) /\ DOMAIN run.trades = 1..Len(run.trades)
    <3>1. Known \in Nat /\ Known <= Known
      BY KnownType
    <3>2. LoopInv(run, Known, Known)
      BY <2>1, <3>1, ResultIs
    <3> QED
      BY <3>2, NetOfType DEF LoopInv
  <2>3. \A t \in DOMAIN run.trades : t \in 1..Len(run.trades)
    BY <2>2
  <2> QED
    BY <2>1, <2>2, <2>3, PlanOfTrade DEF PlanIsKept
<1>2. EngineSpec => [](history \in Seq(Inputs))
  BY HistoryType
<1> QED
  BY <1>1, <1>2, PTL

-----------------------------------------------------------------------------
(* Its equity curve.                                                       *)

\* Numbers that come in pairs: c, which add up to net, and s, which add up to nothing.
InPairs(m, c, s, net) ==
  /\ \A f \in 1..(2 * m) : c[f] \in Int /\ s[f] \in Int
  /\ \A t \in 1..m : /\ net[t] \in Int
                     /\ c[2 * t - 1] + c[2 * t] = net[t] /\ s[2 * t - 1] + s[2 * t] = 0
SumsOfPairs(c, s, net, k) ==
  /\ SumFunctionOnSet(c, 1..(2 * k)) = SumFunctionOnSet(net, 1..k)
  /\ SumFunctionOnSet(s, 1..(2 * k)) = 0
  /\ SumFunctionOnSet(net, 1..k) \in Int

\* Pair by pair, the sums are those of the nets, and nothing.
LEMMA Pairs ==
  ASSUME NEW m \in Nat, NEW c, NEW s, NEW net, InPairs(m, c, s, net)
  PROVE  \A k \in 0..m : SumsOfPairs(c, s, net, k)
<1> DEFINE Even(k) == /\ SumFunctionOnSet(c, 1..(2 * k)) = SumFunctionOnSet(net, 1..k)
                      /\ SumFunctionOnSet(s, 1..(2 * k)) = 0
                      /\ SumFunctionOnSet(net, 1..k) \in Int
           S == {k \in 0..m : Even(k)}
<1>0. /\ \A f \in 1..(2 * m) : c[f] \in Int /\ s[f] \in Int
      /\ \A t \in 1..m : /\ net[t] \in Int
                         /\ c[2 * t - 1] + c[2 * t] = net[t] /\ s[2 * t - 1] + s[2 * t] = 0
  BY DEF InPairs
<1>1. 0 \in S
  <2>1. 1..(2 * 0) = {} /\ 1..0 = {}
    OBVIOUS
  <2>2. \A f : SumFunctionOnSet(f, {}) = 0
    BY SumDef, FS_EmptySet
  <2> QED
    BY <2>1, <2>2
<1>2. ASSUME NEW k \in 1..m, k - 1 \in S PROVE k \in S
  <2>1. PICK a \in Nat, d \in Nat, g \in Nat :
          a = 2 * (k - 1) /\ d = a + 1 /\ g = d + 1 /\ d = 2 * k - 1 /\ g = 2 * k
    OBVIOUS
  <2>2. /\ SumFunctionOnSet(c, 1..a) = SumFunctionOnSet(net, 1..(k - 1))
        /\ SumFunctionOnSet(s, 1..a) = 0 /\ SumFunctionOnSet(net, 1..(k - 1)) \in Int
    BY <1>2, <2>1
  <2>3. \A f \in 1..g : c[f] \in Int /\ s[f] \in Int
    BY <1>0, <2>1
  <2>4. /\ SumFunctionOnSet(c, 1..d) = SumFunctionOnSet(c, 1..a) + c[d]
        /\ SumFunctionOnSet(s, 1..d) = SumFunctionOnSet(s, 1..a) + s[d]
    <3>1. \A f \in 1..(a + 1) : c[f] \in Int /\ s[f] \in Int
      BY <2>1, <2>3
    <3>2. /\ SumFunctionOnSet(c, 1..(a + 1)) = SumFunctionOnSet(c, 1..a) + c[a + 1]
          /\ SumFunctionOnSet(s, 1..(a + 1)) = SumFunctionOnSet(s, 1..a) + s[a + 1]
      BY <3>1, SumStep
    <3> QED
      BY <2>1, <3>2
  <2>5. /\ SumFunctionOnSet(c, 1..g) = SumFunctionOnSet(c, 1..d) + c[g]
        /\ SumFunctionOnSet(s, 1..g) = SumFunctionOnSet(s, 1..d) + s[g]
    <3>1. \A f \in 1..(d + 1) : c[f] \in Int /\ s[f] \in Int
      BY <2>1, <2>3
    <3>2. /\ SumFunctionOnSet(c, 1..(d + 1)) = SumFunctionOnSet(c, 1..d) + c[d + 1]
          /\ SumFunctionOnSet(s, 1..(d + 1)) = SumFunctionOnSet(s, 1..d) + s[d + 1]
      BY <3>1, SumStep
    <3> QED
      BY <2>1, <3>2
  <2>6. SumFunctionOnSet(net, 1..k) = SumFunctionOnSet(net, 1..(k - 1)) + net[k]
    <3>1. k - 1 \in Nat /\ (k - 1) + 1 = k /\ \A x \in 1..k : net[x] \in Int
      BY <1>0
    <3>2. SumFunctionOnSet(net, 1..((k - 1) + 1)) = SumFunctionOnSet(net, 1..(k - 1)) + net[(k - 1) + 1]
      BY <3>1, SumStep
    <3> QED
      BY <3>1, <3>2
  <2>7. /\ c[d] + c[g] = net[k] /\ s[d] + s[g] = 0 /\ net[k] \in Int
        /\ c[d] \in Int /\ c[g] \in Int /\ s[d] \in Int /\ s[g] \in Int
    <3>1. c[2 * k - 1] + c[2 * k] = net[k] /\ s[2 * k - 1] + s[2 * k] = 0 /\ net[k] \in Int
      BY <1>0
    <3>2. d \in 1..g /\ g \in 1..g
      BY <2>1
    <3> QED
      BY <2>1, <2>3, <3>1, <3>2
  <2>8. Even(k)
    <3>1. /\ SumFunctionOnSet(c, 1..g) = SumFunctionOnSet(net, 1..k)
          /\ SumFunctionOnSet(s, 1..g) = 0
          /\ SumFunctionOnSet(net, 1..k) \in Int
      <4> DEFINE C(j) == SumFunctionOnSet(c, 1..j)
                 D(j) == SumFunctionOnSet(s, 1..j)
                 N(j) == SumFunctionOnSet(net, 1..j)
      <4>1. /\ C(a) = N(k - 1) /\ D(a) = 0 /\ N(k - 1) \in Int
            /\ C(d) = C(a) + c[d] /\ D(d) = D(a) + s[d]
            /\ C(g) = C(d) + c[g] /\ D(g) = D(d) + s[g] /\ N(k) = N(k - 1) + net[k]
        BY <2>2, <2>4, <2>5, <2>6
      <4> SUFFICES C(g) = N(k) /\ D(g) = 0 /\ N(k) \in Int
        OBVIOUS
      <4> HIDE DEF C, D, N
      <4> QED
        BY <2>7, <4>1
    <3> QED
      BY <2>1, <3>1
  <2> QED
    BY <2>8
<1> HIDE DEF S
<1>3. \A k \in 0..m : k \in S
  BY <1>1, <1>2, Counting
<1> QED
  BY <1>3 DEF S, SumsOfPairs

\* Every fill is the first or the second of a trade.
LEMMA Halves ==
  ASSUME NEW m \in Nat, NEW f \in 1..(2 * m)
  PROVE  \E t \in 1..m : f = 2 * t - 1 \/ f = 2 * t
<1>1. PICK t \in Int : t = (f + 1) \div 2
  OBVIOUS
<1>2. f = 2 * t - 1 \/ f = 2 * t
  BY <1>1
<1>3. t \in 1..m
  BY <1>2
<1> QED
  BY <1>2, <1>3

\* A long position is bought and sold, a short one is sold and bought.
LEMMA SidesApart ==
  \A d \in Directions : /\ d = "BULLISH" => Entering(d) = "BUY" /\ Leaving(d) = "SELL"
                        /\ d # "BULLISH" => Entering(d) = "SELL" /\ Leaving(d) = "BUY"
BY DEF Entering, Leaving, Directions

\* What the two fills of a trade do to the cash and to the holding, and what the first of them
\* does beside what the holding is worth.
Settles(run, t) ==
  LET trade == run.trades[t]
      p == trade.position
      e == run.fills[2 * t - 1]
      x == run.fills[2 * t]
  IN /\ e.at = p.entered /\ x.at = trade.left
     /\ e.cost \in Int /\ CashOf(e) \in Int /\ CashOf(x) \in Int
     /\ SharesOf(e) \in Int /\ SharesOf(x) \in Int
     /\ CashOf(e) + CashOf(x) = trade.net /\ SharesOf(e) + SharesOf(x) = 0
     /\ \A c \in Int : CashOf(e) + SharesOf(e) * c + e.cost
                         = SignedGross(p.direction, p.price, c, p.quantity)

\* The two fills of a closed trade settle it.
LEMMA FillsOfTrade ==
  ASSUME NEW run \in RunShape, Booked(run), run.open = Flat, NEW t \in 1..Len(run.trades)
  PROVE  Settles(run, t)
<1> DEFINE trade == run.trades[t]
           p == trade.position
           e == run.fills[2 * t - 1]
           x == run.fills[2 * t]
<1>1. Len(run.trades) \in Nat /\ Len(run.fills) = 2 * Len(run.trades)
  <2>1. Len(run.trades) \in Nat
    BY NetOfType
  <2> QED
    BY <2>1 DEF Booked
<1>2. 2 * t - 1 \in 1..Len(run.fills) /\ 2 * t \in 1..Len(run.fills)
  BY <1>1
<1>3. e \in Executed /\ x \in Executed
  <2>1. run.fills \in Seq(Executed)
    BY DEF RunShape
  <2> QED
    BY <1>2, <2>1
<1>4. trade \in ClosedTrade /\ p \in Held
  BY TradeType
<1>5. /\ e = Entry(p) /\ x = Exit(trade, x.price)
      /\ trade.net = SignedGross(p.direction, p.price, x.price, p.quantity) - (e.cost + x.cost)
  BY DEF Booked
<1>6. /\ e.at = p.entered /\ e.side = Entering(p.direction) /\ e.quantity = p.quantity
      /\ e.price = p.price
      /\ x.at = trade.left /\ x.side = Leaving(p.direction) /\ x.quantity = p.quantity
  <2>1. /\ Entry(p).at = p.entered /\ Entry(p).side = Entering(p.direction)
        /\ Entry(p).quantity = p.quantity /\ Entry(p).price = p.price
    BY DEF Entry, Fill
  <2>2. \A price : /\ Exit(trade, price).at = trade.left
                   /\ Exit(trade, price).side = Leaving(p.direction)
                   /\ Exit(trade, price).quantity = p.quantity
    BY DEF Exit, Fill
  <2> HIDE DEF trade, p, e, x
  <2> QED
    BY <1>5, <2>1, <2>2
<1> SUFFICES /\ e.at = p.entered /\ x.at = trade.left
             /\ e.cost \in Int /\ CashOf(e) \in Int /\ CashOf(x) \in Int
             /\ SharesOf(e) \in Int /\ SharesOf(x) \in Int
             /\ CashOf(e) + CashOf(x) = trade.net /\ SharesOf(e) + SharesOf(x) = 0
             /\ \A c \in Int : CashOf(e) + SharesOf(e) * c + e.cost
                                 = SignedGross(p.direction, p.price, c, p.quantity)
  BY DEF Settles
<1> HIDE DEF trade, p, e, x
<1>7. PICK q \in Int, a \in Int, b \in Int, c1 \in Int, c2 \in Int :
        q = p.quantity /\ a = p.price /\ b = x.price /\ c1 = e.cost /\ c2 = x.cost
  <2>1. p.quantity \in Int /\ p.price \in Int /\ x.price \in Int /\ e.cost \in Int /\ x.cost \in Int
    BY <1>3, <1>4 DEF Held, Executed
  <2> QED
    BY <2>1
<1>8. p.direction \in Directions
  BY <1>4 DEF Held
<1>9. CASE p.direction = "BULLISH"
  <2>1. /\ CashOf(e) = (-a) * q - c1 /\ CashOf(x) = b * q - c2 /\ SharesOf(e) = q /\ SharesOf(x) = -q
        /\ trade.net = (b - a) * q - (c1 + c2)
        /\ \A c : SignedGross(p.direction, p.price, c, p.quantity) = (c - a) * q
    BY <1>5, <1>6, <1>7, <1>8, <1>9, SidesApart DEF CashOf, SharesOf, SignedGross
  <2>2. PICK aq \in Int, bq \in Int : aq = (-a) * q /\ bq = b * q /\ (b - a) * q = bq + aq
    OBVIOUS
  <2>3. CashOf(e) = aq - c1 /\ CashOf(x) = bq - c2 /\ trade.net = (bq + aq) - (c1 + c2)
    BY <2>1, <2>2
  <2>4. ASSUME NEW c \in Int PROVE (aq - c1) + q * c + c1 = (c - a) * q
    <3>1. PICK cq \in Int : cq = q * c /\ (c - a) * q = cq + aq
      BY <2>2
    <3> QED
      BY <3>1
  <2>5. \A c \in Int : CashOf(e) + SharesOf(e) * c + e.cost
                        = SignedGross(p.direction, p.price, c, p.quantity)
    BY <1>7, <2>1, <2>3, <2>4
  <2>6. /\ (aq - c1) + (bq - c2) = (bq + aq) - (c1 + c2) /\ (bq + aq) = (aq + bq)
        /\ aq - c1 \in Int /\ bq - c2 \in Int /\ q + (-q) = 0 /\ (-q) + q = 0 /\ -q \in Int
    OBVIOUS
  <2>7. CashOf(e) + CashOf(x) = trade.net /\ SharesOf(e) + SharesOf(x) = 0
    BY <2>1, <2>3, <2>6
  <2>8. CashOf(e) \in Int /\ CashOf(x) \in Int /\ SharesOf(e) \in Int /\ SharesOf(x) \in Int
    BY <2>1, <2>3, <2>6
  <2> QED
    BY <1>6, <1>7, <2>5, <2>7, <2>8
<1>10. CASE p.direction # "BULLISH"
  <2>1. /\ CashOf(e) = a * q - c1 /\ CashOf(x) = (-b) * q - c2 /\ SharesOf(e) = -q /\ SharesOf(x) = q
        /\ trade.net = (a - b) * q - (c1 + c2)
        /\ \A c : SignedGross(p.direction, p.price, c, p.quantity) = (a - c) * q
    BY <1>5, <1>6, <1>7, <1>8, <1>10, SidesApart DEF CashOf, SharesOf, SignedGross
  <2>2. PICK aq \in Int, bq \in Int : aq = a * q /\ bq = (-b) * q /\ (a - b) * q = aq + bq
    OBVIOUS
  <2>3. CashOf(e) = aq - c1 /\ CashOf(x) = bq - c2 /\ trade.net = (aq + bq) - (c1 + c2)
    BY <2>1, <2>2
  <2>4. ASSUME NEW c \in Int PROVE (aq - c1) + (-q) * c + c1 = (a - c) * q
    <3>1. PICK cq \in Int : cq = (-q) * c /\ (a - c) * q = cq + aq
      BY <2>2
    <3> QED
      BY <3>1
  <2>5. \A c \in Int : CashOf(e) + SharesOf(e) * c + e.cost
                        = SignedGross(p.direction, p.price, c, p.quantity)
    BY <1>7, <2>1, <2>3, <2>4
  <2>6. /\ (aq - c1) + (bq - c2) = (bq + aq) - (c1 + c2) /\ (bq + aq) = (aq + bq)
        /\ aq - c1 \in Int /\ bq - c2 \in Int /\ q + (-q) = 0 /\ (-q) + q = 0 /\ -q \in Int
    OBVIOUS
  <2>7. CashOf(e) + CashOf(x) = trade.net /\ SharesOf(e) + SharesOf(x) = 0
    BY <2>1, <2>3, <2>6
  <2>8. CashOf(e) \in Int /\ CashOf(x) \in Int /\ SharesOf(e) \in Int /\ SharesOf(x) \in Int
    BY <2>1, <2>3, <2>6
  <2> QED
    BY <1>6, <1>7, <2>5, <2>7, <2>8
<1> QED
  BY <1>9, <1>10

\* The trades that are over at a bar are the first so many.
LEMMA OverUpTo ==
  ASSUME NEW n \in Nat, NEW run \in RunShape, OneByOne(run, n, n), NEW b \in Nat
  PROVE  \E k \in 0..Len(run.trades) :
           \A t \in 1..Len(run.trades) : run.trades[t].left <= b <=> t <= k
<1>1. PICK m \in Nat : m = Len(run.trades)
  BY NetOfType
<1>2. \A t \in 1..m : /\ run.trades[t].left \in Nat
                      /\ run.trades[t].position.entered \in 1..run.trades[t].left
  BY <1>1, TradeType DEF OneByOne
<1>3. \A s, t \in 1..m : s < t => run.trades[s].left < run.trades[t].left
  <2> SUFFICES ASSUME NEW s \in 1..m, NEW t \in 1..m, s < t
               PROVE  run.trades[s].left < run.trades[t].left
    OBVIOUS
  <2>1. run.trades[s].left < run.trades[t].position.entered
    BY <1>1 DEF OneByOne
  <2>2. run.trades[t].position.entered <= run.trades[t].left
    BY <1>2
  <2> QED
    BY <1>2, <2>1, <2>2
<1> DEFINE L == {t \in 1..m : ~(run.trades[t].left <= b)}
<1>4. CASE L = {}
  <2>1. \A t \in 1..m : run.trades[t].left <= b <=> t <= m
    BY <1>4
  <2>2. m \in 0..m
    OBVIOUS
  <2> QED
    BY <1>1, <2>1, <2>2
<1>5. CASE L # {}
  <2>1. PICK first \in L : \A t \in L : first <= t
    <3>1. L \subseteq Nat
      OBVIOUS
    <3> HIDE DEF L
    <3> QED
      BY <1>5, <3>1, LeastNumber
  <2>2. first - 1 \in 0..m /\ first \in 1..m
    OBVIOUS
  <2>3. \A t \in 1..m : run.trades[t].left <= b <=> t <= first - 1
    <3> SUFFICES ASSUME NEW t \in 1..m PROVE run.trades[t].left <= b <=> t <= first - 1
      OBVIOUS
    <3>1. CASE t < first
      BY <2>1, <3>1
    <3>2. CASE t = first
      BY <3>2
    <3>3. CASE first < t
      BY <1>2, <1>3, <3>3
    <3> QED
      BY <3>1, <3>2, <3>3
  <2> QED
    BY <1>1, <2>2, <2>3
<1> QED
  BY <1>4, <1>5

\* Up to a bar, k trades are over, and the next one is held or not entered.
Over(run, b) == {t \in DOMAIN run.trades : run.trades[t].left <= b}
HeldIn(run, b) == {t \in DOMAIN run.trades : HeldAt(run.trades[t], b)}
Between(run, b, k) == FillsTo(run, b) = 1..(2 * k) /\ HeldIn(run, b) = {}
Within(run, b, k) ==
  k < Len(run.trades) /\ FillsTo(run, b) = 1..(2 * k + 1) /\ HeldIn(run, b) = {k + 1}

\* The fills up to a bar are those of the trades that are over, and one of the trade held.
LEMMA FillsUpTo ==
  ASSUME NEW n \in Nat, NEW run \in RunShape, Booked(run), OneByOne(run, n, n), run.open = Flat,
         NEW b \in Nat
  PROVE  \E k \in 0..Len(run.trades) :
           /\ Over(run, b) = 1..k /\ (Between(run, b, k) \/ Within(run, b, k))
           /\ b >= n => k = Len(run.trades) /\ Between(run, b, k)
<1>1. PICK m \in Nat : m = Len(run.trades) /\ DOMAIN run.trades = 1..m
  BY NetOfType
<1>2. PICK k \in 0..m : \A t \in 1..m : run.trades[t].left <= b <=> t <= k
  BY <1>1, OverUpTo
<1>3. \A t \in 1..m : /\ run.trades[t].left \in Nat /\ run.trades[t].position.entered \in Nat
                      /\ run.trades[t].position.entered <= run.trades[t].left
                      /\ run.trades[t].left <= n
  BY <1>1, TradeType DEF OneByOne
<1>4. Over(run, b) = 1..k
  BY <1>1, <1>2 DEF Over
<1>5. \A t \in 1..m : t > k + 1 => run.trades[t].position.entered > b
  <2> SUFFICES ASSUME NEW t \in 1..m, t > k + 1 PROVE run.trades[t].position.entered > b
    OBVIOUS
  <2>1. k + 1 \in 1..m /\ k + 1 < t
    OBVIOUS
  <2>2. run.trades[k + 1].left < run.trades[t].position.entered
    BY <1>1, <2>1 DEF OneByOne
  <2>3. ~(run.trades[k + 1].left <= b)
    BY <1>2, <2>1
  <2> QED
    BY <1>3, <2>1, <2>2, <2>3
<1>6. \A t \in 1..m : /\ HeldAt(run.trades[t], b)
                           <=> run.trades[t].position.entered <= b /\ ~(run.trades[t].left <= b)
  BY <1>3 DEF HeldAt
<1>7. \A t \in 1..m : /\ run.fills[2 * t - 1].at = run.trades[t].position.entered
                      /\ run.fills[2 * t].at = run.trades[t].left
  BY <1>1, FillsOfTrade DEF Settles
<1>8. DOMAIN run.fills = 1..(2 * m)
  <2>1. run.fills \in Seq(Executed) /\ Len(run.fills) = 2 * m + 0
    BY <1>1 DEF RunShape, Booked
  <2> QED
    BY <2>1
<1>9. \A t \in 1..m : /\ t <= k => run.trades[t].position.entered <= b
                      /\ t <= k => run.trades[t].left <= b
                      /\ t > k => ~(run.trades[t].left <= b)
  BY <1>2, <1>3
<1>10. CASE k < m /\ run.trades[k + 1].position.entered <= b
  <2>1. FillsTo(run, b) = 1..(2 * k + 1)
    <3> SUFFICES ASSUME NEW f \in 1..(2 * m) PROVE run.fills[f].at <= b <=> f <= 2 * k + 1
      BY <1>8, <1>10 DEF FillsTo
    <3>1. PICK t \in 1..m : f = 2 * t - 1 \/ f = 2 * t
      BY Halves
    <3>2. CASE f = 2 * t - 1
      <4>1. run.fills[f].at = run.trades[t].position.entered /\ (f <= 2 * k + 1 <=> t <= k + 1)
        BY <1>7, <3>2
      <4>2. t <= k + 1 => run.trades[t].position.entered <= b
        BY <1>9, <1>10
      <4> QED
        BY <1>3, <1>5, <4>1, <4>2
    <3>3. CASE f = 2 * t
      <4>1. run.fills[f].at = run.trades[t].left /\ (f <= 2 * k + 1 <=> t <= k)
        BY <1>7, <3>3
      <4> QED
        BY <1>9, <4>1
    <3> QED
      BY <3>1, <3>2, <3>3
  <2>2. HeldIn(run, b) = {k + 1}
    <3>1. \A t \in 1..m : HeldAt(run.trades[t], b) <=> t = k + 1
      <4> SUFFICES ASSUME NEW t \in 1..m PROVE HeldAt(run.trades[t], b) <=> t = k + 1
        OBVIOUS
      <4>1. CASE t <= k
        BY <1>6, <1>9, <4>1
      <4>2. CASE t = k + 1
        BY <1>6, <1>9, <1>10, <4>2
      <4>3. CASE t > k + 1
        BY <1>3, <1>5, <1>6, <4>3
      <4> QED
        BY <4>1, <4>2, <4>3
    <3>2. k + 1 \in 1..m
      BY <1>10
    <3> QED
      BY <1>1, <3>1, <3>2 DEF HeldIn
  <2>3. ~(b >= n)
    <3>1. k + 1 \in 1..m /\ k + 1 > k
      BY <1>10
    <3> QED
      BY <1>3, <1>9, <3>1
  <2>4. Within(run, b, k)
    BY <1>1, <1>10, <2>1, <2>2 DEF Within
  <2> QED
    BY <1>1, <1>4, <2>3, <2>4
<1>11. CASE ~(k < m /\ run.trades[k + 1].position.entered <= b)
  <2>1. \A t \in 1..m : t > k => ~(run.trades[t].position.entered <= b)
    <3> SUFFICES ASSUME NEW t \in 1..m, t > k PROVE ~(run.trades[t].position.entered <= b)
      OBVIOUS
    <3>1. CASE t = k + 1
      BY <1>11, <3>1
    <3>2. CASE t # k + 1
      BY <1>3, <1>5, <3>2
    <3> QED
      BY <3>1, <3>2
  <2>2. FillsTo(run, b) = 1..(2 * k)
    <3> SUFFICES ASSUME NEW f \in 1..(2 * m) PROVE run.fills[f].at <= b <=> f <= 2 * k
      BY <1>8 DEF FillsTo
    <3>1. PICK t \in 1..m : f = 2 * t - 1 \/ f = 2 * t
      BY Halves
    <3>2. CASE f = 2 * t - 1
      <4>1. run.fills[f].at = run.trades[t].position.entered /\ (f <= 2 * k <=> t <= k)
        BY <1>7, <3>2
      <4> QED
        BY <1>9, <2>1, <4>1
    <3>3. CASE f = 2 * t
      <4>1. run.fills[f].at = run.trades[t].left /\ (f <= 2 * k <=> t <= k)
        BY <1>7, <3>3
      <4> QED
        BY <1>9, <4>1
    <3> QED
      BY <3>1, <3>2, <3>3
  <2>3. HeldIn(run, b) = {}
    BY <1>1, <1>6, <1>9, <2>1 DEF HeldIn
  <2>4. b >= n => k = m
    <3> SUFFICES ASSUME b >= n, k < m PROVE FALSE
      OBVIOUS
    <3>1. m \in 1..m /\ m > k
      OBVIOUS
    <3> QED
      BY <1>3, <1>9, <3>1
  <2>5. Between(run, b, k)
    BY <2>2, <2>3 DEF Between
  <2> QED
    BY <1>1, <1>4, <2>4, <2>5
<1> QED
  BY <1>10, <1>11

\* The sums over the fills of the first k trades.
LEMMA FillSums ==
  ASSUME NEW run \in RunShape, Booked(run), run.open = Flat,
         NEW cashes, cashes = [f \in DOMAIN run.fills |-> CashOf(run.fills[f])],
         NEW holds, holds = [f \in DOMAIN run.fills |-> SharesOf(run.fills[f])]
  PROVE  /\ \A f \in 1..(2 * Len(run.trades)) :
              /\ cashes[f] \in Int /\ cashes[f] = CashOf(run.fills[f])
              /\ holds[f] \in Int /\ holds[f] = SharesOf(run.fills[f])
         /\ \A k \in 0..Len(run.trades) : SumsOfPairs(cashes, holds, NetOf(run), k)
<1>1. PICK m \in Nat : m = Len(run.trades)
  BY NetOfType
<1>2. DOMAIN run.fills = 1..(2 * m)
  <2>1. run.fills \in Seq(Executed) /\ Len(run.fills) = 2 * m + 0
    BY <1>1 DEF RunShape, Booked
  <2> QED
    BY <2>1
<1>3. \A f \in 1..(2 * m) : cashes[f] = CashOf(run.fills[f]) /\ holds[f] = SharesOf(run.fills[f])
  BY <1>2
<1>4. \A t \in 1..m :
        /\ CashOf(run.fills[2 * t - 1]) \in Int /\ CashOf(run.fills[2 * t]) \in Int
        /\ SharesOf(run.fills[2 * t - 1]) \in Int /\ SharesOf(run.fills[2 * t]) \in Int
        /\ CashOf(run.fills[2 * t - 1]) + CashOf(run.fills[2 * t]) = run.trades[t].net
        /\ SharesOf(run.fills[2 * t - 1]) + SharesOf(run.fills[2 * t]) = 0
  BY <1>1, FillsOfTrade DEF Settles
<1>5. \A f \in 1..(2 * m) : cashes[f] \in Int /\ holds[f] \in Int
  <2> SUFFICES ASSUME NEW f \in 1..(2 * m) PROVE cashes[f] \in Int /\ holds[f] \in Int
    OBVIOUS
  <2>1. PICK t \in 1..m : f = 2 * t - 1 \/ f = 2 * t
    BY Halves
  <2> QED
    BY <1>3, <1>4, <2>1
<1>6. \A t \in 1..m :
        /\ NetOf(run)[t] \in Int
        /\ cashes[2 * t - 1] + cashes[2 * t] = NetOf(run)[t] /\ holds[2 * t - 1] + holds[2 * t] = 0
  <2> SUFFICES ASSUME NEW t \in 1..m
               PROVE  /\ NetOf(run)[t] \in Int
                      /\ cashes[2 * t - 1] + cashes[2 * t] = NetOf(run)[t]
                      /\ holds[2 * t - 1] + holds[2 * t] = 0
    OBVIOUS
  <2>1. 2 * t - 1 \in 1..(2 * m) /\ 2 * t \in 1..(2 * m)
    OBVIOUS
  <2>2. NetOf(run)[t] = run.trades[t].net /\ run.trades[t].net \in Int
    BY <1>1, NetOfType
  <2> QED
    BY <1>3, <1>4, <2>1, <2>2
<1>7. InPairs(m, cashes, holds, NetOf(run))
  BY <1>5, <1>6 DEF InPairs
<1>8. \A k \in 0..m : SumsOfPairs(cashes, holds, NetOf(run), k)
  BY <1>7, Pairs
<1> QED
  BY <1>1, <1>3, <1>5, <1>8

\* The curve at a bar: the trades that are over pair by pair, and the one that is held.
LEMMA CurveAt ==
  ASSUME history \in Seq(Inputs), NEW n \in Nat, NEW run \in RunShape, Booked(run),
         OneByOne(run, n, n), run.open = Flat, NEW b \in 1..Known
  PROVE  EquityAt(run, b) = Capital + CashTo(run, b) + HeldTo(run, b) * Bar(b).close
                              + PendingCost(run, b)
<1> DEFINE cashes == [f \in DOMAIN run.fills |-> CashOf(run.fills[f])]
           holds == [f \in DOMAIN run.fills |-> SharesOf(run.fills[f])]
           nets == NetOf(run)
<1>1. PICK m \in Nat : m = Len(run.trades) /\ DOMAIN run.trades = 1..m
  BY NetOfType
<1>2. b \in Nat
  BY KnownType
<1>3. PICK k \in 0..m : Over(run, b) = 1..k /\ (Between(run, b, k) \/ Within(run, b, k))
  BY <1>1, <1>2, FillsUpTo
<1>4. /\ \A f \in 1..(2 * m) : /\ cashes[f] \in Int /\ cashes[f] = CashOf(run.fills[f])
                               /\ holds[f] \in Int /\ holds[f] = SharesOf(run.fills[f])
      /\ SumsOfPairs(cashes, holds, nets, k)
  BY <1>1, FillSums
<1>5. /\ CashTo(run, b) = SumFunctionOnSet(cashes, FillsTo(run, b))
      /\ HeldTo(run, b) = SumFunctionOnSet(holds, FillsTo(run, b))
  BY DEF CashTo, HeldTo
<1>6. PICK c \in Int : c = Bar(b).close
  BY InputFacts
<1> HIDE DEF cashes, holds, nets
<1>7. PICK net \in Int : net = SumFunctionOnSet(nets, 1..k)
  BY <1>4 DEF SumsOfPairs
<1>8. Realized(run, b) = net
  <2>1. Realized(run, b) = SumFunctionOnSet(nets, Over(run, b))
    BY DEF Realized, Over, nets
  <2> QED
    BY <1>3, <1>7, <2>1, Zenon
<1>9. SumFunctionOnSet(cashes, 1..(2 * k)) = net /\ SumFunctionOnSet(holds, 1..(2 * k)) = 0
  BY <1>4, <1>7 DEF SumsOfPairs
<1>10. Capital \in Int
  BY EngineConstants
<1>11. CASE Between(run, b, k)
  <2>1. FillsTo(run, b) = 1..(2 * k) /\ HeldIn(run, b) = {}
    BY <1>11 DEF Between
  <2>2. CashTo(run, b) = net /\ HeldTo(run, b) = 0
    BY <1>5, <1>9, <2>1, Zenon
  <2>3. PendingCost(run, b) = 0
    <3>1. Cardinality(FillsTo(run, b)) = 2 * k
      <4>1. Cardinality(1..(2 * k)) = 2 * k
        BY FS_Interval
      <4> QED
        BY <2>1, <4>1, Zenon
    <3>2. (2 * k) % 2 = 0
      OBVIOUS
    <3> QED
      BY <3>1, <3>2 DEF PendingCost
  <2>4. Unrealized(run, b) = 0
    BY <2>1 DEF Unrealized, HeldIn
  <2>5. Capital + net + 0 = Capital + net + 0 * c + 0
    BY <1>10
  <2> QED
    BY <1>6, <1>8, <2>2, <2>3, <2>4, <2>5 DEF EquityAt
<1>12. CASE Within(run, b, k)
  <2>1. k < m /\ FillsTo(run, b) = 1..(2 * k + 1) /\ HeldIn(run, b) = {k + 1}
    BY <1>1, <1>12 DEF Within
  <2>2. PICK t \in 1..m : t = k + 1 /\ 2 * t - 1 = 2 * k + 1
    BY <2>1
  <2>3. PICK last \in 1..(2 * m) : last = 2 * k + 1
    BY <2>1
  <2> DEFINE e == run.fills[last]
             p == run.trades[t].position
  <2>4. Settles(run, t) /\ e = run.fills[2 * t - 1]
    BY <1>1, <2>2, <2>3, FillsOfTrade
  <2>5. /\ CashOf(e) \in Int /\ SharesOf(e) \in Int /\ e.cost \in Int
        /\ CashOf(e) + SharesOf(e) * c + e.cost = SignedGross(p.direction, p.price, c, p.quantity)
    <3>1. LET e1 == run.fills[2 * t - 1] IN
          /\ CashOf(e1) \in Int /\ SharesOf(e1) \in Int /\ e1.cost \in Int
          /\ CashOf(e1) + SharesOf(e1) * c + e1.cost = SignedGross(p.direction, p.price, c, p.quantity)
      BY <2>4 DEF Settles
    <3> QED
      BY <2>4, <3>1
  <2>6. cashes[last] = CashOf(e) /\ holds[last] = SharesOf(e)
    BY <1>4
  <2> HIDE DEF e, p
  <2>7. CashTo(run, b) = net + CashOf(e) /\ HeldTo(run, b) = SharesOf(e)
    <3>1. \A f \in 1..(2 * k + 1) : cashes[f] \in Int /\ holds[f] \in Int
      BY <1>4, <2>1
    <3>2. /\ SumFunctionOnSet(cashes, 1..(2 * k + 1)) = SumFunctionOnSet(cashes, 1..(2 * k)) + cashes[2 * k + 1]
          /\ SumFunctionOnSet(holds, 1..(2 * k + 1)) = SumFunctionOnSet(holds, 1..(2 * k)) + holds[2 * k + 1]
      BY <3>1, SumStep
    <3>3. /\ SumFunctionOnSet(cashes, 1..(2 * k + 1)) = net + CashOf(e)
          /\ SumFunctionOnSet(holds, 1..(2 * k + 1)) = SharesOf(e)
      BY <1>9, <2>3, <2>5, <2>6, <3>2
    <3> QED
      BY <1>5, <2>1, <3>3, Zenon
  <2>8. PendingCost(run, b) = e.cost
    <3>1. Cardinality(FillsTo(run, b)) = 2 * k + 1
      <4>1. Cardinality(1..(2 * k + 1)) = 2 * k + 1
        BY FS_Interval
      <4> QED
        BY <2>1, <4>1, Zenon
    <3>2. (2 * k + 1) % 2 = 1
      OBVIOUS
    <3> QED
      BY <2>3, <3>1, <3>2 DEF PendingCost, e
  <2>9. Unrealized(run, b) = SignedGross(p.direction, p.price, c, p.quantity)
    <3>1. Min(HeldIn(run, b)) = t /\ HeldIn(run, b) # {}
      <4>1. HeldIn(run, b) \subseteq Nat /\ HeldIn(run, b) # {}
        BY <2>1
      <4>2. Min(HeldIn(run, b)) \in HeldIn(run, b)
        BY <4>1, SmallestMember
      <4> QED
        BY <2>1, <2>2, <4>1, <4>2
    <3> QED
      BY <1>6, <3>1 DEF Unrealized, HeldIn, p
  <2>10. PICK w \in Int : w = SharesOf(e) * c
    BY <2>5
  <2>11. PICK u \in Int, g \in Int : u = CashOf(e) /\ g = e.cost
    BY <2>5
  <2>12. SignedGross(p.direction, p.price, c, p.quantity) = u + w + g
    BY <2>5, <2>10, <2>11
  <2>13. Capital + net + (u + w + g) = Capital + (net + u) + w + g
    BY <1>10
  <2>14. EquityAt(run, b) = Capital + net + (u + w + g)
    BY <1>8, <2>9, <2>12 DEF EquityAt
  <2>15. /\ CashTo(run, b) = net + u /\ HeldTo(run, b) * Bar(b).close = w
         /\ PendingCost(run, b) = g
    BY <1>6, <2>7, <2>8, <2>10, <2>11
  <2> QED
    BY <2>13, <2>14, <2>15
<1> QED
  BY <1>3, <1>11, <1>12

\* Where every trade is over nothing is held, and the curve is at the equity of the run.
LEMMA CurveAtEnd ==
  ASSUME NEW n \in Nat, NEW run \in RunShape, Booked(run), OneByOne(run, n, n), run.open = Flat
  PROVE  HeldTo(run, n) = 0 /\ EquityAt(run, n) = Capital + NetPnl(run)
<1> DEFINE cashes == [f \in DOMAIN run.fills |-> CashOf(run.fills[f])]
           holds == [f \in DOMAIN run.fills |-> SharesOf(run.fills[f])]
<1>1. PICK m \in Nat : m = Len(run.trades) /\ m \in 0..m
  BY NetOfType
<1>2. Over(run, n) = 1..m /\ FillsTo(run, n) = 1..(2 * m) /\ HeldIn(run, n) = {}
  <2>1. n >= n
    OBVIOUS
  <2>2. PICK k \in 0..Len(run.trades) :
          Over(run, n) = 1..k /\ (n >= n => k = Len(run.trades) /\ Between(run, n, k))
    BY FillsUpTo
  <2>3. Over(run, n) = 1..m /\ Between(run, n, m)
    BY <1>1, <2>1, <2>2
  <2> QED
    BY <2>3 DEF Between
<1>3. SumsOfPairs(cashes, holds, NetOf(run), m)
  BY <1>1, FillSums
<1>4. HeldTo(run, n) = 0
  <2>1. HeldTo(run, n) = SumFunctionOnSet(holds, FillsTo(run, n))
    BY DEF HeldTo
  <2>2. SumFunctionOnSet(holds, 1..(2 * m)) = 0
    BY <1>3 DEF SumsOfPairs
  <2> HIDE DEF holds
  <2> QED
    BY <1>2, <2>1, <2>2, Zenon
<1>5. Realized(run, n) = NetPnl(run) /\ NetPnl(run) \in Int
  <2>1. Realized(run, n) = SumFunctionOnSet(NetOf(run), Over(run, n))
    BY DEF Realized, Over
  <2>2. NetPnl(run) = SumFunctionOnSet(NetOf(run), 1..m) /\ NetPnl(run) \in Int
    BY <1>1, NetOfType
  <2> QED
    BY <1>2, <2>1, <2>2, Zenon
<1>6. Unrealized(run, n) = 0
  BY <1>2 DEF Unrealized, HeldIn
<1>7. Capital \in Int
  BY EngineConstants
<1> QED
  BY <1>4, <1>5, <1>6, <1>7 DEF EquityAt

\* Whatever the prices and the signals are and however long it runs, the curve that is put
\* together from the trades tells at every bar what the fills of the run say.
THEOREM EngineCurveIsOfItsFills == EngineSpec => []CurveTellsFills
<1>1. history \in Seq(Inputs) => CurveTellsFills
  <2> SUFFICES ASSUME history \in Seq(Inputs) PROVE CurveTellsFills
    OBVIOUS
  <2>1. PICK run : run = Result(Known)
    OBVIOUS
  <2>2. Known \in Nat /\ Known <= Known
    BY KnownType
  <2>3. LoopInv(run, Known, Known) /\ run.open = Flat
    BY <2>1, <2>2, ResultIs
  <2>4. run \in RunShape /\ Booked(run) /\ OneByOne(run, Known, Known)
    BY <2>3 DEF LoopInv
  <2>5. \A b \in 1..Known : EquityAt(run, b) = Capital + CashTo(run, b)
                                                 + HeldTo(run, b) * Bar(b).close + PendingCost(run, b)
    BY <2>2, <2>3, <2>4, CurveAt
  <2>6. HeldTo(run, Known) = 0 /\ EquityAt(run, Known) = Capital + NetPnl(run)
    BY <2>2, <2>3, <2>4, CurveAtEnd
  <2>7. run.equity = Capital + NetPnl(run)
    BY <2>4 DEF Booked
  <2> QED
    BY <2>1, <2>3, <2>5, <2>6, <2>7 DEF CurveTellsFills
<1>2. EngineSpec => [](history \in Seq(Inputs))
  BY HistoryType
<1> QED
  BY <1>1, <1>2, PTL

\* So do the curves of both engines.
THEOREM CurvesAreOfTheirFills == EngineSpec /\ PortfolioSpec => []CurvesMatchFills
<1>1. CurveTellsFills /\ CurveMatchesFills => CurvesMatchFills
  BY DEF CurvesMatchFills
<1> QED
  BY <1>1, EngineCurveIsOfItsFills, CurveIsOfItsFills, PTL

-----------------------------------------------------------------------------
(* Its hindsight.                                                          *)

\* Two runs that differ at most in the exit that lies ahead of their open position.
Alike(a, b) ==
  /\ a.fills = b.fills /\ a.equity = b.equity /\ (a.open = Flat <=> b.open = Flat)
  /\ a.open # Flat =>
       /\ a.open.direction = b.open.direction /\ a.open.entered = b.open.entered
       /\ a.open.price = b.open.price /\ a.open.quantity = b.open.quantity
       /\ a.open.plan = b.open.plan

\* One more bar adds an exit at that bar where there was none, and changes no other.
LEMMA ExitsAlike ==
  ASSUME NEW plan \in PlansOf, NEW direction, NEW entered \in Nat, NEW n \in Nat
  PROVE  LET y == PlannedExit(plan, direction, entered, n)
             x == PlannedExit(plan, direction, entered, n + 1)
         IN /\ y # Never => x = y
            /\ y = Never => x = Never \/ x.at = n + 1
<1> DEFINE y == PlannedExit(plan, direction, entered, n)
           x == PlannedExit(plan, direction, entered, n + 1)
<1>1. FirstHit(y, plan, direction, entered, n) /\ FirstHit(x, plan, direction, entered, n + 1)
  BY PlannedExitIs
<1> HIDE DEF x, y
<1>2. ASSUME y # Never PROVE x = y
  <2>1. /\ y.at \in (entered + 1)..n /\ TouchedAt(plan, direction, y.at) # {}
        /\ \A b \in (entered + 1)..(y.at - 1) : TouchedAt(plan, direction, b) = {}
    BY <1>1, <1>2 DEF FirstHit
  <2>2. y.at \in (entered + 1)..(n + 1)
    BY <2>1
  <2>3. x # Never
    BY <1>1, <2>1, <2>2 DEF FirstHit
  <2>4. /\ x.at \in (entered + 1)..(n + 1) /\ TouchedAt(plan, direction, x.at) # {}
        /\ \A b \in (entered + 1)..(x.at - 1) : TouchedAt(plan, direction, b) = {}
    BY <1>1, <2>3 DEF FirstHit
  <2>5. x.at = y.at
    <3>1. ~(x.at < y.at)
      BY <2>1, <2>4
    <3>2. ~(y.at < x.at)
      BY <2>1, <2>4
    <3> QED
      BY <2>1, <2>4, <3>1, <3>2
  <2>6. x.reason = y.reason /\ x.price = y.price
    BY <1>1, <1>2, <2>3, <2>5 DEF FirstHit
  <2>7. /\ x \in [at : Nat \ {0}, price : Int, reason : Reasons]
        /\ y \in [at : Nat \ {0}, price : Int, reason : Reasons]
    BY <1>1, <1>2, <2>3 DEF FirstHit, Exits
  <2> QED
    BY <2>5, <2>6, <2>7
<1>3. ASSUME y = Never PROVE x = Never \/ x.at = n + 1
  <2> SUFFICES ASSUME x # Never PROVE x.at = n + 1
    OBVIOUS
  <2>1. x.at \in (entered + 1)..(n + 1) /\ TouchedAt(plan, direction, x.at) # {}
    BY <1>1 DEF FirstHit
  <2>2. \A b \in (entered + 1)..n : TouchedAt(plan, direction, b) = {}
    BY <1>1, <1>3 DEF FirstHit
  <2> QED
    BY <2>1, <2>2
<1> QED
  BY <1>2, <1>3 DEF x, y

\* Runs that are alike stay so when both close, at the same price.
LEMMA CloseAlike ==
  ASSUME NEW a, NEW b, Alike(a, b), a.open # Flat, NEW at, NEW price, NEW reason
  PROVE  /\ Alike(CloseTrade(a, at, price, reason), CloseTrade(b, at, price, reason))
         /\ CloseTrade(a, at, price, reason).open = Flat
<1> DEFINE side == Leaving(a.open.direction)
           q == a.open.quantity
           fill == Fill(at, side, q, Slipped(side, price))
           net == SignedGross(a.open.direction, a.open.price, fill.price, q)
                    - (Cost(Entering(a.open.direction), a.open.price * q) + fill.cost)
           x == CloseTrade(a, at, price, reason)
           y == CloseTrade(b, at, price, reason)
<1>1. x.fills = Append(a.fills, fill) /\ x.equity = a.equity + net /\ x.open = Flat
  BY DEF CloseTrade
<1>2. /\ b.open.direction = a.open.direction /\ b.open.quantity = q /\ b.open.price = a.open.price
      /\ b.fills = a.fills /\ b.equity = a.equity
  BY DEF Alike
<1>3. y.fills = Append(a.fills, fill) /\ y.equity = a.equity + net /\ y.open = Flat
  BY <1>2 DEF CloseTrade
<1> HIDE DEF x, y, fill, net
<1>4. Alike(x, y)
  BY <1>1, <1>3 DEF Alike
<1> QED
  BY <1>1, <1>4 DEF x, y

\* And when both enter, however far the bars go that each of them knows.
LEMMA OpenAlike ==
  ASSUME NEW a \in RunShape, NEW b \in RunShape, Alike(a, b), a.open = Flat, NEW k, NEW n, NEW m,
         Signal(k) \in Directions
  PROVE  Alike(OpenTrade(a, k, n), OpenTrade(b, k, m))
<1> DEFINE direction == Signal(k)
           price == Slipped(Entering(direction), Bar(k + 1).open)
           quantity == SizeFor(a.equity, price)
           p(h) == [direction |-> direction, entered |-> k + 1, price |-> price,
                    quantity |-> quantity, plan |-> Plan(k),
                    exit |-> PlannedExit(Plan(k), direction, k + 1, h)]
           fill == Fill(k + 1, Entering(direction), quantity, price)
           approved == quantity > 0 /\ EntryApproved(a.equity, quantity)
<1>1. b.equity = a.equity /\ b.fills = a.fills /\ b.open = Flat
  BY DEF Alike
<1>2. CASE ~approved
  <2>1. OpenTrade(a, k, n) = a /\ OpenTrade(b, k, m) = b
    BY <1>1, <1>2 DEF OpenTrade
  <2> QED
    BY <2>1
<1>3. CASE approved
  <2>1. /\ OpenTrade(a, k, n) = [a EXCEPT !.open = p(n), !.fills = Append(a.fills, fill)]
        /\ OpenTrade(b, k, m) = [b EXCEPT !.open = p(m), !.fills = Append(a.fills, fill)]
    BY <1>1, <1>3 DEF OpenTrade
  <2>2. \A h : /\ p(h) # Flat /\ p(h).direction = direction /\ p(h).entered = k + 1
               /\ p(h).price = price /\ p(h).quantity = quantity /\ p(h).plan = Plan(k)
    <3> SUFFICES ASSUME NEW h
                 PROVE  /\ p(h) # Flat /\ p(h).direction = direction /\ p(h).entered = k + 1
                        /\ p(h).price = price /\ p(h).quantity = quantity /\ p(h).plan = Plan(k)
      OBVIOUS
    <3>1. direction # "NEUTRAL"
      BY DEF Directions
    <3>2. p(h).direction = direction
      OBVIOUS
    <3>3. p(h) # Flat
      BY <3>1, <3>2 DEF Flat
    <3> QED
      BY <3>3
  <2> HIDE DEF p, fill
  <2>3. /\ OpenTrade(a, k, n).fills = Append(a.fills, fill) /\ OpenTrade(a, k, n).equity = a.equity
        /\ OpenTrade(b, k, m).fills = Append(a.fills, fill) /\ OpenTrade(b, k, m).equity = b.equity
        /\ OpenTrade(a, k, n).open = p(n) /\ OpenTrade(b, k, m).open = p(m)
    BY <2>1 DEF RunShape
  <2> QED
    BY <1>1, <2>2, <2>3 DEF Alike
<1> QED
  BY <1>2, <1>3

\* What a turn does, by the case it is in.
LEMMA IterationIs ==
  ASSUME NEW run, NEW k \in Nat, NEW n \in Nat
  PROVE  LET p == run.open
             enters == p = Flat /\ Signal(k) \in Directions /\ k < n
             due == p # Flat /\ p.plan # <<>> /\ DueAt(p.exit, k)
             turns == p # Flat /\ p.plan = <<>> /\ Signal(k) \notin {p.direction, "WARMUP"} /\ k < n
             ends == p # Flat /\ k = n /\ ~(p.plan # <<>> /\ DueAt(p.exit, k))
             next == Iteration(run, k, n)
         IN /\ enters => next = OpenTrade(run, k, n)
            /\ due => next = CloseTrade(run, k, p.exit.price, p.exit.reason)
            /\ turns => next = CloseTrade(run, k + 1, Bar(k + 1).open, "signal_reversal")
            /\ ends => next = CloseTrade(run, k, Bar(k).close, IF p.plan # <<>> THEN "EOD" ELSE "end_of_data")
            /\ ~enters /\ ~due /\ ~turns /\ ~ends => next = run
<1> DEFINE p == run.open
           enters == p = Flat /\ Signal(k) \in Directions /\ k < n
           due == p # Flat /\ p.plan # <<>> /\ DueAt(p.exit, k)
           turns == p # Flat /\ p.plan = <<>> /\ Signal(k) \notin {p.direction, "WARMUP"} /\ k < n
           ends == p # Flat /\ k = n /\ ~(p.plan # <<>> /\ DueAt(p.exit, k))
           next == Iteration(run, k, n)
<1>1. /\ enters => next = OpenTrade(run, k, n)
      /\ due => next = CloseTrade(run, k, p.exit.price, p.exit.reason)
      /\ turns => next = CloseTrade(run, k + 1, Bar(k + 1).open, "signal_reversal")
      /\ ends => next = CloseTrade(run, k, Bar(k).close, IF p.plan # <<>> THEN "EOD" ELSE "end_of_data")
      /\ ~enters /\ ~due /\ ~turns /\ ~ends => next = run
  BY DEF Iteration
<1> QED
  BY <1>1

\* The exits ahead of the positions of two runs of which one has a bar more.
LEMMA DueAlike ==
  ASSUME NEW n \in Nat, NEW k \in 1..n, NEW a, NEW b, Alike(a, b), a.open # Flat,
         LoopInv(a, k - 1, n + 1), LoopInv(b, k - 1, n)
  PROVE  /\ DueAt(a.open.exit, k) <=> DueAt(b.open.exit, k)
         /\ DueAt(b.open.exit, k) => a.open.exit = b.open.exit /\ b.open.exit.reason \in Reasons
<1>1. /\ a.open \in Held /\ b.open \in Held /\ b.open.plan \in PlansOf /\ b.open.entered \in Nat
      /\ b.open.exit \in Exits
  BY OpenIs DEF LoopInv, Alike
<1>2. /\ a.open.exit = PlannedExit(b.open.plan, b.open.direction, b.open.entered, n + 1)
      /\ b.open.exit = PlannedExit(b.open.plan, b.open.direction, b.open.entered, n)
  BY DEF LoopInv, ByPlan, Foreseen, Alike
<1>3. /\ b.open.exit # Never => a.open.exit = b.open.exit
      /\ b.open.exit = Never => a.open.exit = Never \/ a.open.exit.at = n + 1
  BY <1>1, <1>2, ExitsAlike
<1>4. k # n + 1
  OBVIOUS
<1>5. b.open.exit # Never => b.open.exit.reason \in Reasons
  BY <1>1 DEF Exits
<1> QED
  BY <1>3, <1>4, <1>5 DEF DueAt

\* A turn before the last bar of the shorter run.
LEMMA IterationAlike ==
  ASSUME NEW n \in Nat, NEW k \in 1..n, k < n, NEW a, NEW b, Alike(a, b),
         LoopInv(a, k - 1, n + 1), LoopInv(b, k - 1, n)
  PROVE  Alike(Iteration(a, k, n + 1), Iteration(b, k, n))
<1>1. a \in RunShape /\ b \in RunShape /\ (a.open = Flat <=> b.open = Flat)
  BY DEF LoopInv, Alike
<1>2. k < n + 1 /\ k # n /\ k # n + 1 /\ k \in Nat /\ n + 1 \in Nat
  OBVIOUS
<1>3. CASE a.open = Flat /\ Signal(k) \in Directions
  <2>1. Iteration(a, k, n + 1) = OpenTrade(a, k, n + 1) /\ Iteration(b, k, n) = OpenTrade(b, k, n)
    BY <1>1, <1>2, <1>3, IterationIs
  <2> QED
    BY <1>1, <1>3, <2>1, OpenAlike
<1>4. CASE a.open = Flat /\ Signal(k) \notin Directions
  <2>1. Iteration(a, k, n + 1) = a /\ Iteration(b, k, n) = b
    BY <1>1, <1>2, <1>4, IterationIs
  <2> QED
    BY <2>1
<1>5. CASE a.open # Flat
  <2>1. /\ a.open.plan = b.open.plan /\ a.open.direction = b.open.direction
        /\ DueAt(a.open.exit, k) <=> DueAt(b.open.exit, k)
        /\ DueAt(b.open.exit, k) => a.open.exit = b.open.exit
    BY <1>5, DueAlike DEF Alike
  <2>2. CASE a.open.plan # <<>> /\ DueAt(a.open.exit, k)
    <3>1. Iteration(a, k, n + 1) = CloseTrade(a, k, a.open.exit.price, a.open.exit.reason)
      BY <1>2, <1>5, <2>2, IterationIs
    <3>2. b.open # Flat /\ b.open.plan # <<>> /\ DueAt(b.open.exit, k) /\ a.open.exit = b.open.exit
      BY <1>1, <1>5, <2>1, <2>2
    <3>3. Iteration(b, k, n) = CloseTrade(b, k, b.open.exit.price, b.open.exit.reason)
      BY <1>2, <3>2, IterationIs
    <3> QED
      BY <1>5, <3>1, <3>2, <3>3, CloseAlike
  <2>3. CASE a.open.plan = <<>> /\ Signal(k) \notin {a.open.direction, "WARMUP"}
    <3>1. /\ Iteration(a, k, n + 1) = CloseTrade(a, k + 1, Bar(k + 1).open, "signal_reversal")
          /\ Iteration(b, k, n) = CloseTrade(b, k + 1, Bar(k + 1).open, "signal_reversal")
      BY <1>1, <1>2, <1>5, <2>1, <2>3, IterationIs
    <3> QED
      BY <1>5, <3>1, CloseAlike
  <2>4. CASE /\ ~(a.open.plan # <<>> /\ DueAt(a.open.exit, k))
             /\ ~(a.open.plan = <<>> /\ Signal(k) \notin {a.open.direction, "WARMUP"})
    <3>1. Iteration(a, k, n + 1) = a /\ Iteration(b, k, n) = b
      BY <1>1, <1>2, <1>5, <2>1, <2>4, IterationIs
    <3> QED
      BY <3>1
  <2> QED
    BY <2>2, <2>3, <2>4
<1> QED
  BY <1>3, <1>4, <1>5

\* Up to its last turn, a run is alike to the run that has a bar more.
LEMMA RunsAlike ==
  ASSUME history \in Seq(Inputs), NEW n \in Nat \ {0}, n + 1 <= Known
  PROVE  Alike(RunTo(n - 1, n + 1), RunTo(n - 1, n))
<1> DEFINE S == {k \in 0..(n - 1) : Alike(RunTo(k, n + 1), RunTo(k, n))}
<1>0. Known \in Nat /\ n + 1 \in Nat /\ n <= Known /\ n \in Nat
  BY KnownType
<1>1. 0 \in S
  <2>1. RunTo(0, n + 1) = Fresh /\ RunTo(0, n) = Fresh
    BY <1>0, TurnByTurn
  <2>2. Alike(Fresh, Fresh)
    BY DEF Alike
  <2>3. 0 \in 0..(n - 1)
    OBVIOUS
  <2> QED
    BY <2>1, <2>2, <2>3
<1>2. ASSUME NEW k \in 1..(n - 1), k - 1 \in S PROVE k \in S
  <2>1. k \in 1..n /\ k < n /\ k \in 1..(n + 1) /\ k - 1 \in 0..n /\ k - 1 \in 0..(n + 1)
    OBVIOUS
  <2>2. /\ RunTo(k, n + 1) = Iteration(RunTo(k - 1, n + 1), k, n + 1)
        /\ RunTo(k, n) = Iteration(RunTo(k - 1, n), k, n)
    BY <1>0, <2>1, TurnByTurn
  <2>3. LoopInv(RunTo(k - 1, n + 1), k - 1, n + 1) /\ LoopInv(RunTo(k - 1, n), k - 1, n)
    BY <1>0, <2>1, LoopHolds
  <2>4. Alike(RunTo(k - 1, n + 1), RunTo(k - 1, n))
    BY <1>2
  <2>5. Alike(RunTo(k, n + 1), RunTo(k, n))
    BY <1>0, <2>1, <2>2, <2>3, <2>4, IterationAlike
  <2> QED
    BY <2>5
<1>3. n - 1 \in Nat /\ n - 1 \in 0..(n - 1)
  OBVIOUS
<1> HIDE DEF S
<1>4. \A k \in 0..(n - 1) : k \in S
  BY <1>1, <1>2, <1>3, Counting
<1>5. n - 1 \in S
  BY <1>3, <1>4
<1> QED
  BY <1>5 DEF S

\* The fills of a run are g, before bar n, and then such as are not.
Continues(run, g, n) ==
  /\ run \in RunShape /\ g \in Seq(Executed) /\ Len(g) <= Len(run.fills)
  /\ \A f \in 1..Len(g) : run.fills[f] = g[f] /\ g[f].at < n
  /\ \A f \in (Len(g) + 1)..Len(run.fills) : run.fills[f].at >= n

\* No fill lies behind the bars of a run.
LEMMA FillTimes ==
  ASSUME NEW n \in Nat, NEW k, NEW run, LoopInv(run, k, n)
  PROVE  run.fills \in Seq(Executed) /\ \A f \in 1..Len(run.fills) : run.fills[f].at <= n
<1>1. run \in RunShape /\ Booked(run) /\ OneByOne(run, k, n)
  BY DEF LoopInv
<1>2. PICK m \in Nat : m = Len(run.trades)
  BY <1>1, NetOfType
<1>3. run.fills \in Seq(Executed) /\ Len(run.fills) = 2 * m + (IF run.open = Flat THEN 0 ELSE 1)
  BY <1>1, <1>2 DEF RunShape, Booked
<1>4. \A t \in 1..m : run.fills[2 * t - 1].at <= n /\ run.fills[2 * t].at <= n
  <2> SUFFICES ASSUME NEW t \in 1..m PROVE run.fills[2 * t - 1].at <= n /\ run.fills[2 * t].at <= n
    OBVIOUS
  <2>1. /\ run.fills[2 * t - 1] = Entry(run.trades[t].position)
        /\ run.fills[2 * t] = Exit(run.trades[t], run.fills[2 * t].price)
    BY <1>1, <1>2 DEF Booked
  <2>2. /\ Entry(run.trades[t].position).at = run.trades[t].position.entered
        /\ \A price : Exit(run.trades[t], price).at = run.trades[t].left
    BY DEF Entry, Exit, Fill
  <2>3. /\ run.trades[t].left \in Nat /\ run.trades[t].left <= n
        /\ run.trades[t].position.entered \in 1..run.trades[t].left
    BY <1>1, <1>2, TradeType DEF OneByOne
  <2>4. /\ run.fills[2 * t - 1].at = run.trades[t].position.entered
        /\ run.fills[2 * t].at = run.trades[t].left
    BY <2>1, <2>2
  <2> QED
    BY <2>3, <2>4
<1>5. ASSUME NEW f \in 1..Len(run.fills) PROVE run.fills[f].at <= n
  <2>1. CASE f \in 1..(2 * m)
    BY <1>4, <2>1, Halves
  <2>2. CASE f \notin 1..(2 * m)
    <3>1. run.open # Flat /\ f = 2 * m + 1
      BY <1>3, <2>2
    <3>2. run.fills[f] = Entry(run.open) /\ run.open.entered \in 1..n
      BY <1>1, <1>2, <3>1 DEF Booked, OneByOne
    <3>3. Entry(run.open).at = run.open.entered
      BY DEF Entry, Fill
    <3> QED
      BY <3>2, <3>3
  <2> QED
    BY <2>1, <2>2
<1> QED
  BY <1>3, <1>5

\* A fill at bar n is one that comes after.
LEMMA ContinuesOn ==
  ASSUME NEW n \in Nat, NEW run, NEW g, Continues(run, g, n), NEW next \in RunShape,
         NEW fill \in Executed, fill.at >= n, next.fills = Append(run.fills, fill)
  PROVE  Continues(next, g, n)
<1>1. run.fills \in Seq(Executed) /\ Len(run.fills) \in Nat /\ g \in Seq(Executed) /\ Len(g) \in Nat
  BY DEF Continues, RunShape
<1>2. /\ Len(next.fills) = Len(run.fills) + 1 /\ next.fills[Len(run.fills) + 1] = fill
      /\ \A f \in 1..Len(run.fills) : next.fills[f] = run.fills[f]
  <2>1. /\ Len(Append(run.fills, fill)) = Len(run.fills) + 1
        /\ Append(run.fills, fill)[Len(run.fills) + 1] = fill
        /\ \A f \in 1..Len(run.fills) : Append(run.fills, fill)[f] = run.fills[f]
    BY <1>1, Appended
  <2> QED
    BY <2>1
<1>3. Len(g) <= Len(run.fills)
  BY DEF Continues
<1>4. \A f \in 1..Len(g) : next.fills[f] = g[f] /\ g[f].at < n
  <2>1. \A f \in 1..Len(g) : f \in 1..Len(run.fills)
    BY <1>1, <1>3
  <2> QED
    BY <1>2, <2>1 DEF Continues
<1>5. \A f \in (Len(g) + 1)..Len(next.fills) : next.fills[f].at >= n
  <2> SUFFICES ASSUME NEW f \in (Len(g) + 1)..Len(next.fills) PROVE next.fills[f].at >= n
    OBVIOUS
  <2>1. CASE f = Len(run.fills) + 1
    BY <1>2, <2>1
  <2>2. CASE f # Len(run.fills) + 1
    <3>1. f \in (Len(g) + 1)..Len(run.fills) /\ f \in 1..Len(run.fills)
      BY <1>1, <1>2, <2>2
    <3> QED
      BY <1>2, <3>1 DEF Continues
  <2> QED
    BY <2>1, <2>2
<1> QED
  BY <1>1, <1>2, <1>3, <1>4, <1>5 DEF Continues

\* Closing is one fill, and one trade with its reason.
LEMMA CloseFill ==
  ASSUME NEW run \in RunShape, run.open # Flat, NEW b \in Nat, NEW price \in Int, NEW reason
  PROVE  /\ \E fill \in Executed :
              fill.at = b /\ CloseTrade(run, b, price, reason).fills = Append(run.fills, fill)
         /\ \E trade : /\ trade.reason = reason
                       /\ CloseTrade(run, b, price, reason).trades = Append(run.trades, trade)
<1> DEFINE p == run.open
           slipped == Slipped(Leaving(p.direction), price)
           fill == Fill(b, Leaving(p.direction), p.quantity, slipped)
           net == SignedGross(p.direction, p.price, fill.price, p.quantity)
                    - (Cost(Entering(p.direction), p.price * p.quantity) + fill.cost)
           trade == [position |-> p, left |-> b, reason |-> reason, net |-> net]
           next == CloseTrade(run, b, price, reason)
<1>1. next.fills = Append(run.fills, fill) /\ next.trades = Append(run.trades, trade)
  BY DEF CloseTrade
<1>2. fill \in Executed
  <2>1. p.quantity \in Nat \ {0}
    BY OpenIs
  <2>2. slipped \in Int /\ Leaving(p.direction) \in {"BUY", "SELL"}
    BY SlippedType DEF Leaving
  <2> QED
    BY <2>1, <2>2, FillType
<1>3. fill.at = b
  BY DEF Fill
<1>4. trade.reason = reason
  OBVIOUS
<1> HIDE DEF fill, trade, next
<1> QED
  BY <1>1, <1>2, <1>3, <1>4 DEF next

\* The last turn of a run fills at its last bar, if it does.
LEMMA LastTurn ==
  ASSUME history \in Seq(Inputs), NEW n \in Nat \ {0}, n <= Known, NEW run, LoopInv(run, n - 1, n),
         NEW g, Continues(run, g, n)
  PROVE  Continues(Iteration(run, n, n), g, n)
<1>1. n \in Nat /\ n \in 1..n /\ ~(n < n) /\ n \in 1..Known
  BY KnownType
<1>2. LoopInv(Iteration(run, n, n), n, n)
  BY <1>1, IterationKeeps
<1>3. run \in RunShape /\ Iteration(run, n, n) \in RunShape
  BY <1>2 DEF LoopInv
<1>4. CASE run.open = Flat
  <2>1. Iteration(run, n, n) = run
    BY <1>1, <1>4, IterationIs
  <2> QED
    BY <2>1
<1>5. CASE run.open # Flat
  <2>1. \E price \in Int : \E reason : Iteration(run, n, n) = CloseTrade(run, n, price, reason)
    <3>1. CASE run.open.plan # <<>> /\ DueAt(run.open.exit, n)
      <4>1. Iteration(run, n, n) = CloseTrade(run, n, run.open.exit.price, run.open.exit.reason)
        BY <1>1, <1>5, <3>1, IterationIs
      <4>2. run.open.exit.price \in Int
        BY <1>3, <1>5, <3>1, OpenIs DEF Exits, DueAt
      <4> QED
        BY <4>1, <4>2
    <3>2. CASE ~(run.open.plan # <<>> /\ DueAt(run.open.exit, n))
      <4>1. PICK reason : reason = IF run.open.plan # <<>> THEN "EOD" ELSE "end_of_data"
        OBVIOUS
      <4>2. Iteration(run, n, n) = CloseTrade(run, n, Bar(n).close, reason)
        BY <1>1, <1>5, <3>2, <4>1, IterationIs
      <4>3. Bar(n).close \in Int
        BY <1>1, InputFacts
      <4> QED
        BY <4>2, <4>3
    <3> QED
      BY <3>1, <3>2
  <2>2. PICK fill \in Executed : fill.at = n /\ Iteration(run, n, n).fills = Append(run.fills, fill)
    BY <1>1, <1>3, <1>5, <2>1, CloseFill
  <2>3. fill.at >= n
    BY <1>1, <2>2
  <2> QED
    BY <1>1, <1>3, <2>2, <2>3, ContinuesOn
<1> QED
  BY <1>4, <1>5

\* Which is enough.
LEMMA PrefixIs ==
  ASSUME NEW n \in Nat, NEW run, NEW g, Continues(run, g, n)
  PROVE  SubSeq(run.fills, 1, Cardinality({f \in DOMAIN run.fills : run.fills[f].at < n})) = g
<1>1. /\ run.fills \in Seq(Executed) /\ Len(run.fills) \in Nat /\ DOMAIN run.fills = 1..Len(run.fills)
      /\ g \in Seq(Executed) /\ Len(g) \in Nat /\ Len(g) <= Len(run.fills)
  BY DEF Continues, RunShape
<1>2. {f \in DOMAIN run.fills : run.fills[f].at < n} = 1..Len(g)
  <2> SUFFICES ASSUME NEW f \in 1..Len(run.fills) PROVE run.fills[f].at < n <=> f <= Len(g)
    BY <1>1
  <2>1. CASE f <= Len(g)
    <3>1. f \in 1..Len(g)
      BY <1>1, <2>1
    <3> QED
      BY <2>1, <3>1 DEF Continues
  <2>2. CASE ~(f <= Len(g))
    <3>1. f \in (Len(g) + 1)..Len(run.fills)
      BY <1>1, <2>2
    <3>2. run.fills[f].at >= n
      BY <3>1 DEF Continues
    <3>3. run.fills[f].at \in Nat
      <4>1. run.fills[f] \in Executed
        BY <1>1
      <4> QED
        BY <4>1 DEF Executed
    <3> QED
      BY <2>2, <3>2, <3>3
  <2> QED
    BY <2>1, <2>2
<1>3. Cardinality({f \in DOMAIN run.fills : run.fills[f].at < n}) = Len(g)
  <2>1. PICK m \in Nat : m = Len(g)
    BY <1>1
  <2>2. Cardinality(1..m) = m
    BY FS_Interval
  <2> QED
    BY <1>2, <2>1, <2>2, Zenon
<1>4. SubSeq(run.fills, 1, Len(g)) = g
  <2>1. /\ SubSeq(run.fills, 1, Len(g)) \in Seq(Executed)
        /\ Len(SubSeq(run.fills, 1, Len(g))) = Len(g)
        /\ \A f \in 1..Len(g) : SubSeq(run.fills, 1, Len(g))[f] = run.fills[f]
    BY <1>1
  <2>2. \A f \in 1..Len(g) : SubSeq(run.fills, 1, Len(g))[f] = g[f]
    BY <2>1 DEF Continues
  <2> QED
    BY <1>1, <2>1, <2>2
<1> QED
  BY <1>3, <1>4

\* Entering is one fill at the next bar, or none if nothing can be bought.
LEMMA OpenFill ==
  ASSUME history \in Seq(Inputs), NEW run \in RunShape, NEW k \in 1..Known, k + 1 <= Known, NEW n
  PROVE  \/ OpenTrade(run, k, n) = run
         \/ \E fill \in Executed :
              fill.at = k + 1 /\ OpenTrade(run, k, n).fills = Append(run.fills, fill)
<1> DEFINE direction == Signal(k)
           price == Slipped(Entering(direction), Bar(k + 1).open)
           quantity == SizeFor(run.equity, price)
           fill == Fill(k + 1, Entering(direction), quantity, price)
           p == [direction |-> direction, entered |-> k + 1, price |-> price,
                 quantity |-> quantity, plan |-> Plan(k),
                 exit |-> PlannedExit(Plan(k), direction, k + 1, n)]
<1>1. CASE ~(quantity > 0 /\ EntryApproved(run.equity, quantity))
  BY <1>1 DEF OpenTrade
<1>2. CASE quantity > 0 /\ EntryApproved(run.equity, quantity)
  <2>1. k + 1 \in 1..Known /\ k + 1 \in Nat
    BY KnownType
  <2>2. price \in Nat \ {0}
    BY <2>1, InputFacts, SlippedPrice
  <2>3. OpenTrade(run, k, n) = [run EXCEPT !.open = p, !.fills = Append(run.fills, fill)]
    BY <1>2 DEF OpenTrade
  <2> HIDE DEF price
  <2>4. quantity \in Nat \ {0}
    <3>1. PICK w \in Int : w = run.equity * EquityPercent
      BY EngineConstants DEF RunShape
    <3>2. PICK d \in Nat \ {0} : d = 100 * price
      BY <2>2
    <3>3. w \div d \in Int
      OBVIOUS
    <3>4. quantity \in Int
      BY <3>1, <3>2, <3>3, EngineConstants DEF SizeFor
    <3> HIDE DEF quantity
    <3> QED
      BY <1>2, <3>4
  <2> HIDE DEF quantity
  <2>5. fill \in Executed
    <3>1. Entering(direction) \in {"BUY", "SELL"} /\ price \in Int
      BY <2>2 DEF Entering
    <3> QED
      BY <2>1, <2>4, <3>1, FillType
  <2>6. fill.at = k + 1
    BY DEF Fill
  <2> HIDE DEF fill, p
  <2>7. OpenTrade(run, k, n).fills = Append(run.fills, fill)
    BY <2>3 DEF RunShape
  <2> QED
    BY <2>5, <2>6, <2>7
<1> QED
  BY <1>1, <1>2

\* A run with the fills of another continues them.
LEMMA Continued ==
  ASSUME NEW n \in Nat, NEW k, NEW run \in RunShape, NEW other, LoopInv(other, k, n),
         run.fills = other.fills
  PROVE  Continues(run, other.fills, n + 1)
<1>1. other.fills \in Seq(Executed) /\ \A f \in 1..Len(other.fills) : other.fills[f].at <= n
  BY FillTimes
<1>2. Len(other.fills) \in Nat
  BY <1>1
<1>3. \A f \in 1..Len(other.fills) : other.fills[f].at < n + 1
  <2> SUFFICES ASSUME NEW f \in 1..Len(other.fills) PROVE other.fills[f].at < n + 1
    OBVIOUS
  <2>1. other.fills[f].at \in Nat
    <3>1. other.fills[f] \in Executed
      BY <1>1
    <3> QED
      BY <3>1 DEF Executed
  <2> QED
    BY <1>1, <2>1
<1> QED
  BY <1>1, <1>2, <1>3 DEF Continues

\* Before the end nothing was forced out.
LEMMA NotForced ==
  ASSUME NEW n \in Nat, NEW k, NEW run, LoopInv(run, k, n), k < n
  PROVE  Unforced(run) = run.fills
<1>1. run.trades # <<>> => run.trades[Len(run.trades)].reason \notin {"EOD", "end_of_data"}
  <2> SUFFICES ASSUME run.trades # <<>>
               PROVE  run.trades[Len(run.trades)].reason \notin {"EOD", "end_of_data"}
    OBVIOUS
  <2>1. run.trades \in Seq(ClosedTrade)
    BY DEF LoopInv, RunShape
  <2>2. Len(run.trades) \in 1..Len(run.trades)
    BY <2>1
  <2> QED
    BY <2>2 DEF LoopInv, ByPlan
<1> QED
  BY <1>1 DEF Unforced, Forced

\* Of the last trade of a run it depends on the reason.
LEMMA UnforcedClose ==
  ASSUME NEW run \in RunShape, run.open # Flat, NEW b \in Nat, NEW price \in Int, NEW reason,
         NEW next, next = CloseTrade(run, b, price, reason)
  PROVE  /\ reason \in {"EOD", "end_of_data"} => Unforced(next) = run.fills
         /\ reason \notin {"EOD", "end_of_data"} => Unforced(next) = next.fills
<1>1. run.trades \in Seq(ClosedTrade) /\ run.fills \in Seq(Executed)
  BY DEF RunShape
<1>2. PICK fill \in Executed : next.fills = Append(run.fills, fill)
  BY CloseFill
<1>3. PICK trade : trade.reason = reason /\ next.trades = Append(run.trades, trade)
  BY CloseFill
<1>4. /\ Len(next.trades) = Len(run.trades) + 1 /\ Len(run.trades) \in Nat
      /\ next.trades[Len(next.trades)] = trade
  <2>1. /\ Len(Append(run.trades, trade)) = Len(run.trades) + 1 /\ Len(run.trades) \in Nat
        /\ Append(run.trades, trade)[Len(run.trades) + 1] = trade
    BY <1>1, AppendedAny
  <2> QED
    BY <1>3, <2>1
<1>5. next.trades # <<>>
  BY <1>4
<1>6. Forced(next) <=> reason \in {"EOD", "end_of_data"}
  BY <1>3, <1>4, <1>5 DEF Forced
<1>7. SubSeq(next.fills, 1, Len(next.fills) - 1) = run.fills
  <2>1. /\ Len(Append(run.fills, fill)) = Len(run.fills) + 1 /\ Len(run.fills) \in Nat
        /\ SubSeq(Append(run.fills, fill), 1, Len(run.fills)) = run.fills
    BY <1>1, AppendedAny
  <2>2. Len(next.fills) - 1 = Len(run.fills)
    BY <1>2, <2>1
  <2> QED
    BY <1>2, <2>1, <2>2
<1> QED
  BY <1>6, <1>7 DEF Unforced

\* The last turn of a run beside the same turn of one that has a bar more.
LEMMA LastButOne ==
  ASSUME history \in Seq(Inputs), NEW n \in Nat \ {0}, n + 1 <= Known, NEW a, NEW b, Alike(a, b),
         LoopInv(a, n - 1, n + 1), LoopInv(b, n - 1, n)
  PROVE  Continues(Iteration(a, n, n + 1), Unforced(Iteration(b, n, n)), n + 1)
<1>1. /\ n \in Nat /\ n + 1 \in Nat /\ n \in 1..n /\ n \in 1..(n + 1) /\ n < n + 1 /\ ~(n < n)
      /\ n # n + 1 /\ n \in 1..Known /\ n <= Known /\ n - 1 < n
  BY KnownType
<1>2. /\ a \in RunShape /\ b \in RunShape /\ a.fills = b.fills /\ (a.open = Flat <=> b.open = Flat)
  BY DEF LoopInv, Alike
<1>3. Continues(a, b.fills, n + 1)
  BY <1>1, <1>2, Continued
<1>4. Iteration(a, n, n + 1) \in RunShape /\ LoopInv(Iteration(b, n, n), n, n)
  <2>1. LoopInv(Iteration(a, n, n + 1), n, n + 1)
    BY <1>1, IterationKeeps
  <2>2. LoopInv(Iteration(b, n, n), n, n)
    BY <1>1, IterationKeeps
  <2> QED
    BY <2>1, <2>2 DEF LoopInv
<1>5. CASE a.open = Flat
  <2>1. Iteration(b, n, n) = b
    BY <1>1, <1>2, <1>5, IterationIs
  <2>2. Unforced(b) = b.fills
    BY <1>1, NotForced
  <2>3. CASE Signal(n) \in Directions
    <3>1. Iteration(a, n, n + 1) = OpenTrade(a, n, n + 1)
      BY <1>1, <1>5, <2>3, IterationIs
    <3>2. \/ OpenTrade(a, n, n + 1) = a
          \/ \E fill \in Executed :
               fill.at = n + 1 /\ OpenTrade(a, n, n + 1).fills = Append(a.fills, fill)
      BY <1>1, <1>2, OpenFill
    <3>3. ASSUME NEW fill \in Executed, fill.at = n + 1,
                 Iteration(a, n, n + 1).fills = Append(a.fills, fill)
          PROVE  Continues(Iteration(a, n, n + 1), b.fills, n + 1)
      <4>1. fill.at >= n + 1
        BY <1>1, <3>3
      <4> QED
        BY <1>1, <1>3, <1>4, <3>3, <4>1, ContinuesOn
    <3> QED
      BY <1>3, <2>1, <2>2, <3>1, <3>2, <3>3
  <2>4. CASE Signal(n) \notin Directions
    <3>1. Iteration(a, n, n + 1) = a
      BY <1>1, <1>5, <2>4, IterationIs
    <3> QED
      BY <1>3, <2>1, <2>2, <3>1
  <2> QED
    BY <2>3, <2>4
<1>6. CASE a.open # Flat
  <2>1. b.open # Flat /\ a.open.plan = b.open.plan /\ a.open.direction = b.open.direction
    BY <1>2, <1>6 DEF Alike
  <2>2. /\ DueAt(a.open.exit, n) <=> DueAt(b.open.exit, n)
        /\ DueAt(b.open.exit, n) => a.open.exit = b.open.exit /\ b.open.exit.reason \in Reasons
    BY <1>1, <1>6, DueAlike
  <2>3. CASE a.open.plan # <<>> /\ DueAt(a.open.exit, n)
    <3>1. Iteration(a, n, n + 1) = CloseTrade(a, n, a.open.exit.price, a.open.exit.reason)
      BY <1>1, <1>6, <2>3, IterationIs
    <3>2. Iteration(b, n, n) = CloseTrade(b, n, b.open.exit.price, b.open.exit.reason)
      BY <1>1, <2>1, <2>2, <2>3, IterationIs
    <3>3. a.open.exit = b.open.exit /\ b.open.exit.reason \notin {"EOD", "end_of_data"}
      BY <2>2, <2>3 DEF Reasons
    <3>4. Iteration(a, n, n + 1).fills = Iteration(b, n, n).fills
      BY <1>6, <3>1, <3>2, <3>3, CloseAlike DEF Alike
    <3>5. b.open.exit.price \in Int
      BY <1>2, <2>1, <2>2, <2>3, OpenIs DEF Exits, DueAt
    <3>6. Unforced(Iteration(b, n, n)) = Iteration(b, n, n).fills
      BY <1>1, <1>2, <2>1, <3>2, <3>3, <3>5, UnforcedClose
    <3> QED
      BY <1>1, <1>4, <3>4, <3>6, Continued
  <2>4. CASE ~(a.open.plan # <<>> /\ DueAt(a.open.exit, n))
    <3>1. PICK reason \in {"EOD", "end_of_data"} :
            reason = IF b.open.plan # <<>> THEN "EOD" ELSE "end_of_data"
      OBVIOUS
    <3>2. ~(b.open.plan # <<>> /\ DueAt(b.open.exit, n))
      BY <2>1, <2>2, <2>4
    <3>3. Iteration(b, n, n) = CloseTrade(b, n, Bar(n).close, reason)
      BY <1>1, <2>1, <3>1, <3>2, IterationIs
    <3>4. Bar(n).close \in Int
      BY <1>1, InputFacts
    <3>5. Unforced(Iteration(b, n, n)) = b.fills
      BY <1>1, <1>2, <2>1, <3>3, <3>4, UnforcedClose
    <3>6. CASE a.open.plan = <<>> /\ Signal(n) \notin {a.open.direction, "WARMUP"}
      <4>1. Iteration(a, n, n + 1) = CloseTrade(a, n + 1, Bar(n + 1).open, "signal_reversal")
        BY <1>1, <1>6, <3>6, IterationIs
      <4>2. Bar(n + 1).open \in Int
        <5>1. n + 1 \in 1..Known
          BY <1>1, KnownType
        <5> QED
          BY <5>1, InputFacts
      <4>3. PICK fill \in Executed :
              fill.at = n + 1 /\ Iteration(a, n, n + 1).fills = Append(a.fills, fill)
        BY <1>1, <1>2, <1>6, <4>1, <4>2, CloseFill
      <4>4. fill.at >= n + 1
        BY <1>1, <4>3
      <4> QED
        BY <1>1, <1>3, <1>4, <3>5, <4>3, <4>4, ContinuesOn
    <3>7. CASE ~(a.open.plan = <<>> /\ Signal(n) \notin {a.open.direction, "WARMUP"})
      <4>1. Iteration(a, n, n + 1) = a
        BY <1>1, <1>6, <2>4, <3>7, IterationIs
      <4> QED
        BY <1>3, <3>5, <4>1
    <3> QED
      BY <3>6, <3>7
  <2> QED
    BY <2>3, <2>4
<1> QED
  BY <1>5, <1>6

\* Nothing was filled before the first bar.
LEMMA FirstBar ==
  ASSUME history \in Seq(Inputs), 1 <= Known
  PROVE  Continues(Fresh, Unforced(Fresh), 1)
<1>1. Fresh.trades = <<>> /\ Fresh.fills = <<>> /\ Len(Fresh.fills) = 0
  BY DEF Fresh
<1>2. Fresh \in RunShape
  BY FreshInv DEF LoopInv
<1>3. Unforced(Fresh) = <<>>
  BY <1>1 DEF Unforced, Forced
<1> QED
  BY <1>1, <1>2, <1>3 DEF Continues

\* Whatever a later bar brings, it changes nothing of what the run over the bars before it did,
\* for any prices, signals, plans and lengths.
THEOREM HindsightChangesNothing == EngineSpec => []NoHindsight
<1>1. history \in Seq(Inputs) => NoHindsight
  <2> SUFFICES ASSUME history \in Seq(Inputs), Known > 0
               PROVE  SubSeq(Result(Known).fills, 1,
                             Cardinality({f \in DOMAIN Result(Known).fills : Result(Known).fills[f].at < Known}))
                        = Unforced(Result(Known - 1))
    BY DEF NoHindsight
  <2>1. PICK n \in Nat : n + 1 = Known /\ n = Known - 1
    <3>1. Known \in Nat
      BY KnownType
    <3> QED
      BY <3>1
  <2>2. /\ n + 1 \in Nat \ {0} /\ n + 1 <= Known /\ n <= Known /\ (n + 1) - 1 = n
        /\ n \in 0..(n + 1) /\ n + 1 \in 1..(n + 1) /\ n + 1 \in Nat /\ 1 <= Known
    BY <2>1
  <2>3. LoopInv(RunTo(n, n + 1), n, n + 1)
    BY <2>2, LoopHolds
  <2>4. Result(n + 1) = Iteration(RunTo(n, n + 1), n + 1, n + 1)
    BY <2>2, TurnByTurn DEF Result
  <2>5. Continues(RunTo(n, n + 1), Unforced(Result(n)), n + 1)
    <3>1. CASE n = 0
      <4>1. RunTo(n, n + 1) = Fresh /\ Result(n) = Fresh
        BY <2>2, <3>1, TurnByTurn DEF Result
      <4> QED
        BY <2>2, <3>1, <4>1, FirstBar
    <3>2. CASE n # 0
      <4>1. n \in Nat \ {0} /\ n - 1 \in 0..n /\ n - 1 \in 0..(n + 1) /\ n \in 1..n /\ n \in 1..(n + 1)
        BY <3>2
      <4>2. Alike(RunTo(n - 1, n + 1), RunTo(n - 1, n))
        BY <2>2, <4>1, RunsAlike
      <4>3. LoopInv(RunTo(n - 1, n + 1), n - 1, n + 1) /\ LoopInv(RunTo(n - 1, n), n - 1, n)
        BY <2>2, <4>1, LoopHolds
      <4>4. /\ RunTo(n, n + 1) = Iteration(RunTo(n - 1, n + 1), n, n + 1)
            /\ Result(n) = Iteration(RunTo(n - 1, n), n, n)
        BY <2>2, <4>1, TurnByTurn DEF Result
      <4> QED
        BY <2>2, <4>1, <4>2, <4>3, <4>4, LastButOne
    <3> QED
      BY <3>1, <3>2
  <2>6. Continues(Result(n + 1), Unforced(Result(n)), n + 1)
    BY <2>2, <2>3, <2>4, <2>5, LastTurn
  <2>7. SubSeq(Result(n + 1).fills, 1,
               Cardinality({f \in DOMAIN Result(n + 1).fills : Result(n + 1).fills[f].at < n + 1}))
          = Unforced(Result(n))
    BY <2>2, <2>6, PrefixIs
  <2> QED
    BY <2>1, <2>7
<1>2. EngineSpec => [](history \in Seq(Inputs))
  BY HistoryType
<1> QED
  BY <1>1, <1>2, PTL

=============================================================================
