-------------------------- MODULE SquareOffProofs --------------------------
(***************************************************************************)
(* For any processes, halts, instruments, plans, limits and failures: the  *)
(* claim rows implement HaltLease, no broker exceeds the size limit, and   *)
(* what an engaged halt and a completed square-off say is true.            *)
(***************************************************************************)
EXTENDS SquareOffProps, TLAPS

AttemptAges == 0..AttemptLimit

Waiting == [at: {"claiming", "failing"}, event: Events, age: AttemptAges]
Closing == [at: {"closing"}, event: Events, age: AttemptAges, todo: SUBSET Instruments,
            failed: BOOLEAN]
Marking == [at: {"marking"}, event: Events, age: AttemptAges, reconciled: BOOLEAN,
            verdict: RowStatus]
Submitting == [at: {"submitting"}, inst: Instruments, side: {"BUY", "SELL"}]
Timed == Waiting \union Closing \union Marking
Tasks == {Idle} \union Submitting \union Timed

Shapes ==
  /\ halt.id \in 0..MaxHalts
  /\ rows \in [Events -> [status: RowStatus, age: Nat]]
  /\ task \in [Procs -> Tasks]

\* A working process holds a claim as old as its attempt, and nobody else does.
Held ==
  \A p \in Procs, e \in Events : Attempting(p, e) =>
    /\ rows[e].status = "IN_PROGRESS"
    /\ rows[e].age = task[p].age
    /\ \A q \in Procs : Attempting(q, e) => q = p

\* The claim rows alone do not tell who works: the refinement needs to know that a claim
\* whose holder still works is too young to be taken.
LeaseInv == Shapes /\ Held

-----------------------------------------------------------------------------
LEMMA TimedShape ==
  ASSUME NEW t \in Tasks
  PROVE  /\ t \in Timed <=> "age" \in DOMAIN t
         /\ t \in Timed => /\ t.event \in Events /\ t.age \in AttemptAges
                           /\ t.at \in {"claiming", "failing", "closing", "marking"}
                           /\ "at" \in DOMAIN t
         /\ t.at \in {"claiming", "failing", "closing", "marking"} => t \in Timed
         /\ t.at = "closing" => t \in Closing
         /\ t.at = "marking" => t \in Marking
         /\ t.at \in {"claiming", "failing"} => t \in Waiting
<1>1. CASE t = Idle
  BY <1>1 DEF Idle, Timed, Waiting, Closing, Marking
<1>2. CASE t \in Submitting
  BY <1>2 DEF Submitting, Timed, Waiting, Closing, Marking
<1>3. CASE t \in Waiting
  BY <1>3 DEF Timed, Waiting
<1>4. CASE t \in Closing
  BY <1>4 DEF Timed, Closing
<1>5. CASE t \in Marking
  BY <1>5 DEF Timed, Marking
<1> QED
  BY <1>1, <1>2, <1>3, <1>4, <1>5 DEF Timed, Tasks

LEMMA InitLease == Init => LeaseInv
<1>1. ASSUME Init PROVE Shapes
  <2>1. MaxHalts \in Nat /\ EodEvent \in Events
    BY ConstantsAssumption DEF Events, EodEvent
  <2>2. rows \in [Events -> [status: RowStatus, age: Nat]]
    BY <1>1 DEF Init, RowStatus
  <2> QED
    BY <1>1, <2>1, <2>2 DEF Init, Shapes, Tasks
<1>2. ASSUME Init PROVE Held
  BY <1>2 DEF Init, Held, Attempting, Working, Idle
<1> QED
  BY <1>1, <1>2 DEF LeaseInv

-----------------------------------------------------------------------------
(* What a step does to the claims, by the kind of step.                    *)

WorkerMap == [e \in Events |-> WorkersOf(e)]

\* What the refinement asks of a step.
Refines == LeaseInv' /\ (Lease!Next \/ WorkerMap' = WorkerMap)

\* Nobody's attempt begins or ends.
LEMMA NobodyMoves ==
  ASSUME LeaseInv, Shapes', rows' = rows,
         \A q \in Procs : task'[q] # task[q] =>
            /\ \A e \in Events : Attempting(q, e)' <=> Attempting(q, e)
            /\ Working(q) => task'[q].age = task[q].age
  PROVE  Refines
<1>1. \A q \in Procs, e \in Events : Attempting(q, e)' <=> Attempting(q, e)
  BY DEF Attempting, Working
<1>2. \A q \in Procs : Working(q) => task'[q].age = task[q].age
  OBVIOUS
<1>3. Held'
  <2> SUFFICES ASSUME NEW p \in Procs, NEW e \in Events, Attempting(p, e)'
               PROVE  /\ rows'[e].status = "IN_PROGRESS"
                      /\ rows'[e].age = task'[p].age
                      /\ \A q \in Procs : Attempting(q, e)' => q = p
    BY DEF Held
  <2>1. Attempting(p, e) /\ Working(p)
    BY <1>1 DEF Attempting
  <2> QED
    BY <2>1, <1>1, <1>2 DEF LeaseInv, Held
<1>4. \A e \in Events : WorkersOf(e)' = WorkersOf(e)
  <2> TAKE e \in Events
  <2>1. {p \in Procs : Attempting(p, e)'} = {p \in Procs : Attempting(p, e)}
    BY <1>1
  <2> QED
    BY <2>1 DEF WorkersOf
<1> QED
  BY <1>3, <1>4 DEF Refines, WorkerMap, LeaseInv

\* The attempt of p at e ends, and the row becomes final exactly when it is COMPLETED.
LEMMA AttemptEnds ==
  ASSUME LeaseInv, Shapes', NEW p \in Procs, NEW e \in Events, Attempting(p, e),
         ~Working(p)',
         \A q \in Procs \ {p} : task'[q] = task[q],
         \A f \in Events \ {e} : rows'[f] = rows[f]
  PROVE  Refines
<1>1. \A q \in Procs, f \in Events : Attempting(q, f)' <=> Attempting(q, f) /\ q # p
  BY DEF Attempting, Working
<1>2. \A q \in Procs : Attempting(q, e) => q = p
  BY DEF LeaseInv, Held
<1>3. Held'
  <2> SUFFICES ASSUME NEW q \in Procs, NEW f \in Events, Attempting(q, f)'
               PROVE  /\ rows'[f].status = "IN_PROGRESS"
                      /\ rows'[f].age = task'[q].age
                      /\ \A r \in Procs : Attempting(r, f)' => r = q
    BY DEF Held
  <2>1. Attempting(q, f) /\ q # p /\ f # e
    BY <1>1, <1>2
  <2> QED
    BY <2>1, <1>1 DEF LeaseInv, Held
<1>4. WorkersOf(e) = {p} /\ WorkersOf(e)' \in {{}, Done}
  <2>1. {q \in Procs : Attempting(q, e)} = {p}
    BY <1>2
  <2>2. {q \in Procs : Attempting(q, e)'} = {}
    BY <1>1, <1>2
  <2> QED
    BY <2>1, <2>2 DEF WorkersOf
<1>5. \A f \in Events \ {e} : WorkersOf(f)' = WorkersOf(f)
  <2> TAKE f \in Events \ {e}
  <2>1. Attempting(p, f)' <=> Attempting(p, f)
    BY <1>1 DEF Attempting
  <2>2. {q \in Procs : Attempting(q, f)'} = {q \in Procs : Attempting(q, f)}
    BY <1>1, <2>1
  <2> QED
    BY <2>2 DEF WorkersOf
<1>6. WorkerMap' = [WorkerMap EXCEPT ![e] = {}] \/ WorkerMap' = [WorkerMap EXCEPT ![e] = Done]
  BY <1>4, <1>5 DEF WorkerMap
<1>7. Lease!Release(e, p) \/ Lease!Resolve(e, p)
  BY <1>4, <1>6 DEF Lease!Release, Lease!Resolve, WorkerMap
<1>8. WorkerMap' # WorkerMap => Lease!Next
  BY <1>7 DEF Lease!Next, WorkerMap
<1> QED
  BY <1>3, <1>8 DEF Refines, LeaseInv

\* Only what p does changes, and it neither starts nor ends an attempt.
LEMMA OneMoves ==
  ASSUME LeaseInv, UNCHANGED <<rows, halt>>, NEW p \in Procs, NEW t \in Tasks,
         task' = [task EXCEPT ![p] = t],
         \A e \in Events :
           (t.at \in {"closing", "failing", "marking"} /\ t.event = e) <=> Attempting(p, e),
         Working(p) => t.age = task[p].age
  PROVE  Refines
<1>1. Shapes'
  BY DEF LeaseInv, Shapes
<1>2. task'[p] = t /\ \A q \in Procs \ {p} : task'[q] = task[q]
  BY DEF LeaseInv, Shapes
<1>3. \A e \in Events : Attempting(p, e)' <=> Attempting(p, e)
  BY <1>2 DEF Attempting, Working
<1> QED
  BY <1>1, <1>2, <1>3, NobodyMoves

\* Nor does a step that leaves tasks and rows alone.
LEMMA TasksAlone ==
  ASSUME LeaseInv, UNCHANGED <<rows, task>>, halt'.id \in 0..MaxHalts
  PROVE  Refines
<1>1. Shapes'
  BY DEF LeaseInv, Shapes
<1> QED
  BY <1>1, NobodyMoves

-----------------------------------------------------------------------------
(* The steps.                                                              *)

LEMMA TradeStep ==
  ASSUME LeaseInv, NEW p \in Procs, Trade(p)
  PROVE  Refines
<1>1. ASSUME NEW i \in Instruments, NEW side \in {"BUY", "SELL"}, StartEntry(p, i, side)
      PROVE  Refines
  <2> DEFINE t == [at |-> "submitting", inst |-> i, side |-> side]
  <2>1. t \in Tasks /\ t.at = "submitting"
    BY DEF Tasks, Submitting
  <2>2. /\ task' = [task EXCEPT ![p] = t] /\ UNCHANGED <<rows, halt>>
        /\ ~Working(p)
    BY <1>1 DEF StartEntry, Working, Idle
  <2> QED
    BY <2>1, <2>2, OneMoves DEF Attempting
<1>2. ASSUME SubmitEntry(p) PROVE Refines
  <2>1. Idle \in Tasks /\ Idle.at = "idle"
    BY DEF Tasks, Idle
  <2>2. /\ task' = [task EXCEPT ![p] = Idle] /\ UNCHANGED <<rows, halt>>
        /\ ~Working(p)
    BY <1>2 DEF SubmitEntry, Working
  <2> QED
    BY <2>1, <2>2, OneMoves DEF Attempting
<1> QED
  BY <1>1, <1>2 DEF Trade

LEMMA MonitorStep ==
  ASSUME LeaseInv, NEW p \in Procs, Monitor(p)
  PROVE  Refines
<1>1. UNCHANGED <<rows, task>> /\ halt' = halt
  BY DEF Monitor, MonitorExit
<1> QED
  BY <1>1, TasksAlone DEF LeaseInv, Shapes

LEMMA SwitchStep ==
  ASSUME LeaseInv, Engage \/ Reset
  PROVE  Refines
<1>1. UNCHANGED <<rows, task>>
  BY DEF Engage, Reset
<1>2. halt'.id \in 0..MaxHalts
  <2>1. CASE Engage
    BY <2>1, ConstantsAssumption DEF Engage, LeaseInv, Shapes
  <2>2. CASE Reset
    <3>1. halt'.id = halt.id
      BY <2>2 DEF Reset
    <3> QED
      BY <3>1 DEF LeaseInv, Shapes
  <2> QED
    BY <2>1, <2>2
<1> QED
  BY <1>1, <1>2, TasksAlone

\* A check begins; it holds nothing before its claim.
LEMMA CheckStep ==
  ASSUME LeaseInv, NEW p \in Procs, CheckHalt(p) \/ StartEod(p)
  PROVE  Refines
<1>1. PICK e \in Events :
        task' = [task EXCEPT ![p] = [at |-> "claiming", event |-> e, age |-> 0]]
  <2>1. halt.id \in Events /\ EodEvent \in Events
    BY ConstantsAssumption DEF LeaseInv, Shapes, Events, EodEvent
  <2> QED
    BY <2>1 DEF CheckHalt, StartEod
<1> DEFINE t == [at |-> "claiming", event |-> e, age |-> 0]
<1>2. t \in Tasks /\ t.at = "claiming"
  BY ConstantsAssumption DEF Tasks, Timed, Waiting, AttemptAges
<1>3. ~Working(p) /\ UNCHANGED <<rows, halt>>
  BY DEF CheckHalt, StartEod, Working, Idle
<1> QED
  BY <1>1, <1>2, <1>3, OneMoves DEF Attempting

LEMMA RefusedStep ==
  ASSUME LeaseInv, NEW p \in Procs, Refused(p)
  PROVE  Refines
<1>1. Idle \in Tasks /\ Idle.at = "idle"
  BY DEF Tasks, Idle
<1>2. task' = [task EXCEPT ![p] = Idle] /\ UNCHANGED <<rows, halt>> /\ ~Working(p)
  BY DEF Refused, Working
<1> QED
  BY <1>1, <1>2, OneMoves DEF Attempting

\* A claim is granted only while nobody works on the event: an IN_PROGRESS row of a live
\* attempt is too young.
LEMMA ClaimStep ==
  ASSUME LeaseInv, NEW p \in Procs, Claim(p)
  PROVE  Refines
<1>1. /\ task[p] \in Waiting /\ task[p].at = "claiming" /\ ~Working(p)
      /\ task[p].event \in Events /\ task[p].age \in AttemptAges
  BY TimedShape DEF Claim, LeaseInv, Shapes, Working, Waiting
<1>0. PICK e \in Events, a \in AttemptAges : task[p].event = e /\ task[p].age = a
  BY <1>1
<1> DEFINE t == [at |-> "closing", event |-> e, age |-> a, todo |-> OpenIn(p),
                 failed |-> FALSE]
<1>2. t \in Closing /\ t \in Tasks /\ t.at = "closing" /\ t.event = e /\ t.age = a
  BY DEF Closing, Tasks, Timed, OpenIn
<1>3. /\ rows' = [rows EXCEPT ![e] = [status |-> "IN_PROGRESS", age |-> a]]
      /\ task' = [task EXCEPT ![p] = t] /\ halt' = halt
  BY <1>0 DEF Claim
<1>4. Shapes'
  <2>1. [status |-> "IN_PROGRESS", age |-> a] \in [status: RowStatus, age: Nat]
    BY <1>1 DEF RowStatus, AttemptAges
  <2> QED
    BY <1>1, <1>2, <1>3, <2>1 DEF LeaseInv, Shapes
<1>5. \A q \in Procs : ~Attempting(q, e)
  <2> SUFFICES ASSUME NEW q \in Procs, Attempting(q, e) PROVE FALSE
    OBVIOUS
  <2>1. rows[e].status = "IN_PROGRESS" /\ rows[e].age = task[q].age
    BY <1>1 DEF LeaseInv, Held
  <2>2. task[q].age \in AttemptAges
    BY TimedShape DEF LeaseInv, Shapes, Attempting, Working
  <2>3. task[q].age - a > Staleness(e)
    BY <1>0, <2>1 DEF Claim, MayClaim
  <2> QED
    BY <2>2, <2>3, ConstantsAssumption, AttemptsEndInTime DEF AttemptAges, Staleness
<1>6. rows[e].status # "COMPLETED"
  BY <1>0 DEF Claim, MayClaim
<1>7. task'[p] = t /\ \A q \in Procs \ {p} : task'[q] = task[q]
  BY <1>3 DEF LeaseInv, Shapes
<1>8. \A q \in Procs, f \in Events :
        Attempting(q, f)' <=> Attempting(q, f) \/ (q = p /\ f = e)
  BY <1>1, <1>2, <1>7 DEF Attempting, Working
<1>9. \A f \in Events : f # e => rows'[f] = rows[f]
  BY <1>1, <1>3 DEF LeaseInv, Shapes
<1>10. Held'
  <2> SUFFICES ASSUME NEW q \in Procs, NEW f \in Events, Attempting(q, f)'
               PROVE  /\ rows'[f].status = "IN_PROGRESS"
                      /\ rows'[f].age = task'[q].age
                      /\ \A r \in Procs : Attempting(r, f)' => r = q
    BY DEF Held
  <2>1. CASE f = e
    BY <2>1, <1>1, <1>2, <1>3, <1>5, <1>7, <1>8 DEF LeaseInv, Shapes
  <2>2. CASE f # e
    <3>1. Attempting(q, f) /\ q # p
      BY <2>2, <1>1, <1>8 DEF Attempting
    <3> QED
      BY <3>1, <2>2, <1>7, <1>8, <1>9 DEF LeaseInv, Held
  <2> QED
    BY <2>1, <2>2
<1>11. WorkersOf(e) = {} /\ WorkersOf(e)' = {p}
  <2>1. {q \in Procs : Attempting(q, e)} = {}
    BY <1>5
  <2>2. {q \in Procs : Attempting(q, e)'} = {p}
    BY <1>1, <1>5, <1>8
  <2> QED
    BY <1>6, <2>1, <2>2 DEF WorkersOf
<1>12. \A f \in Events \ {e} : WorkersOf(f)' = WorkersOf(f)
  <2> TAKE f \in Events \ {e}
  <2>1. {q \in Procs : Attempting(q, f)'} = {q \in Procs : Attempting(q, f)}
    BY <1>8
  <2> QED
    BY <2>1, <1>9 DEF WorkersOf
<1>13. Lease!Acquire(e, p)
  BY <1>1, <1>11, <1>12 DEF Lease!Acquire, WorkerMap
<1>14. WorkerMap' # WorkerMap => Lease!Next
  BY <1>13 DEF Lease!Next, WorkerMap
<1> QED
  BY <1>1, <1>4, <1>10, <1>14 DEF Refines, LeaseInv

\* p goes on with its attempt at e: it is busy with another part of it.
LEMMA GoesOn ==
  ASSUME LeaseInv, UNCHANGED <<rows, halt>>, NEW p \in Procs, NEW t \in Tasks, Working(p),
         task' = [task EXCEPT ![p] = t],
         t.at \in {"closing", "failing", "marking"},
         t.event = task[p].event, t.age = task[p].age
  PROVE  Refines
BY OneMoves DEF Attempting

LEMMA CloseStep ==
  ASSUME LeaseInv, NEW p \in Procs, NEW i \in Instruments,
         CloseOne(p, i) \/ CloseRaises(p, i)
  PROVE  Refines
<1>1. /\ task[p] \in Closing /\ task[p].at = "closing" /\ Working(p)
      /\ UNCHANGED <<rows, halt>>
  BY TimedShape DEF CloseOne, CloseRaises, LeaseInv, Shapes, Working
<1>2. CASE CloseOne(p, i)
  <2>1. PICK left \in SUBSET Instruments, failed \in BOOLEAN :
          task' = [task EXCEPT ![p] = [task[p] EXCEPT !.todo = left, !.failed = failed]]
    <3>1. task[p].todo \ {i} \in SUBSET Instruments /\ task[p].failed \in BOOLEAN
      BY <1>1 DEF Closing
    <3>2. CASE task' = [task EXCEPT ![p].todo = @ \ {i}]
      <4> DEFINE left == task[p].todo \ {i}
      <4>1. task' = [task EXCEPT ![p] = [task[p] EXCEPT !.todo = left]]
        BY <3>2
      <4>2. [task[p] EXCEPT !.todo = left]
              = [task[p] EXCEPT !.todo = left, !.failed = task[p].failed]
        BY <1>1 DEF Closing
      <4>3. left \in SUBSET Instruments /\ task[p].failed \in BOOLEAN
        BY <3>1
      <4> HIDE DEF left
      <4> QED
        BY <4>1, <4>2, <4>3
    <3>3. CASE task' = [task EXCEPT ![p].todo = @ \ {i}, ![p].failed = TRUE]
      <4>1. task' = [task EXCEPT ![p] = [task[p] EXCEPT !.todo = task[p].todo \ {i},
                                                         !.failed = TRUE]]
        BY <1>1, <3>3 DEF Closing, LeaseInv, Shapes
      <4> QED
        BY <3>1, <4>1
    <3> QED
      BY <1>2, <3>2, <3>3 DEF CloseOne
  <2> DEFINE t == [task[p] EXCEPT !.todo = left, !.failed = failed]
  <2>2. t \in Closing /\ t.at = "closing" /\ t.event = task[p].event /\ t.age = task[p].age
    BY <1>1 DEF Closing
  <2>3. t \in Tasks
    BY <2>2 DEF Tasks, Timed
  <2> QED
    BY <1>1, <2>1, <2>2, <2>3, GoesOn
<1>3. CASE CloseRaises(p, i)
  <2> DEFINE t == [at |-> "failing", event |-> task[p].event, age |-> task[p].age]
  <2>1. t \in Tasks
    BY <1>1 DEF Closing, Tasks, Timed, Waiting
  <2>2. task' = [task EXCEPT ![p] = t]
    BY <1>3 DEF CloseRaises
  <2> QED
    BY <1>1, <2>1, <2>2, GoesOn
<1> QED
  BY <1>2, <1>3

LEMMA JudgeStep ==
  ASSUME LeaseInv, NEW p \in Procs, Judge(p)
  PROVE  Refines
<1>1. /\ task[p] \in Closing /\ task[p].at = "closing" /\ Working(p)
      /\ UNCHANGED <<rows, halt>>
  BY TimedShape DEF Judge, LeaseInv, Shapes, Working
<1>2. PICK reconciled \in BOOLEAN, verdict \in RowStatus :
        task' = [task EXCEPT ![p] = [at |-> "marking", event |-> task[p].event,
                                     age |-> task[p].age, reconciled |-> reconciled,
                                     verdict |-> verdict]]
  <2>1. \A e, failed, flat, divergent : Verdict(e, failed, flat, divergent) \in RowStatus
    BY DEF Verdict, RowStatus
  <2> QED
    BY <2>1 DEF Judge
<1> DEFINE t == [at |-> "marking", event |-> task[p].event, age |-> task[p].age,
                 reconciled |-> reconciled, verdict |-> verdict]
<1>3. t \in Tasks
  BY <1>1 DEF Closing, Tasks, Timed, Marking
<1> QED
  BY <1>1, <1>2, <1>3, GoesOn

\* The attempt is over, whether or not its mark is written.
LEMMA MarkStep ==
  ASSUME LeaseInv, NEW p \in Procs, Mark(p) \/ MarkLost(p)
  PROVE  Refines
<1>1. PICK e \in Events : task[p].event = e
  BY TimedShape DEF Mark, MarkLost, LeaseInv, Shapes
<1>2. Attempting(p, e)
  BY <1>1 DEF Mark, MarkLost, Attempting, Working
<1>3. task' = [task EXCEPT ![p] = Idle] /\ halt' = halt
  BY DEF Mark, MarkLost
<1>4. /\ task' \in [Procs -> Tasks]
      /\ ~Working(p)' /\ \A q \in Procs \ {p} : task'[q] = task[q]
  BY <1>3 DEF LeaseInv, Shapes, Tasks, Idle, Working
<1>5. /\ rows' \in [Events -> [status: RowStatus, age: Nat]]
      /\ \A f \in Events \ {e} : rows'[f] = rows[f]
  <2>1. CASE Mark(p)
    <3>1. PICK status \in RowStatus : rows' = [rows EXCEPT ![e] = MarkedRow(e, status)]
      <4>1. task[p].at = "marking" => task[p].verdict \in RowStatus
        BY TimedShape DEF LeaseInv, Shapes, Marking
      <4> QED
        BY <1>1, <2>1, <4>1 DEF Mark, RowStatus
    <3>2. MarkedRow(e, status) \in [status: RowStatus, age: Nat]
      BY DEF MarkedRow, LeaseInv, Shapes
    <3> QED
      BY <3>1, <3>2 DEF LeaseInv, Shapes
  <2>2. CASE MarkLost(p)
    BY <2>2 DEF MarkLost, LeaseInv, Shapes
  <2> QED
    BY <2>1, <2>2
<1>6. Shapes'
  BY <1>3, <1>4, <1>5 DEF LeaseInv, Shapes
<1> QED
  BY <1>2, <1>4, <1>5, <1>6, AttemptEnds

\* A process that dies leaves its claim IN_PROGRESS.
LEMMA CrashStep ==
  ASSUME LeaseInv, NEW p \in Procs, Crash(p)
  PROVE  Refines
<1>1. task' = [task EXCEPT ![p] = Idle] /\ UNCHANGED <<rows, halt>>
  BY DEF Crash
<1>2. Idle \in Tasks /\ Idle.at = "idle"
  BY DEF Tasks, Idle
<1>3. CASE Working(p)
  <2>1. PICK e \in Events : Attempting(p, e)
    BY <1>3, TimedShape DEF LeaseInv, Shapes, Attempting, Working
  <2>2. Shapes' /\ ~Working(p)' /\ \A q \in Procs \ {p} : task'[q] = task[q]
    BY <1>1, <1>2 DEF LeaseInv, Shapes, Working
  <2> QED
    BY <1>1, <2>1, <2>2, AttemptEnds
<1>4. CASE ~Working(p)
  BY <1>1, <1>2, <1>4, OneMoves DEF Attempting
<1> QED
  BY <1>3, <1>4

\* Attempts and the claims they hold grow older together.
LEMMA TimeStep ==
  ASSUME LeaseInv, TimePasses
  PROVE  Refines
<1> DEFINE Aged(t) == [t EXCEPT !.age = t.age + 1]
<1>1. ASSUME NEW t \in Timed, t.age < AttemptLimit
      PROVE  /\ Aged(t) \in Timed /\ Aged(t).at = t.at /\ Aged(t).event = t.event
             /\ Aged(t).age = t.age + 1
  <2>1. t.age + 1 \in AttemptAges
    BY <1>1, ConstantsAssumption DEF Timed, Waiting, Closing, Marking, AttemptAges
  <2>2. CASE t \in Waiting
    BY <2>1, <2>2 DEF Timed, Waiting
  <2>3. CASE t \in Closing
    BY <2>1, <2>3 DEF Timed, Closing
  <2>4. CASE t \in Marking
    BY <2>1, <2>4 DEF Timed, Marking
  <2> QED
    BY <1>1, <2>2, <2>3, <2>4 DEF Timed
<1>2. \A q \in Procs : task'[q] = IF "age" \in DOMAIN task[q] THEN Aged(task[q]) ELSE task[q]
  BY DEF TimePasses
<1>3. \A q \in Procs :
        /\ task[q] \in Timed => /\ task[q].age < AttemptLimit
                                /\ task'[q] = Aged(task[q])
        /\ task[q] \notin Timed => task'[q] = task[q]
  BY <1>2, TimedShape DEF TimePasses, LeaseInv, Shapes
<1>4. \A q \in Procs : task'[q] \in Tasks
  BY <1>1, <1>3 DEF Tasks, LeaseInv, Shapes
<1>5. \A e \in Events :
        /\ rows'[e] \in [status: RowStatus, age: Nat] /\ rows'[e].status = rows[e].status
        /\ rows[e].status = "IN_PROGRESS" => rows'[e].age = Older(rows[e].age)
  <2> TAKE e \in Events
  <2>1. rows[e] \in [status: RowStatus, age: Nat] /\ Older(rows[e].age) \in Nat
    BY DEF LeaseInv, Shapes, Older
  <2>2. CASE rows[e].status = "IN_PROGRESS"
    <3>1. rows'[e] = [rows[e] EXCEPT !.age = Older(rows[e].age)]
      BY <2>2 DEF TimePasses
    <3> QED
      BY <2>1, <3>1
  <2>3. CASE rows[e].status # "IN_PROGRESS"
    BY <2>1, <2>3 DEF TimePasses
  <2> QED
    BY <2>2, <2>3
<1>6. Shapes'
  <2>1. task' \in [Procs -> Tasks]
    BY <1>4 DEF TimePasses
  <2>2. rows' \in [Events -> [status: RowStatus, age: Nat]]
    BY <1>5 DEF TimePasses
  <2> QED
    BY <2>1, <2>2 DEF TimePasses, LeaseInv, Shapes
<1>7. \A q \in Procs, e \in Events : Attempting(q, e)' <=> Attempting(q, e)
  <2> TAKE q \in Procs, e \in Events
  <2>1. CASE task[q] \in Timed
    BY <2>1, <1>1, <1>3 DEF Attempting, Working
  <2>2. CASE task[q] \notin Timed
    BY <2>2, <1>3 DEF Attempting, Working
  <2> QED
    BY <2>1, <2>2
<1>8. Held'
  <2> SUFFICES ASSUME NEW p \in Procs, NEW e \in Events, Attempting(p, e)'
               PROVE  /\ rows'[e].status = "IN_PROGRESS"
                      /\ rows'[e].age = task'[p].age
                      /\ \A q \in Procs : Attempting(q, e)' => q = p
    BY DEF Held
  <2>1. Attempting(p, e)
    BY <1>7
  <2>2. /\ rows[e].status = "IN_PROGRESS" /\ rows[e].age = task[p].age
        /\ \A q \in Procs : Attempting(q, e) => q = p
    BY <2>1 DEF LeaseInv, Held
  <2>3. task[p] \in Timed
    BY <2>1, TimedShape DEF LeaseInv, Shapes, Attempting, Working
  <2>4. task'[p].age = task[p].age + 1 /\ task[p].age < AttemptLimit /\ task[p].age \in Nat
    <3>1. task[p].age < AttemptLimit /\ task'[p] = Aged(task[p])
      BY <2>3, <1>3
    <3>2. Aged(task[p]).age = task[p].age + 1
      BY <2>3, <3>1, <1>1
    <3>3. task[p].age \in AttemptAges
      BY <2>3, TimedShape DEF LeaseInv, Shapes
    <3> HIDE DEF Aged
    <3> QED
      BY <3>1, <3>2, <3>3, ConstantsAssumption DEF AttemptAges
  <2>5. Older(task[p].age) = task[p].age + 1
    BY <2>4, ConstantsAssumption DEF Older, MaxAge
  <2> QED
    BY <1>5, <1>7, <2>2, <2>4, <2>5
<1>9. \A e \in Events : WorkersOf(e)' = WorkersOf(e)
  <2> TAKE e \in Events
  <2>1. {p \in Procs : Attempting(p, e)'} = {p \in Procs : Attempting(p, e)}
    BY <1>7
  <2> QED
    BY <2>1, <1>5 DEF WorkersOf
<1> QED
  BY <1>6, <1>8, <1>9 DEF Refines, WorkerMap, LeaseInv

LEMMA StutterStep ==
  ASSUME LeaseInv, UNCHANGED vars
  PROVE  Refines
<1>1. UNCHANGED <<rows, task>> /\ halt'.id \in 0..MaxHalts
  BY DEF vars, LeaseInv, Shapes
<1> QED
  BY <1>1, TasksAlone

LEMMA EveryStep ==
  ASSUME LeaseInv, [Next]_vars
  PROVE  Refines
<1>1. ASSUME NEW p \in Procs, Trade(p) \/ Crash(p) PROVE Refines
  BY <1>1, TradeStep, CrashStep
<1>2. ASSUME NEW p \in Runners, Attempt(p) PROVE Refines
  <2>1. p \in Procs
    BY ConstantsAssumption
  <2>2. ASSUME NEW i \in Instruments, CloseOne(p, i) \/ CloseRaises(p, i) PROVE Refines
    BY <2>1, <2>2, CloseStep
  <2> QED
    BY <1>2, <2>1, <2>2, CheckStep, ClaimStep, RefusedStep, JudgeStep, MarkStep DEF Attempt
<1>3. ASSUME NEW p \in Runners, Monitor(p) PROVE Refines
  BY <1>3, MonitorStep, ConstantsAssumption
<1> QED
  BY <1>1, <1>2, <1>3, SwitchStep, TimeStep, StutterStep DEF Next

-----------------------------------------------------------------------------
\* A process that works on an event holds its claim, as old as the attempt, and works on
\* it alone: what claim() and the staleness limits are for.
THEOREM LeaseInvariant == Spec => []LeaseInv
<1>1. LeaseInv /\ [Next]_vars => LeaseInv'
  BY EveryStep DEF Refines
<1> QED
  BY <1>1, InitLease, PTL DEF Spec

\* The claim rows implement HaltLease: for any number of processes and halts, one attempt
\* at a time works on an event, and a COMPLETED event stays COMPLETED.
THEOREM ClaimsImplementLease == Spec => OneAttemptAtATime
<1>1. Init => Lease!Init
  <2> SUFFICES ASSUME Init, NEW e \in Events PROVE WorkersOf(e) = {}
    BY DEF Lease!Init
  <2>1. {p \in Procs : Attempting(p, e)} = {}
    BY DEF Init, Attempting, Working, Idle
  <2>2. rows[e].status # "COMPLETED"
    BY DEF Init
  <2> QED
    BY <2>1, <2>2 DEF WorkersOf
<1>2. LeaseInv /\ [Next]_vars => [Lease!Next]_WorkerMap
  BY EveryStep DEF Refines
<1> QED
  BY <1>1, <1>2, LeaseInvariant, PTL DEF Spec, OneAttemptAtATime, Lease!Spec, WorkerMap

-----------------------------------------------------------------------------
(* The position-size limit.                                                *)

Lots == net \in [Procs -> [Instruments -> Int]]

\* An order that has passed the checks still fits: its process does nothing else before it
\* hands the order to the broker.
RoomLeft ==
  \A p \in Procs, i \in Instruments :
    task[p].at = "submitting" /\ task[p].inst = i => Magnitude(net[p][i]) + 1 <= MaxSize

SizeInv == Lots /\ WithinSizeLimit /\ RoomLeft

LEMMA MagnitudeBounds ==
  ASSUME NEW n \in Int
  PROVE  Magnitude(n) \in Int /\ (n \in {1, -1} => Magnitude(n) = 1)
BY DEF Magnitude

LEMMA AppliedBounds ==
  ASSUME NEW n \in Int, NEW d \in Int
  PROVE  /\ Applied(n, d) \in Int
         /\ Magnitude(Applied(n, d)) <= Magnitude(n) + Magnitude(d)
         /\ d = -n => Applied(n, d) = 0
<1>1. n + d \in Int /\ Magnitude(n + d) <= Magnitude(n) + Magnitude(d)
  BY DEF Magnitude
<1>2. Magnitude(0) <= Magnitude(n) + Magnitude(d)
  BY DEF Magnitude
<1>3. d = -n => n + d = 0
  OBVIOUS
<1> HIDE DEF Magnitude
<1>4. Applied(n, d) = 0 \/ Applied(n, d) = n + d
  BY DEF Applied
<1> QED
  BY <1>1, <1>2, <1>3, <1>4

\* A step of p that leaves it other than submitting, and its broker within the limit.
LEMMA TradedWithin ==
  ASSUME SizeInv, NEW p \in Procs, NEW i, NEW d \in Int,
         net' = [net EXCEPT ![p][i] = Applied(@, d)],
         i \in Instruments => Magnitude(Applied(net[p][i], d)) <= MaxSize,
         task'[p].at # "submitting",
         \A q \in Procs \ {p} : task'[q] = task[q]
  PROVE  SizeInv'
<1>1. \A q \in Procs \ {p} : net'[q] = net[q]
  BY DEF SizeInv, Lots
<1>2. \A j \in Instruments : net'[p][j] = IF j = i THEN Applied(net[p][i], d) ELSE net[p][j]
  BY DEF SizeInv, Lots
<1>3. i \in Instruments => Applied(net[p][i], d) \in Int
  BY AppliedBounds DEF SizeInv, Lots
<1>4. Lots'
  <2>1. CASE i \in Instruments
    <3>1. [net[p] EXCEPT ![i] = Applied(net[p][i], d)] \in [Instruments -> Int]
      BY <1>3, <2>1 DEF SizeInv, Lots
    <3> QED
      BY <3>1 DEF SizeInv, Lots
  <2>2. CASE i \notin Instruments
    BY <2>2 DEF SizeInv, Lots
  <2> QED
    BY <2>1, <2>2
<1>5. WithinSizeLimit'
  BY <1>1, <1>2 DEF SizeInv, WithinSizeLimit
<1>6. RoomLeft'
  BY <1>1 DEF SizeInv, RoomLeft
<1> QED
  BY <1>4, <1>5, <1>6 DEF SizeInv

\* A step that trades nothing and starts no order.
LEMMA QuietWithin ==
  ASSUME SizeInv, UNCHANGED net,
         \A q \in Procs : task'[q].at = "submitting" => task'[q] = task[q]
  PROVE  SizeInv'
<1>1. Lots' /\ WithinSizeLimit'
  BY DEF SizeInv, Lots, WithinSizeLimit
<1>2. RoomLeft'
  BY DEF SizeInv, RoomLeft
<1> QED
  BY <1>1, <1>2 DEF SizeInv

LEMMA EntryWithin ==
  ASSUME LeaseInv, SizeInv, NEW p \in Procs, Trade(p)
  PROVE  SizeInv'
<1>1. ASSUME NEW i \in Instruments, NEW side \in {"BUY", "SELL"}, StartEntry(p, i, side)
      PROVE  SizeInv'
  <2>1. task' = [task EXCEPT ![p] = [at |-> "submitting", inst |-> i, side |-> side]]
        /\ UNCHANGED net
    BY <1>1 DEF StartEntry, trading
  <2>2. Magnitude(net[p][i]) + 1 <= MaxSize
    BY <1>1 DEF StartEntry, EntryAllowed, GateAllows
  <2>3. Lots' /\ WithinSizeLimit'
    BY <2>1 DEF SizeInv, Lots, WithinSizeLimit
  <2>4. task'[p].inst = i /\ \A q \in Procs \ {p} : task'[q] = task[q]
    BY <2>1 DEF LeaseInv, Shapes
  <2>5. RoomLeft'
    BY <2>1, <2>2, <2>4 DEF SizeInv, RoomLeft
  <2> QED
    BY <2>3, <2>5 DEF SizeInv
<1>2. ASSUME SubmitEntry(p) PROVE SizeInv'
  <2> DEFINE i == task[p].inst
             d == Sign(task[p].side)
  <2>1. d \in Int /\ Magnitude(d) = 1
    <3>1. d \in {1, -1}
      BY DEF Sign
    <3> HIDE DEF d
    <3> QED
      BY <3>1, MagnitudeBounds
  <2>2. net' = [net EXCEPT ![p][i] = Applied(@, d)] /\ task' = [task EXCEPT ![p] = Idle]
    BY <1>2 DEF SubmitEntry, Saved, Unsaved
  <2>3. i \in Instruments => Magnitude(net[p][i]) + 1 <= MaxSize
    BY <1>2 DEF SubmitEntry, SizeInv, RoomLeft
  <2>4. task'[p].at # "submitting" /\ \A q \in Procs \ {p} : task'[q] = task[q]
    BY <2>2 DEF LeaseInv, Shapes, Idle
  <2>5. i \in Instruments => Magnitude(Applied(net[p][i], d)) <= MaxSize
    <3> SUFFICES ASSUME i \in Instruments PROVE Magnitude(Applied(net[p][i], d)) <= MaxSize
      OBVIOUS
    <3>1. net[p][i] \in Int /\ Magnitude(net[p][i]) \in Int
      BY MagnitudeBounds DEF SizeInv, Lots
    <3>2. Applied(net[p][i], d) \in Int /\ Magnitude(Applied(net[p][i], d)) \in Int
      BY <2>1, <3>1, AppliedBounds, MagnitudeBounds
    <3>3. Magnitude(Applied(net[p][i], d)) <= Magnitude(net[p][i]) + 1
      BY <2>1, <3>1, AppliedBounds
    <3> QED
      BY <2>3, <3>1, <3>2, <3>3, ConstantsAssumption
  <2> HIDE DEF i, d
  <2> QED
    BY <2>1, <2>2, <2>4, <2>5, TradedWithin
<1> QED
  BY <1>1, <1>2 DEF Trade

\* A monitor exit may exceed what its broker holds; the checks bound the sum.
LEMMA MonitorWithin ==
  ASSUME LeaseInv, SizeInv, NEW p \in Procs, Monitor(p)
  PROVE  SizeInv'
<1>1. PICK k \in DOMAIN plans, qty \in 1..MaxSize : MonitorExit(p, k, qty)
  BY DEF Monitor
<1> DEFINE i == plans[k].inst
           d == -Toward(plans[k].remaining) * qty
<1>2. UNCHANGED task /\ task[p] = Idle
  BY <1>1 DEF MonitorExit
<1>3. CASE UNCHANGED net
  BY <1>2, <1>3, QuietWithin
<1>4. CASE net' = [net EXCEPT ![p][i] = Applied(@, d)] /\ GateAllows(p, i, qty)
  <2>1. d \in Int /\ Magnitude(d) = qty
    <3>1. (d = qty \/ d = -qty) /\ qty \in Nat
      BY ConstantsAssumption DEF Toward
    <3> HIDE DEF d
    <3> QED
      BY <3>1 DEF Magnitude
  <2>2. i \in Instruments => Magnitude(Applied(net[p][i], d)) <= MaxSize
    <3> SUFFICES ASSUME i \in Instruments PROVE Magnitude(Applied(net[p][i], d)) <= MaxSize
      OBVIOUS
    <3>1. net[p][i] \in Int /\ Magnitude(net[p][i]) \in Int
      BY MagnitudeBounds DEF SizeInv, Lots
    <3>2. Applied(net[p][i], d) \in Int /\ Magnitude(Applied(net[p][i], d)) \in Int
      BY <2>1, <3>1, AppliedBounds, MagnitudeBounds
    <3>3. Magnitude(Applied(net[p][i], d)) <= Magnitude(net[p][i]) + qty
      BY <2>1, <3>1, AppliedBounds
    <3>4. Magnitude(net[p][i]) + qty <= MaxSize
      BY <1>4 DEF GateAllows
    <3> QED
      BY <3>1, <3>2, <3>3, <3>4, ConstantsAssumption
  <2>3. task'[p].at # "submitting" /\ \A q \in Procs \ {p} : task'[q] = task[q]
    BY <1>2 DEF Idle
  <2> HIDE DEF i, d
  <2> QED
    BY <1>4, <2>1, <2>2, <2>3, TradedWithin
<1> QED
  BY <1>1, <1>3, <1>4 DEF MonitorExit, Saved, Unsaved

\* An exit of the square-off closes what it reads.
LEMMA CloseWithin ==
  ASSUME LeaseInv, SizeInv, NEW p \in Procs, NEW i \in Instruments,
         CloseOne(p, i) \/ CloseRaises(p, i)
  PROVE  SizeInv'
<1> DEFINE d == -net[p][i]
<1>1. /\ \A q \in Procs \ {p} : task'[q] = task[q]
      /\ task'[p].at # "submitting"
  <2>1. task[p] \in Closing /\ task[p].at = "closing" /\ task \in [Procs -> Tasks]
    BY TimedShape DEF CloseOne, CloseRaises, LeaseInv, Shapes
  <2>2. CASE CloseOne(p, i)
    <3>1. \A q \in Procs \ {p} : task'[q] = task[q]
      BY <2>1, <2>2 DEF CloseOne
    <3>2. CASE task' = [task EXCEPT ![p].todo = @ \ {i}]
      <4>1. task'[p] = [task[p] EXCEPT !.todo = @ \ {i}]
        BY <2>1, <3>2
      <4> QED
        BY <2>1, <3>1, <4>1 DEF Closing
    <3>3. CASE task' = [task EXCEPT ![p].todo = @ \ {i}, ![p].failed = TRUE]
      <4>1. task'[p] = [task[p] EXCEPT !.todo = @ \ {i}, !.failed = TRUE]
        BY <2>1, <3>3
      <4> QED
        BY <2>1, <3>1, <4>1 DEF Closing
    <3> QED
      BY <2>2, <3>2, <3>3 DEF CloseOne
  <2>3. CASE CloseRaises(p, i)
    BY <2>1, <2>3 DEF CloseRaises
  <2> QED
    BY <2>2, <2>3
<1>2. CASE UNCHANGED net
  BY <1>1, <1>2, QuietWithin
<1>3. CASE net' = [net EXCEPT ![p][i] = Applied(@, d)]
  <2>1. d \in Int /\ Applied(net[p][i], d) = 0
    <3>1. net[p][i] \in Int
      BY DEF SizeInv, Lots
    <3>2. d \in Int /\ d = -net[p][i]
      BY <3>1
    <3> HIDE DEF d
    <3> QED
      BY <3>1, <3>2, AppliedBounds
  <2>2. Magnitude(0) <= MaxSize
    BY ConstantsAssumption DEF Magnitude
  <2> HIDE DEF d
  <2> QED
    BY <1>1, <1>3, <2>1, <2>2, TradedWithin
<1> QED
  BY <1>2, <1>3 DEF CloseOne, CloseRaises, Saved, Unsaved, trading

LEMMA RestWithin ==
  ASSUME LeaseInv, SizeInv, NEW p \in Procs,
         CheckHalt(p) \/ StartEod(p) \/ Claim(p) \/ Refused(p) \/ Judge(p) \/ Mark(p)
           \/ MarkLost(p)
  PROVE  SizeInv'
<1>1. task \in [Procs -> Tasks]
  BY DEF LeaseInv, Shapes
<1>2. CASE CheckHalt(p) \/ StartEod(p)
  <2>1. PICK e : task' = [task EXCEPT ![p] = [at |-> "claiming", event |-> e, age |-> 0]]
    BY <1>2 DEF CheckHalt, StartEod
  <2>2. UNCHANGED net
    BY <1>2 DEF CheckHalt, StartEod, trading
  <2>3. task'[p].at = "claiming" /\ \A q \in Procs \ {p} : task'[q] = task[q]
    BY <1>1, <2>1
  <2> QED
    BY <2>2, <2>3, QuietWithin
<1>3. CASE Claim(p)
  <2>1. task'[p].at = "closing" /\ \A q \in Procs \ {p} : task'[q] = task[q]
    BY <1>1, <1>3 DEF Claim
  <2> QED
    BY <1>3, <2>1, QuietWithin DEF Claim, trading
<1>4. CASE Judge(p)
  <2>1. PICK reconciled \in BOOLEAN :
          task' = [task EXCEPT ![p] =
            [at |-> "marking", event |-> task[p].event, age |-> task[p].age,
             reconciled |-> reconciled,
             verdict |-> Verdict(task[p].event, task[p].failed, OpenIn(p) = {},
                                 reconciled /\ Divergent(p))]]
    BY <1>4 DEF Judge
  <2>2. task'[p].at = "marking" /\ \A q \in Procs \ {p} : task'[q] = task[q]
    BY <1>1, <2>1
  <2> QED
    BY <1>4, <2>2, QuietWithin DEF Judge, trading
<1>5. CASE Refused(p) \/ Mark(p) \/ MarkLost(p)
  <2>1. task' = [task EXCEPT ![p] = Idle] /\ UNCHANGED net
    BY <1>5 DEF Refused, Mark, MarkLost, trading
  <2>2. task'[p].at = "idle" /\ \A q \in Procs \ {p} : task'[q] = task[q]
    BY <1>1, <2>1 DEF Idle
  <2> QED
    BY <2>1, <2>2, QuietWithin
<1> QED
  BY <1>2, <1>3, <1>4, <1>5

LEMMA CrashWithin ==
  ASSUME LeaseInv, SizeInv, NEW p \in Procs, Crash(p)
  PROVE  SizeInv'
<1> DEFINE empty == [i \in Instruments |-> 0]
<1>1. net' = [net EXCEPT ![p] = empty] /\ task' = [task EXCEPT ![p] = Idle]
  BY DEF Crash
<1>2. empty \in [Instruments -> Int] /\ \A i \in Instruments : Magnitude(empty[i]) <= MaxSize
  BY ConstantsAssumption DEF Magnitude
<1> HIDE DEF empty
<1>3. Lots' /\ net'[p] = empty /\ \A q \in Procs \ {p} : net'[q] = net[q]
  BY <1>1, <1>2 DEF SizeInv, Lots
<1>4. task'[p].at # "submitting" /\ \A q \in Procs \ {p} : task'[q] = task[q]
  BY <1>1 DEF LeaseInv, Shapes, Idle
<1>5. WithinSizeLimit'
  BY <1>2, <1>3 DEF SizeInv, WithinSizeLimit
<1>6. RoomLeft'
  BY <1>3, <1>4 DEF SizeInv, RoomLeft
<1> QED
  BY <1>3, <1>5, <1>6 DEF SizeInv

LEMMA TimeWithin ==
  ASSUME LeaseInv, SizeInv, TimePasses
  PROVE  SizeInv'
<1>1. ASSUME NEW q \in Procs, task'[q].at = "submitting" PROVE task'[q] = task[q]
  <2>1. /\ task[q] \in Tasks
        /\ task'[q] = IF "age" \in DOMAIN task[q]
                      THEN [task[q] EXCEPT !.age = @ + 1] ELSE task[q]
    BY DEF TimePasses, LeaseInv, Shapes
  <2>2. CASE "age" \in DOMAIN task[q]
    <3>1. task[q] \in Timed /\ "at" \in DOMAIN task[q] /\ task[q].at # "submitting"
      BY <2>1, <2>2, TimedShape
    <3>2. task'[q].at = task[q].at
      BY <2>1, <2>2, <3>1
    <3> QED
      BY <1>1, <3>1, <3>2
  <2> QED
    BY <2>1, <2>2
<1>2. UNCHANGED net
  BY DEF TimePasses, trading
<1> QED
  BY <1>1, <1>2, QuietWithin

LEMMA StepWithin ==
  ASSUME LeaseInv, SizeInv, [Next]_vars
  PROVE  SizeInv'
<1>1. CASE Engage \/ Reset \/ UNCHANGED vars
  BY <1>1, QuietWithin DEF Engage, Reset, vars, trading
<1>2. ASSUME NEW p \in Procs, Trade(p) \/ Crash(p) PROVE SizeInv'
  BY <1>2, EntryWithin, CrashWithin
<1>3. ASSUME NEW p \in Runners, Attempt(p) \/ Monitor(p) PROVE SizeInv'
  <2>1. p \in Procs
    BY ConstantsAssumption
  <2>2. ASSUME NEW i \in Instruments, CloseOne(p, i) \/ CloseRaises(p, i) PROVE SizeInv'
    BY <2>1, <2>2, CloseWithin
  <2>3. CASE Monitor(p)
    BY <2>1, <2>3, MonitorWithin
  <2>4. CASE Attempt(p)
    BY <2>1, <2>2, <2>4, RestWithin DEF Attempt
  <2> QED
    BY <1>3, <2>3, <2>4
<1> QED
  BY <1>1, <1>2, <1>3, TimeWithin DEF Next

\* Whatever the interleaving of entries, monitor exits, square-offs and restarts, no broker
\* holds more of an instrument than the limit, though the check of evaluate_order_risk and
\* the execution are two steps and exits may exceed their position.
THEOREM SizeLimitKept == Spec => []WithinSizeLimit
<1>1. Init => SizeInv
  BY ConstantsAssumption
     DEF Init, SizeInv, Lots, WithinSizeLimit, RoomLeft, Magnitude, Idle
<1>2. LeaseInv /\ SizeInv /\ [Next]_vars => SizeInv'
  BY StepWithin
<1>3. SizeInv => WithinSizeLimit
  BY DEF SizeInv
<1> QED
  BY <1>1, <1>2, <1>3, LeaseInvariant, PTL DEF Spec

-----------------------------------------------------------------------------
(* What an engaged halt and a completed square-off say about the brokers.    *)

Watched == [owner: Procs \union {"gone"}, inst: Instruments, remaining: Int]
PlanRows == Watched \union {NoPlan}

Books ==
  /\ plans \in [1..MaxPlans -> PlanRows]
  /\ stray \in [Procs -> SUBSET {"foreign", "missing"}]

\* The processes with an order the ledger never learned of.
Lost == {p \in Procs : "missing" \in stray[p]}

\* Two quantities are both long or both short.
SameSide(n, m) == (n > 0 /\ m > 0) \/ (n < 0 /\ m < 0)

\* A watched ledger position is on the side of the position its owner's broker holds.
BackedIn(ps, nets, lost) ==
  \A k \in 1..MaxPlans, q \in Procs \ lost :
    ps[k].owner = q => /\ ps[k].inst \in Instruments
                       /\ SameSide(nets[q][ps[k].inst], ps[k].remaining)
Backed == BackedIn(plans, net, Lost)

\* A position whose orders all reached the ledger was saved there, and every other broker
\* has seen an order it does not know.
Noticed ==
  \A p, q \in Procs :
    p # q /\ q \notin Lost /\ ~Flat(q) => recorded = TRUE /\ "foreign" \in stray[p]

BookInv == Books /\ Backed /\ Noticed

-----------------------------------------------------------------------------
(* Quantities.                                                             *)

\* A position changes sides only through nothing.
LEMMA SideKept ==
  ASSUME NEW n \in Int, NEW m \in Int, NEW d \in Int, SameSide(n, m), Applied(n, d) # 0
  PROVE  SameSide(Applied(n, d), m)
<1>1. CASE n > 0 /\ m > 0
  <2>1. CASE d >= 0
    <3>1. n * d >= 0 /\ n + d > 0
      BY <1>1, <2>1
    <3> QED
      BY <1>1, <3>1 DEF Applied, SameSide
  <2>2. CASE d < 0
    <3>1. ~(n * d >= 0)
      BY <1>1, <2>2
    <3>2. ~(Magnitude(d) > Magnitude(n)) /\ Applied(n, d) = n + d
      BY <3>1 DEF Applied
    <3>3. n + d >= 0 /\ n + d # 0
      BY <1>1, <2>2, <3>2 DEF Magnitude
    <3> QED
      BY <1>1, <3>2, <3>3 DEF SameSide
  <2> QED
    BY <2>1, <2>2
<1>2. CASE n < 0 /\ m < 0
  <2>1. CASE d <= 0
    <3>1. n * d >= 0 /\ n + d < 0
      BY <1>2, <2>1
    <3> QED
      BY <1>2, <3>1 DEF Applied, SameSide
  <2>2. CASE d > 0
    <3>1. ~(n * d >= 0)
      BY <1>2, <2>2
    <3>2. ~(Magnitude(d) > Magnitude(n)) /\ Applied(n, d) = n + d
      BY <3>1 DEF Applied
    <3>3. n + d <= 0 /\ n + d # 0
      BY <1>2, <2>2, <3>2 DEF Magnitude
    <3> QED
      BY <1>2, <3>2, <3>3 DEF SameSide
  <2> QED
    BY <2>1, <2>2
<1> QED
  BY <1>1, <1>2 DEF SameSide

\* An exit of what is watched reduces the position, or ends it when it exceeds it.
LEMMA ExitReduces ==
  ASSUME NEW n \in Int, NEW m \in Int, NEW qty \in Nat \ {0}, SameSide(n, m)
  PROVE  Magnitude(Applied(n, -Toward(m) * qty)) <= Magnitude(n)
<1>1. CASE n > 0 /\ m > 0
  <2>1. -Toward(m) * qty = -qty
    BY <1>1 DEF Toward
  <2>2. ~(n * (-qty) >= 0)
    BY <1>1
  <2>3. Applied(n, -qty) = IF Magnitude(-qty) > Magnitude(n) THEN 0 ELSE n + (-qty)
    BY <2>2 DEF Applied
  <2>4. Magnitude(-qty) = qty /\ Magnitude(n) = n /\ Magnitude(0) = 0
    BY <1>1 DEF Magnitude
  <2>5. qty <= n => Magnitude(n + (-qty)) <= n
    BY <1>1 DEF Magnitude
  <2> QED
    BY <1>1, <2>1, <2>3, <2>4, <2>5
<1>2. CASE n < 0 /\ m < 0
  <2>1. -Toward(m) * qty = qty
    BY <1>2 DEF Toward
  <2>2. ~(n * qty >= 0)
    BY <1>2
  <2>3. Applied(n, qty) = IF Magnitude(qty) > Magnitude(n) THEN 0 ELSE n + qty
    BY <2>2 DEF Applied
  <2>4. Magnitude(qty) = qty /\ Magnitude(n) = -n /\ Magnitude(0) = 0
    BY <1>2 DEF Magnitude
  <2>5. qty <= -n => Magnitude(n + qty) <= -n
    BY <1>2 DEF Magnitude
  <2> QED
    BY <1>2, <2>1, <2>3, <2>4, <2>5
<1> QED
  BY <1>1, <1>2 DEF SameSide

\* What is left to watch after a part of it is on the side it was.
LEMMA RestOnSide ==
  ASSUME NEW n \in Int, NEW m \in Int, NEW qty \in Nat, qty < Magnitude(m), SameSide(n, m)
  PROVE  m + (-Toward(m) * qty) \in Int /\ SameSide(n, m + (-Toward(m) * qty))
<1>1. CASE m > 0
  <2>1. -Toward(m) * qty = -qty
    BY <1>1 DEF Toward
  <2> QED
    BY <1>1, <2>1 DEF SameSide, Magnitude
<1>2. CASE m < 0
  <2>1. -Toward(m) * qty = qty
    BY <1>2 DEF Toward
  <2> QED
    BY <1>2, <2>1 DEF SameSide, Magnitude
<1> QED
  BY <1>1, <1>2 DEF SameSide

-----------------------------------------------------------------------------
(* What an order does to the rows.                                         *)

\* Only the position of p in i has changed, to n.
Changed(nets, p, i, n) ==
  \A q \in Procs, j \in Instruments : nets[q][j] = IF q = p /\ j = i THEN n ELSE net[q][j]

LEMMA TradeChanges ==
  ASSUME Lots, NEW p \in Procs, NEW i \in Instruments, NEW d \in Int,
         net' = [net EXCEPT ![p][i] = Applied(@, d)]
  PROVE  Changed(net', p, i, Applied(net[p][i], d))
BY DEF Lots, Changed

\* A row keeps its quantity, or is done with.
Followed(ps) ==
  \A k \in 1..MaxPlans : ps[k] = NoPlan \/ ps[k].remaining = plans[k].remaining

\* The broker of p executes an order of d lots; the snapshot writes its positions.
LEMMA SyncedBacked ==
  ASSUME NEW p \in Procs, NEW i \in Instruments, NEW d \in Int, NEW n, NEW ps, NEW nets,
         Books, Lots, Backed, n = Applied(net[p][i], d), ps = Synced(p, i, n),
         Changed(nets, p, i, n)
  PROVE  /\ BackedIn(ps, nets, Lost)
         /\ ps \in [1..MaxPlans -> PlanRows]
         /\ Followed(ps)
<1>1. n \in Int /\ net[p][i] \in Int
  BY AppliedBounds DEF Lots
<1>2. \A q \in Procs, j \in Instruments :
        nets[q][j] = IF q = p /\ j = i THEN n ELSE net[q][j]
  BY DEF Changed
<1>3. DOMAIN plans = 1..MaxPlans
  BY DEF Books
<1>4. ASSUME NEW k \in 1..MaxPlans
      PROVE  /\ ps[k] \in PlanRows
             /\ ps[k].owner = p =>
                  /\ ps[k] = plans[k]
                  /\ plans[k].inst = i => n # 0
             /\ ps[k].owner # p => ps[k].owner = "gone" \/ ps[k] = plans[k]
             /\ ps[k] = NoPlan \/ ps[k].remaining = plans[k].remaining
  <2>1. plans[k] \in PlanRows /\ NoPlan \in PlanRows /\ NoPlan.owner = "gone"
        /\ p # "gone"
    BY ConstantsAssumption DEF Books, PlanRows, NoPlan
  <2>2. \/ ps[k] = plans[k] /\ plans[k].owner # p
        \/ ps[k] = NoPlan
        \/ ps[k] = [plans[k] EXCEPT !.owner = "gone"] /\ plans[k].owner = p
        \/ ps[k] = plans[k] /\ (plans[k].inst = i => n # 0)
    <3> QED
      BY <1>3 DEF Synced
  <2>3. CASE ps[k] = [plans[k] EXCEPT !.owner = "gone"] /\ plans[k].owner = p
    <3>1. plans[k] \in Watched
      BY <2>1, <2>3 DEF PlanRows
    <3>2. /\ [plans[k] EXCEPT !.owner = "gone"] \in Watched
          /\ [plans[k] EXCEPT !.owner = "gone"].owner = "gone"
          /\ [plans[k] EXCEPT !.owner = "gone"].remaining = plans[k].remaining
      BY <3>1 DEF Watched
    <3> QED
      BY <2>1, <2>3, <3>2 DEF PlanRows
  <2> QED
    BY <2>1, <2>2, <2>3
<1>5. ps \in [1..MaxPlans -> PlanRows]
  <2>1. DOMAIN ps = 1..MaxPlans /\ ps = [k \in 1..MaxPlans |-> ps[k]]
    BY <1>3 DEF Synced
  <2> QED
    BY <1>4, <2>1
<1>6. ASSUME NEW k \in 1..MaxPlans, NEW q \in Procs \ Lost, ps[k].owner = q
      PROVE  /\ ps[k].inst \in Instruments
             /\ SameSide(nets[q][ps[k].inst], ps[k].remaining)
  <2>1. ps[k] = plans[k]
    BY <1>4, <1>6, ConstantsAssumption
  <2>2. plans[k].inst \in Instruments /\ SameSide(net[q][plans[k].inst], plans[k].remaining)
        /\ plans[k].remaining \in Int
    <3>1. plans[k] \in PlanRows /\ plans[k].owner # "gone"
      BY <1>6, <2>1, ConstantsAssumption DEF Books
    <3>2. plans[k] \in Watched
      BY <3>1 DEF PlanRows, NoPlan
    <3> QED
      BY <1>6, <2>1, <3>2 DEF Backed, BackedIn, Watched
  <2>3. CASE q = p /\ plans[k].inst = i
    <3>1. n # 0
      BY <1>4, <1>6, <2>3
    <3>2. SameSide(n, plans[k].remaining)
      BY <1>1, <2>2, <2>3, <3>1, SideKept
    <3> QED
      BY <1>2, <2>1, <2>2, <2>3, <3>2
  <2>4. CASE ~(q = p /\ plans[k].inst = i)
    <3> QED
      BY <1>2, <2>1, <2>2, <2>4
  <2> QED
    BY <2>3, <2>4
<1>7. BackedIn(ps, nets, Lost)
  <2> QED
    BY <1>6 DEF BackedIn
<1> QED
  BY <1>4, <1>5, <1>7 DEF Followed

LEMMA AttachedBacked ==
  ASSUME NEW ps \in [1..MaxPlans -> PlanRows], NEW nets, NEW lost, BackedIn(ps, nets, lost),
         NEW p \in Procs, NEW i \in Instruments, nets[p][i] \in Int
  PROVE  /\ BackedIn(Attached(ps, p, i, nets[p][i]), nets, lost)
         /\ Attached(ps, p, i, nets[p][i]) \in [1..MaxPlans -> PlanRows]
<1> DEFINE n == nets[p][i]
           row == [owner |-> p, inst |-> i, remaining |-> n]
<1>1. PICK k : Attached(ps, p, i, n) = ps
               \/ (n # 0 /\ Attached(ps, p, i, n) = [ps EXCEPT ![k] = row])
  BY DEF Attached
<1>2. row \in PlanRows
  BY DEF PlanRows, Watched
<1>3. CASE n # 0 /\ Attached(ps, p, i, n) = [ps EXCEPT ![k] = row]
  <2>1. SameSide(n, n)
    BY <1>3 DEF SameSide
  <2>2. [ps EXCEPT ![k] = row] \in [1..MaxPlans -> PlanRows]
    BY <1>2
  <2>3. row.owner = p /\ row.inst = i /\ row.remaining = n
    OBVIOUS
  <2>4. \A j \in 1..MaxPlans : [ps EXCEPT ![k] = row][j] = IF j = k THEN row ELSE ps[j]
    OBVIOUS
  <2>5. BackedIn([ps EXCEPT ![k] = row], nets, lost)
    <3> HIDE DEF row
    <3> QED
      BY <2>1, <2>3, <2>4 DEF BackedIn
  <2> HIDE DEF n, row
  <2> QED
    BY <1>3, <2>2, <2>5 DEF n
<1> QED
  BY <1>1, <1>3

\* A row from which the monitor has taken qty.
Taken(ps, k, qty) ==
  IF ps[k] = NoPlan \/ qty = Magnitude(plans[k].remaining)
  THEN [ps EXCEPT ![k] = NoPlan]
  ELSE [ps EXCEPT ![k].remaining = @ + (-Toward(plans[k].remaining) * qty)]

LEMMA TakenBacked ==
  ASSUME NEW ps \in [1..MaxPlans -> PlanRows], NEW nets \in [Procs -> [Instruments -> Int]],
         NEW lost, BackedIn(ps, nets, lost),
         NEW k \in 1..MaxPlans, NEW qty \in Nat, qty <= Magnitude(plans[k].remaining),
         plans[k] \in Watched,
         ps[k] = NoPlan \/ ps[k].remaining = plans[k].remaining
  PROVE  /\ BackedIn(Taken(ps, k, qty), nets, lost)
         /\ Taken(ps, k, qty) \in [1..MaxPlans -> PlanRows]
<1> DEFINE m == plans[k].remaining
<1>1. m \in Int /\ Magnitude(m) \in Int
  BY DEF Watched, Magnitude
<1>2. CASE ps[k] = NoPlan \/ qty = Magnitude(m)
  <2>1. Taken(ps, k, qty) = [ps EXCEPT ![k] = NoPlan]
    BY <1>2 DEF Taken
  <2>2. NoPlan \in PlanRows /\ NoPlan.owner \notin Procs
    BY ConstantsAssumption DEF PlanRows, NoPlan
  <2>3. \A j \in 1..MaxPlans : [ps EXCEPT ![k] = NoPlan][j] = IF j = k THEN NoPlan ELSE ps[j]
    OBVIOUS
  <2> QED
    BY <2>1, <2>2, <2>3 DEF BackedIn
<1>3. CASE ~(ps[k] = NoPlan \/ qty = Magnitude(m))
  <2> DEFINE rest == m + (-Toward(m) * qty)
             row == [ps[k] EXCEPT !.remaining = rest]
  <2>1. /\ ps[k] \in Watched /\ ps[k].remaining = m /\ qty < Magnitude(m)
    BY <1>1, <1>3 DEF PlanRows
  <2>2. rest \in Int
    <3>1. Toward(m) \in Int
      BY DEF Toward
    <3> HIDE DEF m
    <3> QED
      BY <1>1, <3>1
  <2>3. \A n \in Int : SameSide(n, m) => SameSide(n, rest)
    <3> HIDE DEF m
    <3> QED
      BY <1>1, <2>1, RestOnSide
  <2>4. Taken(ps, k, qty) = [ps EXCEPT ![k].remaining = rest]
    <3>1. Taken(ps, k, qty) = [ps EXCEPT ![k].remaining = @ + (-Toward(m) * qty)]
      BY <1>3 DEF Taken
    <3> HIDE DEF m
    <3> QED
      BY <2>1, <3>1
  <2> HIDE DEF rest, m
  <2>5. /\ row \in PlanRows /\ row.owner = ps[k].owner /\ row.inst = ps[k].inst
        /\ row.remaining = rest
    BY <2>1, <2>2 DEF Watched, PlanRows
  <2>6. Taken(ps, k, qty) = [ps EXCEPT ![k] = row]
    BY <2>4
  <2> HIDE DEF row
  <2>7. \A j \in 1..MaxPlans : [ps EXCEPT ![k] = row][j] = IF j = k THEN row ELSE ps[j]
    OBVIOUS
  <2>8. ASSUME NEW j \in 1..MaxPlans, NEW q \in Procs \ lost, Taken(ps, k, qty)[j].owner = q
        PROVE  /\ Taken(ps, k, qty)[j].inst \in Instruments
               /\ SameSide(nets[q][Taken(ps, k, qty)[j].inst], Taken(ps, k, qty)[j].remaining)
    <3>1. CASE j = k
      <4>1. ps[k].owner = q
        BY <2>5, <2>6, <2>7, <2>8, <3>1
      <4>2. ps[k].inst \in Instruments /\ SameSide(nets[q][ps[k].inst], m)
        BY <2>1, <4>1 DEF BackedIn
      <4>3. SameSide(nets[q][ps[k].inst], rest)
        BY <2>3, <4>2
      <4> QED
        BY <2>5, <2>6, <2>7, <3>1, <4>2, <4>3
    <3>2. CASE j # k
      BY <2>6, <2>7, <2>8, <3>2 DEF BackedIn
    <3> QED
      BY <3>1, <3>2
  <2> QED
    BY <2>5, <2>6, <2>8 DEF BackedIn
<1> QED
  BY <1>2, <1>3

-----------------------------------------------------------------------------
(* What the other brokers and the ledger learn of an order.                *)

LEMMA SavedNoticed ==
  ASSUME Books, Lots, Noticed, NEW p \in Procs, NEW i, NEW d, Saved(p, i, d)
  PROVE  /\ stray' \in [Procs -> SUBSET {"foreign", "missing"}] /\ Lost' = Lost
         /\ Noticed'
<1>1. \A q \in Procs : stray'[q] = IF q = p THEN stray[q] ELSE stray[q] \union {"foreign"}
  BY DEF Saved
<1>2. stray' \in [Procs -> SUBSET {"foreign", "missing"}] /\ Lost' = Lost
  <2>1. stray' \in [Procs -> SUBSET {"foreign", "missing"}]
    BY DEF Saved, Books
  <2>2. \A q \in Procs : "missing" \in stray'[q] <=> "missing" \in stray[q]
    <3>1. "missing" \notin {"foreign"}
      OBVIOUS
    <3> QED
      BY <1>1, <3>1
  <2> QED
    BY <2>1, <2>2 DEF Lost
<1>3. \A q \in Procs \ {p} : net'[q] = net[q]
  BY DEF Saved, Lots
<1>4. ASSUME NEW r \in Procs, NEW q \in Procs, r # q, q \notin Lost', ~Flat(q)'
      PROVE  recorded' = TRUE /\ "foreign" \in stray'[r]
  <2>1. CASE q = p
    BY <1>1, <1>4, <2>1 DEF Saved
  <2>2. CASE q # p
    <3>1. ~Flat(q)
      BY <1>3, <1>4, <2>2 DEF Flat, OpenIn
    <3>2. "foreign" \in stray[r]
      BY <1>2, <1>4, <3>1 DEF Noticed
    <3> QED
      BY <1>1, <3>2 DEF Saved
  <2> QED
    BY <2>1, <2>2
<1> QED
  BY <1>2, <1>4 DEF Noticed

\* The ledger never learns of the order: all the claims about p lapse.
LEMMA UnsavedBooks ==
  ASSUME BookInv, Lots, NEW p \in Procs, NEW i, NEW d, Unsaved(p, i, d)
  PROVE  BookInv'
<1>1. /\ \A q \in Procs : stray[q] \subseteq stray'[q]
      /\ stray' \in [Procs -> SUBSET {"foreign", "missing"}]
      /\ p \in Lost' /\ Lost \subseteq Lost'
  BY DEF Unsaved, BookInv, Books, Lost
<1>2. \A q \in Procs \ {p} : net'[q] = net[q]
  BY DEF Unsaved, Lots
<1>3. ASSUME NEW k \in 1..MaxPlans
      PROVE  /\ plans'[k] \in PlanRows
             /\ plans'[k].owner \in Procs => plans'[k] = plans[k]
  <2>1. plans[k] \in PlanRows /\ DOMAIN plans = 1..MaxPlans
    BY DEF BookInv, Books
  <2>2. plans'[k] = plans[k] \/ (plans'[k] = [plans[k] EXCEPT !.owner = "gone"]
                                 /\ plans[k].owner = p)
    BY <2>1 DEF Unsaved, PlanOf
  <2>3. CASE plans'[k] = [plans[k] EXCEPT !.owner = "gone"] /\ plans[k].owner = p
    <3>1. plans[k] \in Watched
      BY <2>1, <2>3, ConstantsAssumption DEF PlanRows, NoPlan
    <3>2. plans'[k] \in Watched /\ plans'[k].owner = "gone"
      BY <2>3, <3>1 DEF Watched
    <3> QED
      BY <3>2, ConstantsAssumption DEF PlanRows
  <2> QED
    BY <2>1, <2>2, <2>3
<1>4. Books'
  <2>1. DOMAIN plans' = 1..MaxPlans /\ plans' = [k \in 1..MaxPlans |-> plans'[k]]
    BY DEF Unsaved, BookInv, Books
  <2>2. plans' \in [1..MaxPlans -> PlanRows]
    BY <1>3, <2>1
  <2> QED
    BY <1>1, <2>2 DEF Books
<1>5. Backed'
  BY <1>1, <1>2, <1>3 DEF BookInv, Backed, BackedIn
<1>6. Noticed'
  <2> SUFFICES ASSUME NEW r \in Procs, NEW q \in Procs, r # q, q \notin Lost', ~Flat(q)'
               PROVE  recorded' = TRUE /\ "foreign" \in stray'[r]
    BY DEF Noticed
  <2>1. q # p /\ q \notin Lost /\ ~Flat(q)
    BY <1>1, <1>2 DEF Flat, OpenIn
  <2> QED
    BY <1>1, <2>1 DEF BookInv, Noticed, Unsaved
<1> QED
  BY <1>4, <1>5, <1>6 DEF BookInv

\* The order is saved, and its row is left as it is, attached a plan, or taken from.
LEMMA SavedBooks ==
  ASSUME BookInv, Lots, Lots', NEW p \in Procs, NEW i \in Instruments, NEW d \in Int,
         Saved(p, i, d),
         LET ps == Synced(p, i, Applied(net[p][i], d))
         IN \/ plans' = ps
            \/ plans' = Attached(ps, p, i, Applied(net[p][i], d))
            \/ \E k \in 1..MaxPlans, qty \in Nat :
                 /\ qty <= Magnitude(plans[k].remaining) /\ plans[k] \in Watched
                 /\ plans' = Taken(ps, k, qty)
  PROVE  BookInv'
<1> DEFINE n == Applied(net[p][i], d)
           ps == Synced(p, i, n)
<1>1. net' = [net EXCEPT ![p][i] = Applied(@, d)]
  BY DEF Saved
<1>2. /\ ps \in [1..MaxPlans -> PlanRows] /\ BackedIn(ps, net', Lost)
      /\ Followed(ps)
      /\ net'[p][i] = n
  <2>1. Books /\ Backed
    BY DEF BookInv
  <2>2. n = Applied(net[p][i], d) /\ ps = Synced(p, i, n)
    OBVIOUS
  <2>3. Changed(net', p, i, n)
    BY <1>1, TradeChanges
  <2>4. net'[p][i] = n
    BY <2>3 DEF Changed
  <2> HIDE DEF n, ps
  <2> QED
    BY <2>1, <2>2, <2>3, <2>4, SyncedBacked
<1>3. /\ plans' = ps \/ plans' = Attached(ps, p, i, n)
         \/ \E k \in 1..MaxPlans, qty \in Nat :
                 /\ qty <= Magnitude(plans[k].remaining) /\ plans[k] \in Watched
                 /\ plans' = Taken(ps, k, qty)
  OBVIOUS
<1>4. n \in Int
  BY AppliedBounds DEF Lots
<1> HIDE DEF n, ps
<1>5. BackedIn(plans', net', Lost) /\ plans' \in [1..MaxPlans -> PlanRows]
  <2>1. CASE plans' = ps
    BY <1>2, <2>1
  <2>2. CASE plans' = Attached(ps, p, i, n)
    BY <1>2, <1>4, <2>2, AttachedBacked
  <2>3. ASSUME NEW k \in 1..MaxPlans, NEW qty \in Nat, qty <= Magnitude(plans[k].remaining),
               plans[k] \in Watched, plans' = Taken(ps, k, qty)
        PROVE  BackedIn(plans', net', Lost) /\ plans' \in [1..MaxPlans -> PlanRows]
    <3>1. net' \in [Procs -> [Instruments -> Int]]
      BY DEF Lots
    <3>2. ps[k] = NoPlan \/ ps[k].remaining = plans[k].remaining
      BY <1>2 DEF Followed
    <3> QED
      BY <1>2, <2>3, <3>1, <3>2, TakenBacked
  <2> QED
    BY <1>3, <2>1, <2>2, <2>3
<1>6. /\ stray' \in [Procs -> SUBSET {"foreign", "missing"}] /\ Lost' = Lost
      /\ Noticed'
  BY SavedNoticed DEF BookInv
<1> QED
  BY <1>5, <1>6 DEF BookInv, Books, Backed

LEMMA QuietBooks ==
  ASSUME BookInv, UNCHANGED trading
  PROVE  BookInv'
BY DEF BookInv, trading, Books, Backed, BackedIn, Lost, Noticed, Flat, OpenIn

-----------------------------------------------------------------------------
(* The steps.                                                              *)

LEMMA EntryBooks ==
  ASSUME LeaseInv, BookInv, Lots, Lots', NEW p \in Procs, SubmitEntry(p)
  PROVE  BookInv'
<1> DEFINE i == task[p].inst
           d == Sign(task[p].side)
           n == Applied(net[p][i], d)
<1>1. i \in Instruments
  <2>1. task[p] \in Tasks /\ task[p].at = "submitting"
    BY DEF SubmitEntry, LeaseInv, Shapes
  <2>2. task[p] \in Submitting
    <3>1. task[p] # Idle /\ task[p] \notin Timed
      BY <2>1, TimedShape DEF Idle
    <3> QED
      BY <2>1, <3>1 DEF Tasks
  <2> QED
    BY <2>2 DEF Submitting
<1>2. d \in Int
  BY DEF Sign
<1>3. \/ /\ Saved(p, i, d)
         /\ plans' = Synced(p, i, n) \/ plans' = Attached(Synced(p, i, n), p, i, n)
      \/ Unsaved(p, i, d)
  BY DEF SubmitEntry
<1> HIDE DEF i, d
<1> QED
  BY <1>1, <1>2, <1>3, SavedBooks, UnsavedBooks

\* What an exit of the monitor does to the rows and to the broker that executes it.
LEMMA ExitShape ==
  ASSUME BookInv, Lots, NEW p \in Procs, NEW k \in DOMAIN plans, NEW qty \in 1..MaxSize,
         MonitorExit(p, k, qty)
  PROVE  /\ k \in 1..MaxPlans /\ plans[k] \in Watched /\ qty \in Nat \ {0}
         /\ qty <= Magnitude(plans[k].remaining)
         /\ LET i == plans[k].inst
                d == -Toward(plans[k].remaining) * qty
            IN /\ d \in Int
               /\ \/ Saved(p, i, d) /\ plans' = Taken(Synced(p, i, Applied(net[p][i], d)), k, qty)
                  \/ Unsaved(p, i, d)
                  \/ plans' = Taken(plans, k, qty) /\ UNCHANGED <<net, recorded, stray>>
<1>1. k \in 1..MaxPlans /\ plans[k] \in Watched /\ qty \in Nat \ {0}
      /\ qty <= Magnitude(plans[k].remaining)
  BY ConstantsAssumption DEF BookInv, Books, MonitorExit, PlanRows
<1>2. -Toward(plans[k].remaining) * qty \in Int
  <2>1. Toward(plans[k].remaining) \in {1, -1}
    BY DEF Toward
  <2> QED
    BY <1>1, <2>1
<1> QED
  BY <1>1, <1>2 DEF MonitorExit, Taken

LEMMA ExitBooks ==
  ASSUME BookInv, Lots, Lots', NEW p \in Procs, Monitor(p)
  PROVE  BookInv'
<1>1. PICK k \in DOMAIN plans, qty \in 1..MaxSize : MonitorExit(p, k, qty)
  BY DEF Monitor
<1> DEFINE i == plans[k].inst
           d == -Toward(plans[k].remaining) * qty
<1>2. /\ k \in 1..MaxPlans /\ plans[k] \in Watched /\ qty \in Nat \ {0}
      /\ qty <= Magnitude(plans[k].remaining)
      /\ d \in Int /\ i \in Instruments
      /\ \/ Saved(p, i, d) /\ plans' = Taken(Synced(p, i, Applied(net[p][i], d)), k, qty)
         \/ Unsaved(p, i, d)
         \/ plans' = Taken(plans, k, qty) /\ UNCHANGED <<net, recorded, stray>>
  BY <1>1, ExitShape DEF Watched
<1> HIDE DEF i, d
<1>3. CASE Saved(p, i, d) /\ plans' = Taken(Synced(p, i, Applied(net[p][i], d)), k, qty)
  BY <1>2, <1>3, SavedBooks
<1>4. CASE Unsaved(p, i, d)
  BY <1>4, UnsavedBooks
<1>5. CASE plans' = Taken(plans, k, qty) /\ UNCHANGED <<net, recorded, stray>>
  <2>1. /\ BackedIn(Taken(plans, k, qty), net, Lost)
        /\ Taken(plans, k, qty) \in [1..MaxPlans -> PlanRows]
    <3>1. plans \in [1..MaxPlans -> PlanRows] /\ BackedIn(plans, net, Lost)
          /\ net \in [Procs -> [Instruments -> Int]]
      BY DEF BookInv, Books, Backed, Lots
    <3> QED
      BY <1>2, <3>1, TakenBacked
  <2>2. Lost' = Lost
    BY <1>5 DEF Lost
  <2>3. Backed' /\ Books'
    BY <1>5, <2>1, <2>2 DEF Backed, Books, BookInv
  <2>4. Noticed'
    BY <1>5, <2>2 DEF BookInv, Noticed, Flat, OpenIn
  <2> QED
    BY <2>3, <2>4 DEF BookInv
<1> QED
  BY <1>2, <1>3, <1>4, <1>5

LEMMA CloseBooks ==
  ASSUME BookInv, Lots, Lots', NEW p \in Procs, NEW i \in Instruments,
         CloseOne(p, i) \/ CloseRaises(p, i)
  PROVE  BookInv'
<1> DEFINE d == -net[p][i]
<1>1. d \in Int /\ Applied(net[p][i], d) = 0
  <2>1. net[p][i] \in Int /\ -net[p][i] \in Int
    BY DEF Lots
  <2> QED
    BY <2>1, AppliedBounds
<1>2. \/ UNCHANGED trading
      \/ Saved(p, i, d) /\ plans' = Synced(p, i, 0)
      \/ Unsaved(p, i, d)
  BY DEF CloseOne, CloseRaises
<1> HIDE DEF d
<1> QED
  BY <1>1, <1>2, SavedBooks, UnsavedBooks, QuietBooks

LEMMA CrashBooks ==
  ASSUME BookInv, Lots, NEW p \in Procs, Crash(p)
  PROVE  BookInv'
<1>1. /\ \A q \in Procs : stray'[q] = IF q = p THEN (IF recorded THEN {"foreign"} ELSE {})
                                            ELSE stray[q]
      /\ \A q \in Procs \ {p} : net'[q] = net[q]
      /\ \A j \in Instruments : net'[p][j] = 0
      /\ stray' \in [Procs -> SUBSET {"foreign", "missing"}]
      /\ recorded' = recorded
  BY DEF Crash, BookInv, Books, Lots
<1>2. ASSUME NEW k \in 1..MaxPlans
      PROVE  /\ plans'[k] \in PlanRows
             /\ plans'[k].owner \in Procs => plans'[k] = plans[k] /\ plans[k].owner # p
  <2>1. plans[k] \in PlanRows /\ DOMAIN plans = 1..MaxPlans
    BY DEF BookInv, Books
  <2>2. plans'[k] = IF plans[k].owner = p THEN [plans[k] EXCEPT !.owner = "gone"] ELSE plans[k]
    BY <2>1 DEF Crash
  <2>3. CASE plans[k].owner = p
    <3>1. plans[k] \in Watched
      BY <2>1, <2>3, ConstantsAssumption DEF PlanRows, NoPlan
    <3>2. plans'[k] \in Watched /\ plans'[k].owner = "gone"
      BY <2>2, <2>3, <3>1 DEF Watched
    <3> QED
      BY <3>2, ConstantsAssumption DEF PlanRows
  <2> QED
    BY <2>1, <2>2, <2>3
<1>3. plans' \in [1..MaxPlans -> PlanRows]
  <2>1. DOMAIN plans' = 1..MaxPlans /\ plans' = [k \in 1..MaxPlans |-> plans'[k]]
    BY DEF Crash, BookInv, Books
  <2> QED
    BY <1>2, <2>1
<1>4. Lost' \subseteq Lost /\ Lost \ {p} \subseteq Lost'
  <2>1. "missing" \notin {"foreign"} /\ "missing" \notin {}
    OBVIOUS
  <2> QED
    BY <1>1, <2>1 DEF Lost
<1>5. Backed'
  BY <1>1, <1>2, <1>4 DEF BookInv, Backed, BackedIn
<1>6. Noticed'
  <2> SUFFICES ASSUME NEW r \in Procs, NEW q \in Procs, r # q, q \notin Lost', ~Flat(q)'
               PROVE  recorded' = TRUE /\ "foreign" \in stray'[r]
    BY DEF Noticed
  <2>1. q # p /\ q \notin Lost /\ ~Flat(q)
    BY <1>1, <1>4 DEF Flat, OpenIn
  <2>2. recorded = TRUE /\ (r # p => "foreign" \in stray[r])
    BY <2>1 DEF BookInv, Noticed
  <2> QED
    BY <1>1, <2>2
<1> QED
  BY <1>1, <1>3, <1>5, <1>6 DEF BookInv, Books

LEMMA StepBooks ==
  ASSUME LeaseInv, SizeInv, BookInv, [Next]_vars
  PROVE  BookInv'
<1>1. Lots /\ Lots'
  BY StepWithin DEF SizeInv
<1>2. CASE Engage \/ Reset \/ TimePasses \/ UNCHANGED vars
  BY <1>2, QuietBooks DEF Engage, Reset, TimePasses, vars, trading
<1>3. ASSUME NEW p \in Procs, Trade(p) \/ Crash(p) PROVE BookInv'
  <2>1. ASSUME NEW i \in Instruments, NEW side \in {"BUY", "SELL"}, StartEntry(p, i, side)
        PROVE  BookInv'
    BY <2>1, QuietBooks DEF StartEntry
  <2> QED
    BY <1>1, <1>3, <2>1, EntryBooks, CrashBooks DEF Trade
<1>4. ASSUME NEW p \in Runners, Attempt(p) \/ Monitor(p) PROVE BookInv'
  <2>1. p \in Procs
    BY ConstantsAssumption
  <2>2. ASSUME NEW i \in Instruments, CloseOne(p, i) \/ CloseRaises(p, i) PROVE BookInv'
    BY <1>1, <2>1, <2>2, CloseBooks
  <2>3. CASE CheckHalt(p) \/ StartEod(p) \/ Claim(p) \/ Refused(p) \/ Judge(p) \/ Mark(p)
               \/ MarkLost(p)
    BY <2>3, QuietBooks DEF CheckHalt, StartEod, Claim, Refused, Judge, Mark, MarkLost
  <2> QED
    BY <1>1, <1>4, <2>1, <2>2, <2>3, ExitBooks DEF Attempt
<1> QED
  BY <1>2, <1>3, <1>4 DEF Next

\* A watched ledger position lies on the side of the position its owner's broker holds, and
\* a position that is known to the ledger has been noticed everywhere.
THEOREM BooksKept == Spec => [](LeaseInv /\ SizeInv /\ BookInv)
<1>1. Init => SizeInv
  BY ConstantsAssumption
     DEF Init, SizeInv, Lots, WithinSizeLimit, RoomLeft, Magnitude, Idle
<1>2. Init => BookInv
  <2> SUFFICES ASSUME Init PROVE BookInv
    OBVIOUS
  <2>1. Books /\ Lost = {}
    BY DEF Init, Books, PlanRows, Lost
  <2>2. Backed
    BY ConstantsAssumption DEF Init, Backed, BackedIn, NoPlan
  <2>3. Noticed
    BY DEF Init, Noticed, Flat, OpenIn
  <2> QED
    BY <2>1, <2>2, <2>3 DEF BookInv
<1>3. LeaseInv /\ SizeInv /\ BookInv /\ [Next]_vars => SizeInv' /\ BookInv'
  BY StepWithin, StepBooks
<1> QED
  BY <1>1, <1>2, <1>3, LeaseInvariant, PTL DEF Spec

-----------------------------------------------------------------------------
(* What the tasks may do in a step.                                        *)

\* Only an entry that found the switch off sets out, and only a loop that is over is judged.
Orderly(p) ==
  /\ halt.on /\ task'[p].at = "submitting" => task[p].at = "submitting"
  /\ task[p].at = "closing" /\ task'[p].at = "marking" => Judge(p)

\* The task of p once its attempt is judged.
Judged(p, reconciled) ==
  [at |-> "marking", event |-> task[p].event, age |-> task[p].age, reconciled |-> reconciled,
   verdict |-> Verdict(task[p].event, task[p].failed, OpenIn(p) = {},
                       reconciled /\ Divergent(p))]

LEMMA JudgeShape ==
  ASSUME LeaseInv, NEW p \in Procs, Judge(p)
  PROVE  \E reconciled \in BOOLEAN : task' = [task EXCEPT ![p] = Judged(p, reconciled)]
BY DEF Judge, Judged

LEMMA OneTask ==
  ASSUME LeaseInv, NEW p \in Procs, NEW q \in Procs, NEW t,
         task' = [task EXCEPT ![q] = t],
         t.at \notin {"submitting", "marking"}
  PROVE  Orderly(p)
<1>1. task'[p] = IF p = q THEN t ELSE task[p]
  BY DEF LeaseInv, Shapes
<1> QED
  BY <1>1 DEF Orderly

LEMMA TasksOrderly ==
  ASSUME LeaseInv, Next, NEW p \in Procs
  PROVE  Orderly(p)
<1>1. CASE UNCHANGED task
  BY <1>1 DEF Orderly
<1>2. CASE TimePasses
  <2>1. /\ task[p] \in Tasks
        /\ task'[p] = IF "age" \in DOMAIN task[p]
                      THEN [task[p] EXCEPT !.age = @ + 1] ELSE task[p]
    BY <1>2 DEF TimePasses, LeaseInv, Shapes
  <2>2. task'[p].at = task[p].at
    <3>1. CASE "age" \in DOMAIN task[p]
      <4>1. task[p] \in Timed /\ "at" \in DOMAIN task[p]
        BY <2>1, <3>1, TimedShape
      <4> QED
        BY <2>1, <3>1, <4>1
    <3> QED
      BY <2>1, <3>1
  <2> QED
    BY <2>2 DEF Orderly
<1>3. ASSUME NEW q \in Procs, Trade(q) \/ Crash(q) PROVE Orderly(p)
  <2>1. ASSUME NEW i \in Instruments, NEW side \in {"BUY", "SELL"}, StartEntry(q, i, side)
        PROVE  Orderly(p)
    <3>1. ~halt.on /\ task' = [task EXCEPT ![q] = [at |-> "submitting", inst |-> i, side |-> side]]
      BY <2>1 DEF StartEntry, EntryAllowed
    <3>2. task'[p].at = "marking" => task[p].at = "marking"
      BY <3>1 DEF LeaseInv, Shapes
    <3> QED
      BY <3>1, <3>2 DEF Orderly
  <2>2. CASE SubmitEntry(q) \/ Crash(q)
    <3>1. task' = [task EXCEPT ![q] = Idle]
      BY <2>2 DEF SubmitEntry, Crash
    <3> QED
      BY <3>1, OneTask DEF Idle
  <2> QED
    BY <1>3, <2>1, <2>2 DEF Trade
<1>4. ASSUME NEW q \in Procs, Attempt(q) PROVE Orderly(p)
  <2>1. CASE CheckHalt(q) \/ StartEod(q)
    <3>1. PICK e : task' = [task EXCEPT ![q] = [at |-> "claiming", event |-> e, age |-> 0]]
      BY <2>1 DEF CheckHalt, StartEod
    <3> QED
      BY <3>1, OneTask
  <2>2. CASE Claim(q)
    <3>1. PICK e : task' = [task EXCEPT ![q] = [at |-> "closing", event |-> e,
                              age |-> task[q].age, todo |-> OpenIn(q), failed |-> FALSE]]
      BY <2>2 DEF Claim
    <3> QED
      BY <3>1, OneTask
  <2>3. CASE Refused(q) \/ Mark(q) \/ MarkLost(q)
    <3>1. task' = [task EXCEPT ![q] = Idle]
      BY <2>3 DEF Refused, Mark, MarkLost
    <3> QED
      BY <3>1, OneTask DEF Idle
  <2>4. ASSUME NEW i \in Instruments, CloseRaises(q, i) PROVE Orderly(p)
    <3>1. task' = [task EXCEPT ![q] = [at |-> "failing", event |-> task[q].event,
                                       age |-> task[q].age]]
      BY <2>4 DEF CloseRaises
    <3> QED
      BY <3>1, OneTask
  <2>5. ASSUME NEW i \in Instruments, CloseOne(q, i) PROVE Orderly(p)
    <3>1. task[q] \in Closing /\ task[q].at = "closing" /\ task \in [Procs -> Tasks]
      BY <2>5, TimedShape DEF CloseOne, LeaseInv, Shapes
    <3>2. \/ task' = [task EXCEPT ![q].todo = @ \ {i}]
          \/ task' = [task EXCEPT ![q].todo = @ \ {i}, ![q].failed = TRUE]
      BY <2>5 DEF CloseOne
    <3>3. task'[q].at = "closing"
      <4>1. CASE task' = [task EXCEPT ![q].todo = @ \ {i}]
        <5>1. task'[q] = [task[q] EXCEPT !.todo = @ \ {i}]
          BY <3>1, <4>1
        <5> QED
          BY <3>1, <5>1 DEF Closing
      <4>2. CASE task' = [task EXCEPT ![q].todo = @ \ {i}, ![q].failed = TRUE]
        <5>1. task'[q] = [task[q] EXCEPT !.todo = @ \ {i}, !.failed = TRUE]
          BY <3>1, <4>2
        <5> QED
          BY <3>1, <5>1 DEF Closing
      <4> QED
        BY <3>2, <4>1, <4>2
    <3>4. p # q => task'[p] = task[p]
      BY <3>1, <3>2
    <3> QED
      BY <3>1, <3>3, <3>4 DEF Orderly
  <2>6. CASE Judge(q)
    <3>1. task[q].at = "closing"
      BY <2>6 DEF Judge
    <3>2. PICK t : task' = [task EXCEPT ![q] = t] /\ t.at = "marking"
      <4>1. PICK reconciled \in BOOLEAN : task' = [task EXCEPT ![q] = Judged(q, reconciled)]
        BY <2>6, JudgeShape
      <4>2. Judged(q, reconciled).at = "marking"
        BY DEF Judged
      <4> QED
        BY <4>1, <4>2
    <3>3. task'[p] = IF p = q THEN t ELSE task[p]
      BY <3>2 DEF LeaseInv, Shapes
    <3> QED
      BY <2>6, <3>2, <3>3 DEF Orderly
  <2> QED
    BY <1>4, <2>1, <2>2, <2>3, <2>4, <2>5, <2>6 DEF Attempt
<1>5. ASSUME NEW q \in Runners, Monitor(q) PROVE Orderly(p)
  BY <1>1, <1>5 DEF Monitor, MonitorExit
<1> QED
  BY <1>1, <1>2, <1>3, <1>4, <1>5, ConstantsAssumption DEF Next, Engage, Reset

-----------------------------------------------------------------------------
(* While the switch is engaged.                                            *)

\* A position that grows is the one its process has just traded.
LEMMA TradedGrows ==
  ASSUME Lots, NEW p \in Procs, NEW i \in Instruments, NEW d \in Int,
         net' = [net EXCEPT ![p][i] = Applied(@, d)],
         NEW q \in Procs, NEW j \in Instruments, Magnitude(net'[q][j]) > Magnitude(net[q][j])
  PROVE  /\ q = p /\ j = i
         /\ ~(Magnitude(Applied(net[p][i], d)) <= Magnitude(net[p][i]))
<1>1. Changed(net', p, i, Applied(net[p][i], d))
  BY TradeChanges
<1>2. net'[q][j] = IF q = p /\ j = i THEN Applied(net[p][i], d) ELSE net[q][j]
  BY <1>1 DEF Changed
<1>3. Magnitude(net[q][j]) \in Int
  BY MagnitudeBounds DEF Lots
<1>4. q = p /\ j = i
  BY <1>2, <1>3
<1>5. Magnitude(Applied(net[p][i], d)) \in Int
  BY AppliedBounds, MagnitudeBounds DEF Lots
<1> QED
  BY <1>2, <1>3, <1>4, <1>5

LEMMA GrowthIsKnown ==
  ASSUME LeaseInv, SizeInv, BookInv, Next, NEW q \in Procs, NEW j \in Instruments,
         Magnitude(net'[q][j]) > Magnitude(net[q][j])
  PROVE  task[q].at = "submitting" \/ Unbacked(q, j)
<1>1. Lots /\ Magnitude(net[q][j]) \in Int
  BY MagnitudeBounds DEF SizeInv, Lots
<1>2. net' # net
  BY <1>1
<1>3. ASSUME NEW p \in Procs, SubmitEntry(p) PROVE task[q].at = "submitting"
  <2>1. \A r \in Procs \ {p} : net'[r] = net[r]
    BY <1>1, <1>3 DEF SubmitEntry, Saved, Unsaved, Lots
  <2>2. q = p
    BY <1>1, <2>1
  <2> QED
    BY <1>3, <2>2 DEF SubmitEntry
<1>4. ASSUME NEW p \in Procs, Crash(p) PROVE FALSE
  <2>1. net'[q][j] = 0 \/ net'[q][j] = net[q][j]
    BY <1>1, <1>4 DEF Crash, Lots
  <2>2. net[q][j] \in Int
    BY <1>1 DEF Lots
  <2> QED
    BY <2>1, <2>2 DEF Magnitude
<1>5. ASSUME NEW p \in Procs, NEW i \in Instruments, CloseOne(p, i) \/ CloseRaises(p, i)
      PROVE  FALSE
  <2> DEFINE d == -net[p][i]
  <2>1. d \in Int /\ Applied(net[p][i], d) = 0
    <3>1. net[p][i] \in Int /\ -net[p][i] \in Int
      BY <1>1 DEF Lots
    <3> QED
      BY <3>1, AppliedBounds
  <2>2. net' = [net EXCEPT ![p][i] = Applied(@, d)]
    BY <1>2, <1>5 DEF CloseOne, CloseRaises, Saved, Unsaved, trading
  <2>3. Magnitude(0) <= Magnitude(net[p][i])
    <3>1. net[p][i] \in Int
      BY <1>1 DEF Lots
    <3> QED
      BY <3>1 DEF Magnitude
  <2> HIDE DEF d
  <2> QED
    BY <1>1, <2>1, <2>2, <2>3, TradedGrows
<1>6. ASSUME NEW p \in Procs, Monitor(p) PROVE Unbacked(q, j)
  <2>1. PICK k \in DOMAIN plans, qty \in 1..MaxSize : MonitorExit(p, k, qty)
    BY <1>6 DEF Monitor
  <2> DEFINE i == plans[k].inst
             m == plans[k].remaining
             d == -Toward(m) * qty
  <2>2. /\ k \in 1..MaxPlans /\ plans[k] \in Watched /\ qty \in Nat \ {0}
        /\ d \in Int /\ i \in Instruments /\ m \in Int
    BY <1>1, <2>1, ExitShape DEF Watched
  <2>3. net' = [net EXCEPT ![p][i] = Applied(@, d)]
    BY <1>2, <2>1 DEF MonitorExit, Saved, Unsaved
  <2>4. q = p /\ j = i /\ ~(Magnitude(Applied(net[p][i], d)) <= Magnitude(net[p][i]))
    <3> HIDE DEF i, d
    <3> QED
      BY <1>1, <2>2, <2>3, TradedGrows
  <2>5. CASE plans[k].owner = p /\ p \notin Lost
    <3>1. SameSide(net[p][i], m) /\ net[p][i] \in Int
      BY <1>1, <2>2, <2>5 DEF BookInv, Backed, BackedIn, Lots
    <3>2. Magnitude(Applied(net[p][i], d)) <= Magnitude(net[p][i])
      <4> HIDE DEF i, m
      <4> QED
        BY <2>2, <3>1, ExitReduces
    <3> QED
      BY <2>4, <3>2
  <2>6. CASE ~(plans[k].owner = p /\ p \notin Lost)
    BY <2>1, <2>4, <2>6 DEF Unbacked, Lost
  <2> QED
    BY <2>5, <2>6
<1>7. ASSUME NEW p \in Procs, Trade(p) \/ Crash(p) PROVE task[q].at = "submitting"
  <2>1. ASSUME NEW i \in Instruments, NEW side \in {"BUY", "SELL"}, StartEntry(p, i, side)
        PROVE  FALSE
    BY <1>2, <2>1 DEF StartEntry, trading
  <2> QED
    BY <1>3, <1>4, <1>7, <2>1 DEF Trade
<1>8. ASSUME NEW p \in Procs, Attempt(p) PROVE FALSE
  <2>1. ~(CheckHalt(p) \/ StartEod(p) \/ Claim(p) \/ Refused(p) \/ Judge(p) \/ Mark(p)
            \/ MarkLost(p))
    BY <1>2 DEF CheckHalt, StartEod, Claim, Refused, Judge, Mark, MarkLost, trading
  <2> QED
    BY <1>5, <1>8, <2>1 DEF Attempt
<1>9. ~(Engage \/ Reset \/ TimePasses)
  BY <1>2 DEF Engage, Reset, TimePasses, trading
<1> QED
  BY <1>6, <1>7, <1>8, <1>9, ConstantsAssumption DEF Next

\* While the kill switch stays engaged nothing sets out to take a position, and a position
\* grows only by an order that had passed the check before, or by the exit of a ledger
\* position that its broker does not hold.
THEOREM HaltedStartsNothingHolds == Spec => HaltedStartsNothing
<1>1. ASSUME LeaseInv, SizeInv, BookInv, Next, halt.on, NEW p \in Procs
      PROVE  /\ task'[p].at = "submitting" => task[p].at = "submitting"
             /\ \A i \in Instruments :
                  Magnitude(net'[p][i]) > Magnitude(net[p][i])
                    => task[p].at = "submitting" \/ Unbacked(p, i)
  BY <1>1, TasksOrderly, GrowthIsKnown DEF Orderly
<1>2. LeaseInv /\ SizeInv /\ BookInv /\ [Next]_vars =>
        [halt.on /\ halt'.on =>
           \A p \in Procs :
             /\ task'[p].at = "submitting" => task[p].at = "submitting"
             /\ \A i \in Instruments :
                  Magnitude(net'[p][i]) > Magnitude(net[p][i])
                    => task[p].at = "submitting" \/ Unbacked(p, i)]_vars
  BY <1>1
<1> QED
  BY <1>2, BooksKept, PTL DEF Spec, HaltedStartsNothing

-----------------------------------------------------------------------------
(* What COMPLETED says.                                                    *)

LEMMA JudgedFlat ==
  ASSUME LeaseInv, BookInv, NEW p \in Procs, Judge(p), task'[p].verdict = "COMPLETED"
  PROVE  /\ Flat(p)
         /\ task[p].event # EodEvent /\ task'[p].reconciled
              => \A q \in Procs : "missing" \notin stray[q] => Flat(q)
<1>1. PICK reconciled \in BOOLEAN :
        /\ task'[p].reconciled = reconciled
        /\ Verdict(task[p].event, task[p].failed, OpenIn(p) = {}, reconciled /\ Divergent(p))
             = "COMPLETED"
  <2>1. PICK reconciled \in BOOLEAN : task' = [task EXCEPT ![p] = Judged(p, reconciled)]
    BY JudgeShape
  <2>2. task'[p] = Judged(p, reconciled)
    BY <2>1 DEF LeaseInv, Shapes
  <2> QED
    BY <2>2 DEF Judged
<1>2. Flat(p)
  BY <1>1 DEF Verdict, Flat
<1>3. ASSUME task[p].event # EodEvent, reconciled PROVE stray[p] = {}
  BY <1>1, <1>3 DEF Verdict, Divergent
<1>4. stray[p] = {} => \A q \in Procs : "missing" \notin stray[q] => Flat(q)
  BY <1>2 DEF BookInv, Noticed, Lost
<1> QED
  BY <1>1, <1>2, <1>3, <1>4

\* An attempt ends COMPLETED only with its own broker flat, and, when it could reconcile,
\* only with every broker flat whose orders reached the ledger.
THEOREM CompletedMeansFlatHolds == Spec => CompletedMeansFlat
<1>1. ASSUME LeaseInv, SizeInv, BookInv, Next, NEW p \in Procs,
             task[p].at = "closing", task'[p].at = "marking", task'[p].verdict = "COMPLETED"
      PROVE  /\ Flat(p)
             /\ task[p].event # EodEvent /\ task'[p].reconciled
                  => \A q \in Procs : "missing" \notin stray[q] => Flat(q)
  BY <1>1, TasksOrderly, JudgedFlat DEF Orderly
<1>2. LeaseInv /\ SizeInv /\ BookInv /\ [Next]_vars =>
        [\A p \in Procs :
           task[p].at = "closing" /\ task'[p].at = "marking" /\ task'[p].verdict = "COMPLETED"
             => /\ Flat(p)
                /\ task[p].event # EodEvent /\ task'[p].reconciled
                     => \A q \in Procs : "missing" \notin stray[q] => Flat(q)]_vars
  BY <1>1
<1> QED
  BY <1>2, BooksKept, PTL DEF Spec, CompletedMeansFlat
=============================================================================
