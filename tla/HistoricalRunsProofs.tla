------------------------ MODULE HistoricalRunsProofs ------------------------
(***************************************************************************)
(* The three properties of the historical runs, for any runs, plans,       *)
(* calendars and fault bounds.                                             *)
(***************************************************************************)
EXTENDS HistoricalRunsProps, TLAPS

Waiting == {Gone, Handling, [at |-> "dispatch"], [at |-> "build"]}
Looping == [at: {"report", "scan", "saved"}, source: {REAL, SYNTHETIC}, i: Nat \ {0},
            failures: Nat, mine: SUBSET Series]
Fetching == [at: {"fetch"}, source: {REAL, SYNTHETIC}, i: Nat \ {0}, failures: Nat,
             mine: SUBSET Series, missing: SUBSET Int, ranges: SUBSET [start: Int, end: Int],
             attempt: Int, persisted: BOOLEAN]
Statuses == {"none", "QUEUED", "RUNNING"} \union Terminal

\* The index of an execution that works on a series is one of its plan.
Placed(e) ==
  LET w == work[e] IN
  w \in Looping \union Fetching =>
    w.i <= Len(Plan[e[1]]) + 1 /\ (w.at # "report" => w.i <= Len(Plan[e[1]]))

Shapes ==
  /\ work \in [Executions -> Waiting \union Looping \union Fetching]
  /\ row \in [Runs -> [status: Statuses, results: SUBSET Series]]
  /\ store \in [Series -> [Slots -> {REAL, SYNTHETIC, Missing}]]
  /\ \A e \in Executions : Placed(e)

-----------------------------------------------------------------------------
\* The series of a plan are series, and its slots are integers.
LEMMA PlanShape ==
  ASSUME NEW r \in Runs
  PROVE  /\ Len(Plan[r]) \in Nat
         /\ \A j \in 1..Len(Plan[r]) : Plan[r][j] \in Series /\ Plan[r][j] \in Range(Plan[r])
         /\ \A s \in Range(Plan[r]) : Expected[r][s] \subseteq Int
         /\ \A s \in Range(Plan[r]) : \E j \in 1..Len(Plan[r]) : Plan[r][j] = s
<1>1. Plan[r] \in Seq(Range(Plan[r])) /\ \A s \in Range(Plan[r]) : Expected[r][s] \subseteq Int
  BY PlanAssumption
<1>2. Len(Plan[r]) \in Nat /\ DOMAIN Plan[r] = 1..Len(Plan[r])
  BY <1>1
<1>3. \A j \in 1..Len(Plan[r]) : Plan[r][j] \in Range(Plan[r])
  BY <1>2 DEF Range
<1>4. \A s \in Range(Plan[r]) : \E j \in 1..Len(Plan[r]) : Plan[r][j] = s
  BY <1>2 DEF Range
<1>5. Range(Plan[r]) \subseteq Series
  BY DEF Series
<1> QED
  BY <1>1, <1>2, <1>3, <1>4, <1>5

\* What is known of an execution from the place it is at.
LEMMA WorkShape ==
  ASSUME Shapes, NEW e \in Executions
  PROVE  /\ work[e].at \in {"report", "scan", "saved"} => work[e] \in Looping
         /\ work[e].at = "fetch" => work[e] \in Fetching
         /\ work[e].at \in {"report", "fetch", "scan", "saved"} =>
              /\ e[1] \in Runs /\ work[e].i \in Nat \ {0} /\ work[e].failures \in Nat
              /\ work[e].source \in {REAL, SYNTHETIC} /\ work[e].mine \subseteq Series
              /\ work[e].i <= Len(Plan[e[1]]) + 1
         /\ work[e].at \in {"fetch", "scan", "saved"} => work[e].i <= Len(Plan[e[1]])
         /\ (work[e].at \in {"report", "fetch", "scan", "saved"} /\ work[e].i <= Len(Plan[e[1]])) =>
              Current(e) \in Series /\ Current(e) \in Range(Plan[e[1]])
<1>1. work[e] \in Waiting \union Looping \union Fetching /\ Placed(e) /\ e[1] \in Runs
  BY DEF Shapes, Executions
<1>2. work[e] \in Waiting => work[e].at \in {"gone", "handler", "dispatch", "build"}
  BY DEF Waiting, Gone, Handling
<1>3. work[e] \in Looping => work[e].at \in {"report", "scan", "saved"}
  BY DEF Looping
<1>4. work[e] \in Fetching => work[e].at = "fetch"
  BY DEF Fetching
<1>5. work[e] \in Looping \union Fetching =>
        /\ work[e].i \in Nat \ {0} /\ work[e].failures \in Nat
        /\ work[e].source \in {REAL, SYNTHETIC} /\ work[e].mine \subseteq Series
  BY DEF Looping, Fetching
<1>6. Len(Plan[e[1]]) \in Nat
  BY <1>1, PlanShape
<1>7. ASSUME work[e] \in Looping \union Fetching, work[e].i <= Len(Plan[e[1]])
      PROVE  Current(e) \in Series /\ Current(e) \in Range(Plan[e[1]])
  <2>1. work[e].i \in 1..Len(Plan[e[1]])
    BY <1>5, <1>6, <1>7
  <2> QED
    BY <2>1, <1>1, PlanShape DEF Current
<1> QED
  BY <1>1, <1>2, <1>3, <1>4, <1>5, <1>7 DEF Placed

-----------------------------------------------------------------------------
(* What the composed alternatives do to an execution.                      *)

\* The broad except: the next series with more failures, or the handler.
LEMMA ExceptMoves ==
  ASSUME NEW e \in Executions, work[e].failures \in Nat, NEW n \in Nat, NEW mine, NEW before,
         Except(e, n, mine, before)
  PROVE  \/ Goes(e, Handling)
         \/ \E k \in Nat \ {0} : NextSeries(e, work[e].failures + k, mine)
<1>1. CASE Goes(e, Handling)
  BY <1>1
<1>2. CASE NextSeries(e, work[e].failures + n + 1, mine)
  <2>1. n + 1 \in Nat \ {0} /\ work[e].failures + n + 1 = work[e].failures + (n + 1)
    OBVIOUS
  <2> QED
    BY <1>2, <2>1
<1> QED
  BY <1>1, <1>2 DEF Except

LEMMA UnavailableMoves ==
  ASSUME NEW e \in Executions, work[e].failures \in Nat, Unavailable(e)
  PROVE  \/ Goes(e, Handling)
         \/ \E k \in Nat \ {0} : NextSeries(e, work[e].failures + k, work[e].mine)
BY ExceptMoves DEF Unavailable

LEMMA PreparedMoves ==
  ASSUME NEW e \in Executions, work[e].failures \in Nat, Prepared(e)
  PROVE  \/ Goes(e, Handling)
         \/ \E k \in Nat \ {0} : NextSeries(e, work[e].failures + k, work[e].mine)
         \/ e[1] \notin Backtests /\ NextSeries(e, work[e].failures, work[e].mine)
         \/ /\ e[1] \in Backtests
            /\ Goes(e, Stage(e, "scan", work[e].i, work[e].failures, work[e].mine))
BY ExceptMoves DEF Prepared

-----------------------------------------------------------------------------
(* Shapes is an invariant.                                                 *)

WellPlaced(e, w) ==
  w \in Looping \union Fetching =>
    w.i <= Len(Plan[e[1]]) + 1 /\ (w.at # "report" => w.i <= Len(Plan[e[1]]))

\* A step of one execution keeps the shapes if what it goes to has one.
LEMMA GoesKeeps ==
  ASSUME Shapes, NEW e \in Executions, NEW w \in Waiting \union Looping \union Fetching,
         Goes(e, w), WellPlaced(e, w),
         row' \in [Runs -> [status: Statuses, results: SUBSET Series]],
         store' \in [Series -> [Slots -> {REAL, SYNTHETIC, Missing}]]
  PROVE  Shapes'
<1>1. work' \in [Executions -> Waiting \union Looping \union Fetching]
  BY DEF Shapes, Goes
<1>2. ASSUME NEW f \in Executions PROVE Placed(f)'
  <2>1. CASE f = e
    BY <2>1 DEF Shapes, Goes, Placed, WellPlaced
  <2>2. CASE f # e
    BY <2>2 DEF Shapes, Goes, Placed
  <2> QED
    BY <2>1, <2>2
<1> QED
  BY <1>1, <1>2 DEF Shapes

LEMMA WaitingKeeps ==
  ASSUME Shapes, NEW e \in Executions, NEW w \in Waiting, Goes(e, w),
         row' \in [Runs -> [status: Statuses, results: SUBSET Series]],
         store' \in [Series -> [Slots -> {REAL, SYNTHETIC, Missing}]]
  PROVE  Shapes'
<1>1. w \notin Looping \union Fetching
  BY DEF Waiting, Looping, Fetching, Gone, Handling
<1> QED
  BY <1>1, GoesKeeps DEF WellPlaced

\* A stage further: the next series, or the scan of this one.
LEMMA StageKeeps ==
  ASSUME Shapes, NEW e \in Executions,
         work[e].at \in {"report", "fetch", "scan", "saved"}, work[e].i <= Len(Plan[e[1]]),
         NEW failures \in Nat, NEW mine \in SUBSET Series,
         \/ NextSeries(e, failures, mine)
         \/ Goes(e, Stage(e, "scan", work[e].i, failures, mine)),
         row' \in [Runs -> [status: Statuses, results: SUBSET Series]],
         store' \in [Series -> [Slots -> {REAL, SYNTHETIC, Missing}]]
  PROVE  Shapes'
<1>1. /\ work[e].i \in Nat \ {0} /\ work[e].source \in {REAL, SYNTHETIC}
      /\ Len(Plan[e[1]]) \in Nat
  BY WorkShape, PlanShape
<1>2. CASE NextSeries(e, failures, mine)
  <2> DEFINE w == Stage(e, "report", work[e].i + 1, failures, mine)
  <2>1. w \in Looping /\ w.at = "report" /\ w.i = work[e].i + 1
    BY <1>1 DEF Stage, Looping
  <2>2. WellPlaced(e, w)
    BY <1>1, <2>1 DEF WellPlaced
  <2>3. Goes(e, w)
    BY <1>2 DEF NextSeries
  <2> QED
    BY <2>1, <2>2, <2>3, GoesKeeps
<1>3. CASE Goes(e, Stage(e, "scan", work[e].i, failures, mine))
  <2> DEFINE w == Stage(e, "scan", work[e].i, failures, mine)
  <2>1. w \in Looping /\ w.i = work[e].i
    BY <1>1 DEF Stage, Looping
  <2>2. WellPlaced(e, w)
    BY <1>1, <2>1 DEF WellPlaced
  <2> QED
    BY <2>1, <2>2, <1>3, GoesKeeps
<1> QED
  BY <1>2, <1>3

\* All the ways on from a series: none, one or more failures, its scan, the handler.
Onward(e, mine) ==
  \/ Goes(e, Handling)
  \/ \E k \in Nat : NextSeries(e, work[e].failures + k, mine)
  \/ Goes(e, Stage(e, "scan", work[e].i, work[e].failures, mine))

LEMMA OnwardKeeps ==
  ASSUME Shapes, NEW e \in Executions,
         work[e].at \in {"report", "fetch", "scan", "saved"}, work[e].i <= Len(Plan[e[1]]),
         NEW mine \in SUBSET Series, Onward(e, mine),
         row' \in [Runs -> [status: Statuses, results: SUBSET Series]],
         store' \in [Series -> [Slots -> {REAL, SYNTHETIC, Missing}]]
  PROVE  Shapes'
<1>1. work[e].failures \in Nat
  BY WorkShape
<1>2. CASE Goes(e, Handling)
  BY <1>2, WaitingKeeps DEF Waiting
<1>3. ASSUME NEW k \in Nat, NextSeries(e, work[e].failures + k, mine) PROVE Shapes'
  <2>1. work[e].failures + k \in Nat
    BY <1>1
  <2> QED
    BY <1>3, <2>1, StageKeeps
<1>4. CASE Goes(e, Stage(e, "scan", work[e].i, work[e].failures, mine))
  BY <1>1, <1>4, StageKeeps
<1> QED
  BY <1>2, <1>3, <1>4 DEF Onward

LEMMA InitShapes == Init => Shapes
<1> SUFFICES ASSUME Init PROVE Shapes
  OBVIOUS
<1>1. work \in [Executions -> Waiting \union Looping \union Fetching]
  BY DEF Init, Waiting
<1>2. row \in [Runs -> [status: Statuses, results: SUBSET Series]]
  BY DEF Init, Statuses
<1>3. store \in [Series -> [Slots -> {REAL, SYNTHETIC, Missing}]]
  BY DEF Init
<1>4. ASSUME NEW e \in Executions PROVE Placed(e)
  <2>1. work[e] = Gone
    BY DEF Init
  <2> QED
    BY <2>1 DEF Placed, Gone, Looping, Fetching
<1> QED
  BY <1>1, <1>2, <1>3, <1>4 DEF Shapes

LEMMA AdvanceShapes ==
  ASSUME Shapes, NEW e \in Executions, Advance(e)
  PROVE  Shapes'
<1> DEFINE RowType == [Runs -> [status: Statuses, results: SUBSET Series]]
           StoreType == [Series -> [Slots -> {REAL, SYNTHETIC, Missing}]]
<1>1. row \in RowType /\ store \in StoreType /\ e[1] \in Runs
  BY DEF Shapes, Executions
<1>2. \A x \in Statuses : Status(e, x) => row' \in RowType
  BY <1>1 DEF Status
<1>3. Gone \in Waiting /\ Handling \in Waiting
  BY DEF Waiting
<1>4. CASE Begin(e)
  <2>1. row' \in RowType /\ store' = store
    BY <1>1, <1>2, <1>4 DEF Begin, Statuses
  <2>2. CASE Goes(e, Handling) \/ Goes(e, Gone)
    BY <1>1, <1>3, <2>1, <2>2, WaitingKeeps
  <2>3. ASSUME NEW source \in {REAL, SYNTHETIC},
               Goes(e, [at |-> "report", source |-> source, i |-> 1, failures |-> 0, mine |-> {}])
        PROVE  Shapes'
    <3> DEFINE w == [at |-> "report", source |-> source, i |-> 1, failures |-> 0, mine |-> {}]
    <3>1. w \in Looping /\ w.at = "report" /\ w.i = 1
      BY DEF Looping
    <3>2. Len(Plan[e[1]]) \in Nat
      BY <1>1, PlanShape
    <3>3. WellPlaced(e, w)
      BY <3>1, <3>2 DEF WellPlaced
    <3>4. row' \in [Runs -> [status: Statuses, results: SUBSET Series]]
      BY <2>1
    <3>5. store' \in [Series -> [Slots -> {REAL, SYNTHETIC, Missing}]]
      BY <1>1, <2>1
    <3> QED
      BY <2>3, <3>1, <3>3, <3>4, <3>5, GoesKeeps
  <2> QED
    BY <1>4, <2>2, <2>3 DEF Begin
<1>5. CASE Report(e)
  <2>1. At(e, "report") /\ work[e].i <= Len(Plan[e[1]]) /\ row' = row /\ store' = store
    BY <1>5 DEF Report
  <2>2. work[e].failures \in Nat /\ work[e].mine \subseteq Series
    BY <2>1, WorkShape DEF At
  <2>3. CASE Prepared(e)
    <3>1. Onward(e, work[e].mine)
      BY <2>2, <2>3, PreparedMoves DEF Onward
    <3> QED
      BY <1>1, <2>1, <2>2, <3>1, OnwardKeeps DEF At
  <2>4. CASE ~Prepared(e)
    <3> DEFINE missing == Uncovered(e[1], Current(e))
               w == [at |-> "fetch", source |-> work[e].source, i |-> work[e].i,
                     failures |-> work[e].failures, mine |-> work[e].mine,
                     missing |-> missing, ranges |-> Ranges(missing),
                     attempt |-> 0, persisted |-> FALSE]
    <3>1. Goes(e, w)
      BY <1>5, <2>4 DEF Report
    <3>2. missing \subseteq Int
      BY <2>1, WorkShape, PlanShape, <1>1 DEF At, Uncovered
    <3>3. Ranges(missing) \subseteq [start: Int, end: Int]
      BY <3>2 DEF Ranges
    <3>4. /\ work[e].source \in {REAL, SYNTHETIC} /\ work[e].i \in Nat \ {0}
          /\ Len(Plan[e[1]]) \in Nat
      BY <2>1, WorkShape, PlanShape, <1>1 DEF At
    <3>5. w \in Fetching /\ w.i = work[e].i
      BY <2>2, <3>2, <3>3, <3>4 DEF Fetching
    <3>6. WellPlaced(e, w)
      BY <2>1, <3>4, <3>5 DEF WellPlaced
    <3>7. row' \in RowType /\ store' \in StoreType
      BY <1>1, <2>1
    <3> HIDE DEF w
    <3> QED
      BY <3>1, <3>5, <3>6, <3>7, GoesKeeps
  <2> QED
    BY <2>3, <2>4
<1>6. CASE FetchRange(e)
  <2>1. At(e, "fetch") /\ row' = row
    BY <1>6 DEF FetchRange
  <2>2. /\ work[e] \in Fetching /\ work[e].i <= Len(Plan[e[1]]) /\ Current(e) \in Series
        /\ work[e].i \in Nat /\ Len(Plan[e[1]]) \in Nat
    BY <2>1, WorkShape, PlanShape, <1>1 DEF At
  <2>3. PICK range \in work[e].ranges :
          \E fetched \in SUBSET Covered(e[1], Current(e), range) :
            /\ Upsert(e, fetched)
            /\ Goes(e, [work[e] EXCEPT !.ranges = @ \ {range}, !.attempt = 0,
                                       !.persisted = @ \/ fetched # {}])
    BY <1>6 DEF FetchRange
  <2>8. PICK fetched \in SUBSET Covered(e[1], Current(e), range) :
          /\ Upsert(e, fetched)
          /\ Goes(e, [work[e] EXCEPT !.ranges = @ \ {range}, !.attempt = 0,
                                     !.persisted = @ \/ fetched # {}])
    BY <2>3
  <2> DEFINE w == [work[e] EXCEPT !.ranges = @ \ {range}, !.attempt = 0,
                                  !.persisted = @ \/ fetched # {}]
  <2>4. w \in Fetching /\ w.i = work[e].i
    <3>1. work[e].ranges \ {range} \in SUBSET [start: Int, end: Int]
      BY <2>2 DEF Fetching
    <3>2. (work[e].persisted \/ fetched # {}) \in BOOLEAN
      OBVIOUS
    <3> DEFINE rest == work[e].ranges \ {range}
               some == work[e].persisted \/ fetched # {}
               u == [work[e] EXCEPT !.ranges = rest]
               v == [u EXCEPT !.attempt = 0]
    <3> HIDE DEF rest, some
    <3>3. u \in Fetching /\ u.i = work[e].i
      BY <2>2, <3>1 DEF Fetching, rest
    <3> HIDE DEF u
    <3>4. v \in Fetching /\ v.i = u.i
      BY <3>3 DEF Fetching
    <3> HIDE DEF v
    <3>5. [v EXCEPT !.persisted = some] \in Fetching /\ [v EXCEPT !.persisted = some].i = v.i
      BY <3>2, <3>4 DEF Fetching, some
    <3>6. w = [v EXCEPT !.persisted = some]
      BY DEF u, v, rest, some
    <3> QED
      BY <3>3, <3>4, <3>5, <3>6
  <2>5. WellPlaced(e, w)
    BY <2>2, <2>4 DEF WellPlaced
  <2>6. store' \in StoreType
    <3>1. work[e].source \in {REAL, SYNTHETIC}
      BY <2>2 DEF Fetching
    <3>2. [t \in Slots |-> IF t \in fetched THEN work[e].source ELSE store[Current(e)][t]]
            \in [Slots -> {REAL, SYNTHETIC, Missing}]
      BY <1>1, <2>2, <3>1
    <3> QED
      BY <1>1, <2>2, <2>8, <3>2 DEF Upsert
  <2>7. row' \in RowType /\ Goes(e, w)
    BY <1>1, <2>1, <2>8
  <2> HIDE DEF w
  <2> QED
    BY <2>4, <2>5, <2>6, <2>7, GoesKeeps
<1>7. CASE FetchFails(e) \/ FetchInvalid(e) \/ Fetched(e) \/ Raises(e)
  <2>1. /\ At(e, "fetch") \/ (At(e, "report") /\ work[e].i <= Len(Plan[e[1]]))
        /\ row' = row /\ store' = store
    <3>1. FetchFails(e) \/ FetchInvalid(e) \/ Fetched(e) => At(e, "fetch")
      BY DEF FetchFails, FetchInvalid, Fetched
    <3>2. Raises(e) => work[e].at \in {"report", "fetch"} /\ work[e].i <= Len(Plan[e[1]])
      BY DEF Raises
    <3>3. row' = row /\ store' = store
      BY <1>7 DEF FetchFails, FetchInvalid, Fetched, Raises
    <3> QED
      BY <1>7, <3>1, <3>2, <3>3 DEF At
  <2>2. /\ work[e].failures \in Nat /\ work[e].mine \subseteq Series
        /\ work[e].i <= Len(Plan[e[1]]) /\ work[e].at \in {"report", "fetch", "scan", "saved"}
    BY <2>1, WorkShape DEF At
  <2>3. CASE Prepared(e) \/ Unavailable(e) \/ Except(e, 0, work[e].mine, 1)
    <3>1. Onward(e, work[e].mine)
      BY <2>2, <2>3, PreparedMoves, UnavailableMoves, ExceptMoves DEF Onward
    <3> QED
      BY <1>1, <2>1, <2>2, <3>1, OnwardKeeps
  <2>4. CASE /\ At(e, "fetch")
             /\ Goes(e, [work[e] EXCEPT !.attempt = Attempt(@)])
    <3> DEFINE w == [work[e] EXCEPT !.attempt = Attempt(@)]
    <3>1. work[e] \in Fetching /\ Len(Plan[e[1]]) \in Nat
      BY <2>4, WorkShape, PlanShape, <1>1 DEF At
    <3>2. w \in Fetching /\ w.i = work[e].i /\ w.i \in Nat
      BY <3>1 DEF Fetching, Attempt
    <3>3. WellPlaced(e, w)
      BY <2>2, <3>1, <3>2 DEF WellPlaced
    <3>4. row' \in RowType /\ store' \in StoreType /\ Goes(e, w)
      BY <1>1, <2>1, <2>4
    <3> HIDE DEF w
    <3> QED
      BY <3>2, <3>3, <3>4, GoesKeeps
  <2> QED
    BY <1>7, <2>3, <2>4 DEF FetchFails, FetchInvalid, Fetched, Raises
<1>8. CASE Scan(e)
  <2>1. At(e, "scan") /\ row' = row /\ store' = store
    BY <1>8 DEF Scan
  <2>2. /\ work[e] \in Looping /\ work[e].failures \in Nat /\ work[e].mine \subseteq Series
        /\ work[e].i <= Len(Plan[e[1]]) /\ work[e].i \in Nat /\ Len(Plan[e[1]]) \in Nat
    BY <2>1, WorkShape, PlanShape, <1>1 DEF At
  <2>3. CASE Unavailable(e) \/ Except(e, 0, work[e].mine, 0)
    <3>1. Onward(e, work[e].mine)
      BY <2>2, <2>3, UnavailableMoves, ExceptMoves DEF Onward
    <3> QED
      BY <1>1, <2>1, <2>2, <3>1, OnwardKeeps DEF At
  <2>4. CASE Goes(e, [work[e] EXCEPT !.at = "saved"])
    <3> DEFINE w == [work[e] EXCEPT !.at = "saved"]
    <3>1. w \in Looping /\ w.i = work[e].i
      BY <2>2 DEF Looping
    <3>2. WellPlaced(e, w)
      BY <2>2, <3>1 DEF WellPlaced
    <3>3. row' \in RowType /\ store' \in StoreType /\ Goes(e, w)
      BY <1>1, <2>1, <2>4
    <3> HIDE DEF w
    <3> QED
      BY <3>1, <3>2, <3>3, GoesKeeps
  <2> QED
    BY <1>8, <2>3, <2>4 DEF Scan
<1>9. CASE Record(e)
  <2> DEFINE mine == work[e].mine \union {Current(e)}
  <2>1. /\ At(e, "saved") /\ store' = store
        /\ row' = [row EXCEPT ![e[1]].results = mine] \/ row' = row
    BY <1>9 DEF Record
  <2>2. /\ work[e].failures \in Nat /\ mine \in SUBSET Series
        /\ work[e].i <= Len(Plan[e[1]])
    BY <2>1, WorkShape DEF At
  <2>3. row' \in RowType
    BY <1>1, <2>1, <2>2
  <2>4. NextSeries(e, work[e].failures, mine) \/ Except(e, 0, mine, 1)
    BY <1>9 DEF Record
  <2>5. Onward(e, mine)
    <3>1. work[e].failures + 0 = work[e].failures /\ 0 \in Nat
      BY <2>2
    <3> HIDE DEF mine
    <3> QED
      BY <2>2, <2>4, <3>1, ExceptMoves DEF Onward
  <2> HIDE DEF mine
  <2> QED
    BY <1>1, <2>1, <2>2, <2>3, <2>5, OnwardKeeps DEF At
<1>10. CASE Finish(e)
  <2>1. store' = store /\ (Goes(e, Gone) \/ Goes(e, Handling))
    BY <1>10 DEF Finish
  <2>2. row' \in RowType
    BY <1>1, <1>2, <1>10 DEF Finish, Verdict, Statuses, Terminal
  <2> QED
    BY <1>1, <1>3, <2>1, <2>2, WaitingKeeps
<1>11. CASE Handler(e)
  <2>1. store' = store /\ Goes(e, Gone)
    BY <1>11 DEF Handler
  <2>2. row' \in RowType
    BY <1>1, <1>2, <1>11 DEF Handler, Statuses, Terminal
  <2> QED
    BY <1>1, <1>3, <2>1, <2>2, WaitingKeeps
<1> QED
  BY <1>4, <1>5, <1>6, <1>7, <1>8, <1>9, <1>10, <1>11 DEF Advance

LEMMA StepShapes == Shapes /\ [Next]_vars => Shapes'
<1> SUFFICES ASSUME Shapes, [Next]_vars PROVE Shapes'
  OBVIOUS
<1> DEFINE RowType == [Runs -> [status: Statuses, results: SUBSET Series]]
           StoreType == [Series -> [Slots -> {REAL, SYNTHETIC, Missing}]]
<1>1. row \in RowType /\ store \in StoreType
  BY DEF Shapes
<1>2. Gone \in Waiting /\ [at |-> "dispatch"] \in Waiting /\ [at |-> "build"] \in Waiting
  BY DEF Waiting
<1>3. ASSUME NEW r \in Runs, Create(r) \/ Dispatch(r) \/ Receive(r) PROVE Shapes'
  <2>1. <<r, "web">> \in Executions /\ <<r, "worker">> \in Executions
    BY DEF Executions
  <2>2. row' \in RowType /\ store' \in StoreType
    <3>1. store' = store /\ (row' = row \/ row' = [row EXCEPT ![r].status = "QUEUED"])
      BY <1>3 DEF Create, Dispatch, Receive
    <3> QED
      BY <1>1, <3>1 DEF Statuses
  <2>3. \E e \in Executions, w \in Waiting : Goes(e, w)
    BY <1>2, <1>3, <2>1 DEF Create, Dispatch, Receive
  <2> QED
    BY <2>2, <2>3, WaitingKeeps
<1>4. ASSUME NEW e \in Executions, Advance(e) PROVE Shapes'
  BY <1>4, AdvanceShapes
<1>5. ASSUME NEW e \in Executions, Killed(e) PROVE Shapes'
  <2>1. Goes(e, Gone) /\ row' \in RowType /\ store' \in StoreType
    BY <1>1, <1>5 DEF Killed
  <2> QED
    BY <1>2, <2>1, WaitingKeeps
<1>6. CASE UNCHANGED vars
  BY <1>6 DEF vars, Shapes, Placed
<1> QED
  BY <1>3, <1>4, <1>5, <1>6 DEF Next

\* The types, and the bounds of every index, in every reachable state.
THEOREM WellShaped == Spec => []Shapes
BY InitShapes, StepShapes, PTL DEF Spec

-----------------------------------------------------------------------------
(* No run is left behind.                                                  *)

LEMMA InitLeft == Init => NeverLeftBehind
BY DEF Init, NeverLeftBehind

\* The run of the step still has an execution, or its row is terminal, or it is lost; the
\* other runs keep what they have.
LEMMA RunKept ==
  ASSUME Shapes, NeverLeftBehind, NEW e \in Executions, NEW w, Goes(e, w),
         queue \ {e[1]} \subseteq queue', lost \subseteq lost',
         \A r \in Runs \ {e[1]} : row'[r] = row[r],
         \/ w.at # "gone" \/ row'[e[1]].status \in Terminal \/ e[1] \in lost' \/ e[1] \in queue'
         \/ row'[e[1]].status = "none"
  PROVE  NeverLeftBehind'
<1> SUFFICES ASSUME NEW r \in Runs, row'[r].status \in {"QUEUED", "RUNNING"}
             PROVE  \/ r \in queue' \/ r \in lost'
                    \/ \E place \in {"web", "worker"} : work'[<<r, place>>].at # "gone"
  BY DEF NeverLeftBehind, At
<1>1. PICK p \in {"web", "worker"} : e = <<e[1], p>>
  BY DEF Executions
<1>2. CASE r = e[1]
  <2>1. work'[e] = w
    BY DEF Goes, Shapes
  <2>2. row'[r].status \notin Terminal
    BY DEF Terminal
  <2> QED
    BY <1>1, <1>2, <2>1, <2>2
<1>3. CASE r # e[1]
  <2>1. \A place \in {"web", "worker"} : work'[<<r, place>>] = work[<<r, place>>]
    <3>1. \A place \in {"web", "worker"} : <<r, place>> # e /\ <<r, place>> \in Executions
      BY <1>1, <1>3 DEF Executions
    <3> QED
      BY <3>1 DEF Goes, Shapes
  <2>2. row'[r] = row[r]
    BY <1>3
  <2> QED
    BY <1>3, <2>1, <2>2 DEF NeverLeftBehind, At
<1> QED
  BY <1>2, <1>3

LEMMA AdvanceLeft ==
  ASSUME Shapes, NeverLeftBehind, NEW e \in Executions, Advance(e)
  PROVE  NeverLeftBehind'
<1>1. e[1] \in Runs /\ DOMAIN row = Runs /\ queue' = queue
  BY DEF Shapes, Executions, Advance, Begin, Report, FetchRange, FetchFails, FetchInvalid, Fetched,
         Raises, Scan, Record, Finish, Handler
<1>2. Gone.at = "gone" /\ Handling.at # "gone"
  BY DEF Gone, Handling
<1>3. ASSUME NEW x, Status(e, x)
      PROVE  row'[e[1]].status = x /\ \A r \in Runs \ {e[1]} : row'[r] = row[r]
  BY <1>1, <1>3 DEF Status, Shapes
<1>4. CASE Begin(e)
  <2>1. CASE Status(e, "RUNNING") /\ UNCHANGED lost /\ \E source \in {REAL, SYNTHETIC} :
          Goes(e, [at |-> "report", source |-> source, i |-> 1, failures |-> 0, mine |-> {}])
    BY <1>1, <1>3, <2>1, RunKept
  <2>2. CASE UNCHANGED <<row, lost>> /\ Goes(e, Handling)
    BY <1>1, <1>2, <2>2, RunKept
  <2>3. CASE UNCHANGED row /\ Goes(e, Gone) /\ lost' = lost \union {e[1]}
    BY <1>1, <2>3, RunKept
  <2> QED
    BY <1>4, <2>1, <2>2, <2>3 DEF Begin
<1>5. CASE Report(e) \/ FetchRange(e) \/ FetchFails(e) \/ FetchInvalid(e) \/ Fetched(e)
             \/ Raises(e) \/ Scan(e) \/ Record(e)
  <2>1. lost' = lost /\ \A r \in Runs \ {e[1]} : row'[r] = row[r]
    BY <1>1, <1>5 DEF Report, FetchRange, FetchFails, FetchInvalid, Fetched, Raises, Scan, Record
  <2>2. \E w : w.at # "gone" /\ Goes(e, w)
    <3>1. \A at, i, failures, mine : Stage(e, at, i, failures, mine).at = at
      BY DEF Stage
    <3>2. \A failures, mine : NextSeries(e, failures, mine) => \E w : w.at # "gone" /\ Goes(e, w)
      BY <3>1 DEF NextSeries
    <3>3. \A n, mine, before : Except(e, n, mine, before) => \E w : w.at # "gone" /\ Goes(e, w)
      BY <1>2, <3>2 DEF Except
    <3>4. Unavailable(e) \/ Prepared(e) => \E w : w.at # "gone" /\ Goes(e, w)
      BY <3>1, <3>2, <3>3 DEF Unavailable, Prepared
    <3>5. ASSUME At(e, "fetch"), NEW ranges, NEW attempt, NEW persisted
          PROVE  /\ [work[e] EXCEPT !.ranges = ranges, !.attempt = attempt,
                                    !.persisted = persisted].at # "gone"
                 /\ [work[e] EXCEPT !.attempt = attempt].at # "gone"
      BY <3>5, WorkShape DEF At, Fetching
    <3>6. CASE Report(e)
      BY <3>4, <3>6 DEF Report
    <3>7. CASE FetchRange(e)
      BY <3>5, <3>7 DEF FetchRange
    <3>8. CASE FetchFails(e)
      BY <3>4, <3>5, <3>8 DEF FetchFails
    <3>9. CASE FetchInvalid(e) \/ Fetched(e) \/ Raises(e)
      BY <3>3, <3>4, <3>9 DEF FetchInvalid, Fetched, Raises
    <3>10. CASE Scan(e)
      <4>1. [work[e] EXCEPT !.at = "saved"].at # "gone"
        <5>1. work[e] \in Looping
          BY <3>10, WorkShape DEF Scan, At
        <5> QED
          BY <5>1 DEF Looping
      <4> QED
        BY <3>3, <3>4, <3>10, <4>1 DEF Scan
    <3>11. CASE Record(e)
      BY <3>2, <3>3, <3>11 DEF Record
    <3> QED
      BY <1>5, <3>6, <3>7, <3>8, <3>9, <3>10, <3>11
  <2> QED
    BY <1>1, <2>1, <2>2, RunKept
<1>6. CASE Finish(e)
  <2>1. CASE UNCHANGED row /\ Goes(e, Handling)
    BY <1>1, <1>2, <1>6, <2>1, RunKept DEF Finish
  <2>2. CASE Status(e, Verdict(work[e].failures, Len(Plan[e[1]]))) /\ Goes(e, Gone)
    <3>1. Verdict(work[e].failures, Len(Plan[e[1]])) \in Terminal
      BY DEF Verdict, Terminal
    <3> QED
      BY <1>1, <1>3, <1>6, <2>2, <3>1, RunKept DEF Finish
  <2> QED
    BY <1>6, <2>1, <2>2 DEF Finish
<1>7. CASE Handler(e)
  <2>1. CASE Status(e, "FAILED") /\ UNCHANGED lost
    BY <1>1, <1>3, <1>7, <2>1, RunKept DEF Handler, Terminal
  <2>2. CASE UNCHANGED row /\ lost' = lost \union {e[1]}
    BY <1>1, <1>7, <2>2, RunKept DEF Handler
  <2> QED
    BY <1>7, <2>1, <2>2 DEF Handler
<1> QED
  BY <1>4, <1>5, <1>6, <1>7 DEF Advance

LEMMA StepLeft == Shapes /\ NeverLeftBehind /\ [Next]_vars => NeverLeftBehind'
<1> SUFFICES ASSUME Shapes, NeverLeftBehind, [Next]_vars PROVE NeverLeftBehind'
  OBVIOUS
<1>1. DOMAIN row = Runs /\ \A r \in Runs : "status" \in DOMAIN row[r]
  BY DEF Shapes
<1>2. ASSUME NEW r \in Runs, Create(r) \/ Dispatch(r) \/ Receive(r) PROVE NeverLeftBehind'
  <2> DEFINE web == <<r, "web">>
             worker == <<r, "worker">>
  <2>1. web \in Executions /\ worker \in Executions /\ web[1] = r /\ worker[1] = r
    BY DEF Executions
  <2>2. CASE Create(r)
    <3>1. Goes(web, [at |-> "dispatch"]) /\ queue' = queue /\ lost' = lost
          /\ \A x \in Runs \ {r} : row'[x] = row[x]
      BY <1>1, <2>2 DEF Create
    <3> HIDE DEF web
    <3> QED
      BY <2>1, <3>1, RunKept
  <2>3. CASE Dispatch(r)
    <3>1. queue \subseteq queue' /\ lost' = lost /\ row' = row
      BY <2>3 DEF Dispatch
    <3>2. Goes(web, [at |-> "build"]) \/ (Goes(web, Gone) /\ r \in queue')
      BY <2>3 DEF Dispatch
    <3> HIDE DEF web
    <3> QED
      BY <2>1, <3>1, <3>2, RunKept
  <2>4. CASE Receive(r)
    <3>1. /\ queue' = queue \ {r} /\ lost' = lost /\ row' = row
          /\ Goes(worker, [at |-> "build"])
      BY <2>4 DEF Receive
    <3> HIDE DEF worker
    <3> QED
      BY <2>1, <3>1, RunKept
  <2> QED
    BY <1>2, <2>2, <2>3, <2>4
<1>3. ASSUME NEW e \in Executions, Advance(e) PROVE NeverLeftBehind'
  BY <1>3, AdvanceLeft
<1>4. ASSUME NEW e \in Executions, Killed(e) PROVE NeverLeftBehind'
  BY <1>4, RunKept DEF Killed
<1>5. CASE UNCHANGED vars
  BY <1>5 DEF vars, NeverLeftBehind, At
<1> QED
  BY <1>2, <1>3, <1>4, <1>5 DEF Next

\* A run that was asked for shows a terminal status, or something is still going to work on
\* it, or an execution of it ended without being able to say so.
THEOREM NothingLeftBehind == Spec => []NeverLeftBehind
BY WellShaped, InitLeft, StepLeft, PTL DEF Spec

-----------------------------------------------------------------------------
(* Bars of Dhan's are kept.                                                *)

\* The ranges an execution has still to fetch lie in what it had found missing.
OnlyMissing(w) == \A range \in w.ranges : range.start .. range.end \subseteq w.missing
RangesMissing == \A e \in Executions : At(e, "fetch") => OnlyMissing(work[e])

LEMMA RangesKept ==
  ASSUME Shapes, RangesMissing, NEW e \in Executions, NEW w, Goes(e, w),
         w.at = "fetch" => OnlyMissing(w)
  PROVE  RangesMissing'
<1> SUFFICES ASSUME NEW f \in Executions, work'[f].at = "fetch"
             PROVE  OnlyMissing(work'[f])
  BY DEF RangesMissing, At, OnlyMissing
<1>1. CASE f = e
  <2>1. work'[f] = w
    BY <1>1 DEF Goes, Shapes
  <2> QED
    BY <2>1
<1>2. CASE f # e
  <2>1. work'[f] = work[f]
    BY <1>2 DEF Goes, Shapes
  <2> QED
    BY <2>1 DEF RangesMissing, At
<1> QED
  BY <1>1, <1>2

\* The ways on from a series do not lead back to the fetching.
LEMMA OnwardElsewhere ==
  ASSUME NEW e \in Executions, NEW mine, Onward(e, mine)
  PROVE  \E w : Goes(e, w) /\ w.at # "fetch"
<1>1. \A at, i, failures : Stage(e, at, i, failures, mine).at = at
  BY DEF Stage
<1>2. Handling.at # "fetch"
  BY DEF Handling
<1>3. \A failures : NextSeries(e, failures, mine) => \E w : Goes(e, w) /\ w.at # "fetch"
  BY <1>1 DEF NextSeries
<1>4. Stage(e, "scan", work[e].i, work[e].failures, mine).at # "fetch"
  BY <1>1
<1>5. CASE Goes(e, Handling)
  BY <1>2, <1>5
<1>6. CASE \E k \in Nat : NextSeries(e, work[e].failures + k, mine)
  BY <1>3, <1>6
<1>7. CASE Goes(e, Stage(e, "scan", work[e].i, work[e].failures, mine))
  BY <1>4, <1>7
<1> QED
  BY <1>5, <1>6, <1>7 DEF Onward

LEMMA AdvanceRanges ==
  ASSUME Shapes, RangesMissing, NEW e \in Executions, Advance(e)
  PROVE  RangesMissing'
<1>1. Gone.at # "fetch" /\ Handling.at # "fetch"
  BY DEF Gone, Handling
<1>2. CASE Begin(e) \/ Finish(e) \/ Handler(e)
  BY <1>1, <1>2, RangesKept DEF Begin, Finish, Handler
<1>3. ASSUME work[e].at \in {"report", "fetch", "scan", "saved"},
             \/ Prepared(e) \/ Unavailable(e)
             \/ \E mine, before : Except(e, 0, mine, before)
      PROVE  RangesMissing'
  <2>1. work[e].failures \in Nat
    BY <1>3, WorkShape
  <2>2. ASSUME Prepared(e) \/ Unavailable(e) PROVE Onward(e, work[e].mine)
    BY <2>1, <2>2, PreparedMoves, UnavailableMoves DEF Onward
  <2>3. ASSUME NEW mine, NEW before, Except(e, 0, mine, before) PROVE Onward(e, mine)
    BY <2>1, <2>3, ExceptMoves DEF Onward
  <2>4. \E mine : Onward(e, mine)
    BY <1>3, <2>2, <2>3
  <2>5. \E w : Goes(e, w) /\ w.at # "fetch"
    BY <2>4, OnwardElsewhere
  <2> QED
    BY <2>5, RangesKept
<1>4. CASE Report(e)
  <2>1. CASE Prepared(e)
    BY <1>3, <1>4, <2>1 DEF Report, At
  <2>2. CASE ~Prepared(e)
    <3> DEFINE missing == Uncovered(e[1], Current(e))
               w == [at |-> "fetch", source |-> work[e].source, i |-> work[e].i,
                     failures |-> work[e].failures, mine |-> work[e].mine,
                     missing |-> missing, ranges |-> Ranges(missing),
                     attempt |-> 0, persisted |-> FALSE]
    <3>1. Goes(e, w)
      BY <1>4, <2>2 DEF Report
    <3>2. w.ranges = Ranges(missing) /\ w.missing = missing
      OBVIOUS
    <3>3. \A range \in Ranges(missing) : range.start .. range.end \subseteq missing
      BY DEF Ranges
    <3> HIDE DEF missing, w
    <3>4. OnlyMissing(w)
      BY <3>2, <3>3 DEF OnlyMissing
    <3> QED
      BY <3>1, <3>4, RangesKept
  <2> QED
    BY <2>1, <2>2
<1>5. CASE FetchRange(e)
  <2>1. work[e] \in Fetching /\ OnlyMissing(work[e])
    BY <1>5, WorkShape DEF FetchRange, At, RangesMissing
  <2>2. PICK ranges \in SUBSET work[e].ranges : \E persisted :
          Goes(e, [work[e] EXCEPT !.ranges = ranges, !.attempt = 0, !.persisted = persisted])
    <3>1. \A range \in work[e].ranges : work[e].ranges \ {range} \in SUBSET work[e].ranges
      OBVIOUS
    <3> QED
      BY <1>5, <3>1 DEF FetchRange
  <2>3. PICK persisted :
          Goes(e, [work[e] EXCEPT !.ranges = ranges, !.attempt = 0, !.persisted = persisted])
    BY <2>2
  <2> DEFINE w == [work[e] EXCEPT !.ranges = ranges, !.attempt = 0, !.persisted = persisted]
  <2>4. w.ranges = ranges /\ w.missing = work[e].missing
    BY <2>1 DEF Fetching
  <2>5. OnlyMissing(w)
    BY <2>1, <2>4 DEF OnlyMissing
  <2> HIDE DEF w
  <2>6. Goes(e, w)
    BY <2>3 DEF w
  <2> QED
    BY <2>5, <2>6, RangesKept
<1>6. CASE FetchFails(e) \/ FetchInvalid(e) \/ Fetched(e) \/ Raises(e)
  <2>1. work[e].at \in {"report", "fetch", "scan", "saved"}
    BY <1>6 DEF FetchFails, FetchInvalid, Fetched, Raises, At
  <2>2. CASE Prepared(e) \/ Unavailable(e) \/ Except(e, 0, work[e].mine, 1)
    BY <1>3, <2>1, <2>2
  <2>3. CASE At(e, "fetch") /\ Goes(e, [work[e] EXCEPT !.attempt = Attempt(@)])
    <3> DEFINE w == [work[e] EXCEPT !.attempt = Attempt(@)]
    <3>1. work[e] \in Fetching /\ OnlyMissing(work[e])
      BY <2>3, WorkShape DEF At, RangesMissing
    <3>2. w.ranges = work[e].ranges /\ w.missing = work[e].missing
      BY <3>1 DEF Fetching
    <3>3. OnlyMissing(w)
      BY <3>1, <3>2 DEF OnlyMissing
    <3> HIDE DEF w
    <3>4. Goes(e, w)
      BY <2>3 DEF w
    <3> QED
      BY <3>3, <3>4, RangesKept
  <2> QED
    BY <1>6, <2>2, <2>3 DEF FetchFails, FetchInvalid, Fetched, Raises
<1>7. CASE Scan(e)
  <2>1. work[e].at \in {"report", "fetch", "scan", "saved"} /\ work[e].at = "scan"
    BY <1>7 DEF Scan, At
  <2>2. CASE Goes(e, [work[e] EXCEPT !.at = "saved"])
    <3>1. [work[e] EXCEPT !.at = "saved"].at = "saved"
      BY <2>1, WorkShape DEF Looping
    <3> QED
      BY <2>2, <3>1, RangesKept
  <2> QED
    BY <1>3, <1>7, <2>1, <2>2 DEF Scan
<1>8. CASE Record(e)
  <2>1. work[e].at \in {"report", "fetch", "scan", "saved"}
    BY <1>8 DEF Record, At
  <2>2. CASE \E mine : NextSeries(e, work[e].failures, mine)
    <3>1. \A i, failures, mine : Stage(e, "report", i, failures, mine).at = "report"
      BY DEF Stage
    <3> QED
      BY <2>2, <3>1, RangesKept DEF NextSeries
  <2> QED
    BY <1>3, <1>8, <2>1, <2>2 DEF Record
<1> QED
  BY <1>2, <1>4, <1>5, <1>6, <1>7, <1>8 DEF Advance

LEMMA StepRanges == Shapes /\ RangesMissing /\ [Next]_vars => RangesMissing'
<1> SUFFICES ASSUME Shapes, RangesMissing, [Next]_vars PROVE RangesMissing'
  OBVIOUS
<1>1. ASSUME NEW r \in Runs, Create(r) \/ Dispatch(r) \/ Receive(r) PROVE RangesMissing'
  <2>1. <<r, "web">> \in Executions /\ <<r, "worker">> \in Executions
    BY DEF Executions
  <2>2. \E e \in Executions : \E w : Goes(e, w) /\ w.at # "fetch"
    BY <1>1, <2>1 DEF Create, Dispatch, Receive, Gone
  <2> QED
    BY <2>2, RangesKept
<1>2. ASSUME NEW e \in Executions, Advance(e) PROVE RangesMissing'
  BY <1>2, AdvanceRanges
<1>3. ASSUME NEW e \in Executions, Killed(e) PROVE RangesMissing'
  BY <1>3, RangesKept DEF Killed, Gone
<1>4. CASE UNCHANGED vars
  BY <1>4 DEF vars, RangesMissing, OnlyMissing, At
<1> QED
  BY <1>1, <1>2, <1>3, <1>4 DEF Next

\* The rows an upsert does not name stay, and those it names were missing for the execution.
LEMMA StepKeepsReal ==
  ASSUME Shapes, RangesMissing, [Next]_vars, NEW s \in Series, NEW t \in Slots,
         store[s][t] = REAL, store'[s][t] # REAL
  PROVE  \E e \in Executions : At(e, "fetch") /\ Current(e) = s /\ t \in work[e].missing
<1>1. PICK e \in Executions : FetchRange(e)
  BY DEF Next, vars, Create, Dispatch, Receive, Killed, Advance, Begin, Report, FetchFails,
         FetchInvalid, Fetched, Raises, Scan, Record, Finish, Handler
<1>2. PICK range \in work[e].ranges :
        \E fetched \in SUBSET Covered(e[1], Current(e), range) : Upsert(e, fetched)
  BY <1>1 DEF FetchRange
<1>3. PICK fetched \in SUBSET Covered(e[1], Current(e), range) : Upsert(e, fetched)
  BY <1>2
<1>4. At(e, "fetch") /\ work[e] \in Fetching /\ OnlyMissing(work[e]) /\ e[1] \in Runs
      /\ Current(e) \in Series /\ Current(e) \in Range(Plan[e[1]])
  BY <1>1, WorkShape DEF FetchRange, At, RangesMissing
<1>5. Current(e) = s /\ t \in fetched
  BY <1>3, <1>4 DEF Upsert, Shapes
<1>6. t \in Int /\ range.start \in Int /\ range.end \in Int
  <2>1. t \in Expected[e[1]][s]
    BY <1>5 DEF Covered
  <2> QED
    BY <1>4, <1>5, <2>1, PlanShape DEF Fetching
<1>7. t \in range.start .. range.end
  BY <1>5, <1>6 DEF Covered
<1> QED
  BY <1>4, <1>5, <1>7 DEF OnlyMissing

\* A synthetic bar takes the place of one of Dhan's only by a task that had found the slot
\* missing before.
THEOREM RealBarsAreKept == Spec => RealIsKept
<1>1. Init => RangesMissing
  BY DEF Init, RangesMissing, At, Gone
<1>2. Shapes /\ RangesMissing /\ [Next]_vars
        => [\A s \in Series, t \in Slots :
              (store[s][t] = REAL /\ store'[s][t] # REAL) =>
                \E e \in Executions :
                  At(e, "fetch") /\ Current(e) = s /\ t \in work[e].missing]_vars
  BY StepKeepsReal
<1> QED
  BY <1>1, <1>2, WellShaped, StepRanges, PTL DEF Spec, RealIsKept

-----------------------------------------------------------------------------
(* What a backtest claims is backed.                                       *)

\* The series a run has results of.
With(r) == {x.series : x \in {y \in saved : y.run = r}}

\* An execution counts its series right: with no failure so far, each one it is past has a
\* result, with fewer failures than such series, one of them has.
Counted(plan, w, with) ==
  w.at \in {"report", "fetch", "scan", "saved"} =>
    /\ w.mine \subseteq with
    /\ w.failures = 0 => \A j \in 1..(w.i - 1) : plan[j] \in with
    /\ w.failures < w.i - 1 => \E j \in 1..(w.i - 1) : plan[j] \in with
    /\ w.at = "saved" => plan[w.i] \in with

\* What the row of a run says, given the series with results.
Honest(shown, plan, with) ==
  /\ shown.results \subseteq with
  /\ shown.status = "COMPLETED" => with = Range(plan)
  /\ shown.status = "PARTIAL" => with # {}

Backed ==
  /\ \A x \in saved : x.bars = {REAL} /\ (x.run \in Runs => x.series \in Range(Plan[x.run]))
  /\ \A e \in Executions : e[1] \in Backtests => Counted(Plan[e[1]], work[e], With(e[1]))
  /\ \A r \in Backtests : Honest(row[r], Plan[r], With(r))

\* More results keep every count and every claim.
LEMMA MoreResults ==
  ASSUME NEW plan, NEW with, NEW more, with \subseteq more, more \subseteq Range(plan)
  PROVE  /\ \A w : Counted(plan, w, with) => Counted(plan, w, more)
         /\ \A shown : Honest(shown, plan, with) => Honest(shown, plan, more)
<1>1. \A w : Counted(plan, w, with) => Counted(plan, w, more)
  <2> SUFFICES ASSUME NEW w, Counted(plan, w, with),
                      w.at \in {"report", "fetch", "scan", "saved"}
               PROVE  /\ w.mine \subseteq more
                      /\ w.failures = 0 => \A j \in 1..(w.i - 1) : plan[j] \in more
                      /\ w.failures < w.i - 1 => \E j \in 1..(w.i - 1) : plan[j] \in more
                      /\ w.at = "saved" => plan[w.i] \in more
    BY DEF Counted
  <2> QED
    BY DEF Counted
<1>2. \A shown : Honest(shown, plan, with) => Honest(shown, plan, more)
  BY DEF Honest
<1> QED
  BY <1>1, <1>2

\* A step of one execution keeps the invariant if it counts right and tells the truth.
LEMMA BackedKept ==
  ASSUME Shapes, Backed, NEW e \in Executions, NEW w, Goes(e, w), saved \subseteq saved',
         \A x \in saved' \ saved :
           x.bars = {REAL} /\ (x.run \in Runs => x.series \in Range(Plan[x.run])),
         e[1] \in Backtests => Counted(Plan[e[1]], w, With(e[1])'),
         \A r \in Runs \ {e[1]} : row'[r] = row[r],
         (e[1] \in Backtests /\ Honest(row[e[1]], Plan[e[1]], With(e[1])')) =>
           Honest(row'[e[1]], Plan[e[1]], With(e[1])')
  PROVE  Backed'
<1>1. \A x \in saved' :
        x.bars = {REAL} /\ (x.run \in Runs => x.series \in Range(Plan[x.run]))
  BY DEF Backed
<1>2. ASSUME NEW r \in Backtests
      PROVE  /\ \A v : Counted(Plan[r], v, With(r)) => Counted(Plan[r], v, With(r)')
             /\ \A shown : Honest(shown, Plan[r], With(r)) => Honest(shown, Plan[r], With(r)')
  <2>1. With(r) \subseteq With(r)'
    BY DEF With
  <2>2. With(r)' \subseteq Range(Plan[r])
    BY <1>1, PlanAssumption DEF With
  <2> HIDE DEF With
  <2> QED
    BY <2>1, <2>2, MoreResults
<1>3. ASSUME NEW f \in Executions, f[1] \in Backtests
      PROVE  Counted(Plan[f[1]], work'[f], With(f[1])')
  <2>1. CASE f = e
    <3>1. work'[f] = w
      BY <2>1 DEF Goes, Shapes
    <3> QED
      BY <1>3, <2>1, <3>1
  <2>2. CASE f # e
    <3>1. work'[f] = work[f]
      BY <2>2 DEF Goes, Shapes
    <3> QED
      BY <1>2, <1>3, <3>1 DEF Backed
  <2> QED
    BY <2>1, <2>2
<1>4. ASSUME NEW r \in Backtests PROVE Honest(row'[r], Plan[r], With(r)')
  <2>1. Honest(row[r], Plan[r], With(r)')
    BY <1>2 DEF Backed
  <2>2. r \in Runs
    BY PlanAssumption
  <2> QED
    BY <2>1, <2>2
<1> QED
  BY <1>1, <1>3, <1>4 DEF Backed

\* A series further: with a failure more at least, or with a result of the series.
LEMMA NextCounts ==
  ASSUME NEW plan, NEW with, NEW w, Counted(plan, w, with),
         w.at \in {"report", "fetch", "scan", "saved"}, w.i \in Nat \ {0}, w.failures \in Nat,
         NEW k \in Nat, k # 0 \/ plan[w.i] \in with, NEW mine, mine \subseteq with,
         NEW v, v.at = "report", v.i = w.i + 1, v.failures = w.failures + k, v.mine = mine
  PROVE  Counted(plan, v, with)
<1> DEFINE i == w.i
           m == w.failures
<1>1. /\ m = 0 => \A j \in 1..(i - 1) : plan[j] \in with
      /\ m < i - 1 => \E j \in 1..(i - 1) : plan[j] \in with
      /\ i \in Nat \ {0} /\ m \in Nat /\ (k # 0 \/ plan[i] \in with)
  BY DEF Counted
<1>2. v.i - 1 = i /\ v.failures = m + k
  BY <1>1
<1> HIDE DEF i, m
<1>3. ASSUME m + k = 0 PROVE \A j \in 1..i : plan[j] \in with
  <2>1. m = 0 /\ k = 0
    BY <1>1, <1>3
  <2>2. \A j \in 1..i : j = i \/ j \in 1..(i - 1)
    BY <1>1
  <2> QED
    BY <1>1, <2>1, <2>2
<1>4. ASSUME m + k < i PROVE \E j \in 1..i : plan[j] \in with
  <2>1. CASE k = 0
    <3>1. i \in 1..i
      BY <1>1
    <3> QED
      BY <1>1, <2>1, <3>1
  <2>2. CASE k # 0
    <3>1. m < i - 1
      BY <1>1, <1>4, <2>2
    <3>2. \A j \in 1..(i - 1) : j \in 1..i
      BY <1>1
    <3> QED
      BY <1>1, <3>1, <3>2
  <2> QED
    BY <2>1, <2>2
<1> QED
  BY <1>2, <1>3, <1>4 DEF Counted

\* On the same series: the count is what it was.
LEMMA SameCounts ==
  ASSUME NEW plan, NEW with, NEW w, Counted(plan, w, with),
         w.at \in {"report", "fetch", "scan", "saved"},
         NEW v, v.i = w.i, v.failures = w.failures, v.mine = w.mine,
         v.at = "saved" => plan[v.i] \in with
  PROVE  Counted(plan, v, with)
BY DEF Counted

\* The execution goes on, and counts right in the end.
Sound(e, with) == \E w : Goes(e, w) /\ (e[1] \in Backtests => Counted(Plan[e[1]], w, with))

LEMMA OnwardSound ==
  ASSUME Shapes, NEW e \in Executions, work[e].at \in {"report", "fetch", "scan", "saved"},
         NEW with, e[1] \in Backtests => Counted(Plan[e[1]], work[e], with),
         NEW mine, e[1] \in Backtests => mine \subseteq with,
         \/ Goes(e, Handling)
         \/ \E k \in Nat \ {0} : NextSeries(e, work[e].failures + k, mine)
         \/ /\ e[1] \in Backtests => Current(e) \in with
            /\ NextSeries(e, work[e].failures, mine)
         \/ /\ mine = work[e].mine
            /\ Goes(e, Stage(e, "scan", work[e].i, work[e].failures, mine))
  PROVE  Sound(e, with)
<1>1. work[e].i \in Nat \ {0} /\ work[e].failures \in Nat
  BY WorkShape
<1>2. \A at, i, failures :
        LET v == Stage(e, at, i, failures, mine)
        IN  v.at = at /\ v.i = i /\ v.failures = failures /\ v.mine = mine
  BY DEF Stage
<1>3. CASE Goes(e, Handling)
  <2>1. Counted(Plan[e[1]], Handling, with)
    BY DEF Counted, Handling
  <2> QED
    BY <1>3, <2>1 DEF Sound
<1>4. ASSUME NEW k \in Nat, NextSeries(e, work[e].failures + k, mine),
             k # 0 \/ (e[1] \in Backtests => Current(e) \in with)
      PROVE  Sound(e, with)
  <2> DEFINE v == Stage(e, "report", work[e].i + 1, work[e].failures + k, mine)
  <2>1. /\ v.at = "report" /\ v.i = work[e].i + 1 /\ v.failures = work[e].failures + k
        /\ v.mine = mine
    BY <1>2
  <2>2. Goes(e, v)
    BY <1>4 DEF NextSeries
  <2> HIDE DEF v
  <2>3. ASSUME e[1] \in Backtests PROVE Counted(Plan[e[1]], v, with)
    <3>1. k # 0 \/ Plan[e[1]][work[e].i] \in with
      BY <1>4, <2>3 DEF Current
    <3> QED
      BY <1>1, <2>1, <2>3, <3>1, NextCounts
  <2> QED
    BY <2>2, <2>3 DEF Sound
<1>5. CASE mine = work[e].mine /\ Goes(e, Stage(e, "scan", work[e].i, work[e].failures, mine))
  <2> DEFINE v == Stage(e, "scan", work[e].i, work[e].failures, mine)
  <2>1. /\ v.at = "scan" /\ v.i = work[e].i /\ v.failures = work[e].failures
        /\ v.mine = work[e].mine
    BY <1>2, <1>5
  <2>2. Goes(e, v)
    BY <1>5
  <2> HIDE DEF v
  <2>3. ASSUME e[1] \in Backtests PROVE Counted(Plan[e[1]], v, with)
    BY <2>1, <2>3, SameCounts
  <2> QED
    BY <2>2, <2>3 DEF Sound
<1>6. CASE NextSeries(e, work[e].failures, mine) /\ (e[1] \in Backtests => Current(e) \in with)
  <2>1. work[e].failures + 0 = work[e].failures /\ 0 \in Nat
    BY <1>1
  <2> QED
    BY <1>4, <1>6, <2>1
<1> QED
  BY <1>3, <1>4, <1>5, <1>6

\* What the composed alternatives of a backtest come to.
LEMMA AlternativesSound ==
  ASSUME Shapes, Backed, NEW e \in Executions,
         work[e].at \in {"report", "fetch", "scan", "saved"}, NEW with,
         e[1] \in Backtests => Counted(Plan[e[1]], work[e], with)
  PROVE  /\ Prepared(e) \/ Unavailable(e) => Sound(e, with)
         /\ \A mine, before : Except(e, 0, mine, before) /\ (e[1] \in Backtests => mine \subseteq with)
                                => Sound(e, with)
<1>1. work[e].failures \in Nat
  BY WorkShape
<1>2. e[1] \in Backtests => work[e].mine \subseteq with
  BY DEF Counted
<1>3. ASSUME Prepared(e) PROVE Sound(e, with)
  BY <1>1, <1>2, <1>3, PreparedMoves, OnwardSound
<1>4. ASSUME Unavailable(e) PROVE Sound(e, with)
  BY <1>1, <1>2, <1>4, UnavailableMoves, OnwardSound
<1>5. ASSUME NEW mine, NEW before, Except(e, 0, mine, before),
             e[1] \in Backtests => mine \subseteq with
      PROVE  Sound(e, with)
  BY <1>1, <1>5, ExceptMoves, OnwardSound
<1> QED
  BY <1>3, <1>4, <1>5

\* Nothing saved and no claim made: it is enough that the execution counts right.
LEMMA SoundKeeps ==
  ASSUME Shapes, Backed, NEW e \in Executions, saved' = saved, Sound(e, With(e[1])),
         \A r \in Runs \ {e[1]} : row'[r] = row[r],
         (e[1] \in Backtests /\ Honest(row[e[1]], Plan[e[1]], With(e[1]))) =>
           Honest(row'[e[1]], Plan[e[1]], With(e[1]))
  PROVE  Backed'
<1>1. With(e[1])' = With(e[1])
  BY DEF With
<1>2. PICK w : Goes(e, w) /\ (e[1] \in Backtests => Counted(Plan[e[1]], w, With(e[1])))
  BY DEF Sound
<1>3. saved \subseteq saved' /\ saved' \ saved = {}
  OBVIOUS
<1> QED
  BY <1>1, <1>2, <1>3, BackedKept

LEMMA AdvanceBacked ==
  ASSUME Shapes, Backed, NEW e \in Executions, Advance(e)
  PROVE  Backed'
<1> DEFINE r == e[1]
           with == With(r)
<1>1. r \in Runs /\ (r \in Backtests => Counted(Plan[r], work[e], with))
  BY DEF Backed, Executions
<1>2. Counted(Plan[r], Gone, with) /\ Counted(Plan[r], Handling, with)
  BY DEF Counted, Gone, Handling
<1>3. ASSUME row' = row, saved' = saved, Sound(e, with) PROVE Backed'
  BY <1>3, SoundKeeps
<1>4. ASSUME NEW x, Status(e, x)
      PROVE  /\ row'[r].status = x /\ row'[r].results = row[r].results
             /\ \A other \in Runs \ {r} : row'[other] = row[other]
  BY <1>1, <1>4 DEF Status, Shapes
<1>5. CASE Begin(e)
  <2>1. CASE row' = row /\ (Goes(e, Handling) \/ Goes(e, Gone))
    BY <1>2, <1>3, <1>5, <2>1 DEF Begin, Sound
  <2>2. ASSUME Status(e, "RUNNING"), NEW source,
               Goes(e, [at |-> "report", source |-> source, i |-> 1, failures |-> 0, mine |-> {}])
        PROVE  Backed'
    <3> DEFINE w == [at |-> "report", source |-> source, i |-> 1, failures |-> 0, mine |-> {}]
    <3>1. Counted(Plan[r], w, with)
      BY DEF Counted
    <3>2. Sound(e, with)
      BY <2>2, <3>1 DEF Sound
    <3>3. Honest(row[r], Plan[r], with) => Honest(row'[r], Plan[r], with)
      BY <1>4, <2>2 DEF Honest
    <3>4. saved' = saved
      BY <1>5 DEF Begin
    <3> QED
      BY <1>4, <2>2, <3>2, <3>3, <3>4, SoundKeeps
  <2> QED
    BY <1>5, <2>1, <2>2 DEF Begin
<1>6. CASE Report(e)
  <2>1. At(e, "report") /\ row' = row /\ saved' = saved
    BY <1>6 DEF Report
  <2>2. CASE Prepared(e)
    BY <1>1, <1>3, <2>1, <2>2, AlternativesSound DEF At
  <2>3. CASE ~Prepared(e)
    <3> DEFINE missing == Uncovered(e[1], Current(e))
               w == [at |-> "fetch", source |-> work[e].source, i |-> work[e].i,
                     failures |-> work[e].failures, mine |-> work[e].mine,
                     missing |-> missing, ranges |-> Ranges(missing),
                     attempt |-> 0, persisted |-> FALSE]
    <3>1. Goes(e, w)
      BY <1>6, <2>3 DEF Report
    <3>2. w.at = "fetch" /\ w.i = work[e].i /\ w.failures = work[e].failures /\ w.mine = work[e].mine
      OBVIOUS
    <3> HIDE DEF w
    <3>3. r \in Backtests => Counted(Plan[r], w, with)
      BY <1>1, <2>1, <3>2, SameCounts DEF At
    <3>4. Sound(e, with)
      BY <3>1, <3>3 DEF Sound
    <3> QED
      BY <1>3, <2>1, <3>4
  <2> QED
    BY <2>2, <2>3
<1>7. CASE FetchRange(e)
  <2>1. At(e, "fetch") /\ row' = row /\ saved' = saved /\ work[e] \in Fetching
    BY <1>7, WorkShape DEF FetchRange, At
  <2>2. PICK ranges, persisted :
          Goes(e, [work[e] EXCEPT !.ranges = ranges, !.attempt = 0, !.persisted = persisted])
    BY <1>7 DEF FetchRange
  <2> DEFINE w == [work[e] EXCEPT !.ranges = ranges, !.attempt = 0, !.persisted = persisted]
  <2>3. w.at = "fetch" /\ w.i = work[e].i /\ w.failures = work[e].failures /\ w.mine = work[e].mine
    BY <2>1 DEF Fetching
  <2>4. Goes(e, w)
    BY <2>2
  <2> HIDE DEF w
  <2>5. r \in Backtests => Counted(Plan[r], w, with)
    BY <1>1, <2>1, <2>3, SameCounts DEF At
  <2>6. Sound(e, with)
    BY <2>4, <2>5 DEF Sound
  <2> QED
    BY <1>3, <2>1, <2>6
<1>8. CASE FetchFails(e) \/ FetchInvalid(e) \/ Fetched(e) \/ Raises(e)
  <2>1. work[e].at \in {"report", "fetch", "scan", "saved"} /\ row' = row /\ saved' = saved
    BY <1>8 DEF FetchFails, FetchInvalid, Fetched, Raises, At
  <2>2. CASE Prepared(e) \/ Unavailable(e)
    BY <1>1, <1>3, <2>1, <2>2, AlternativesSound
  <2>3. CASE Except(e, 0, work[e].mine, 1)
    <3>1. r \in Backtests => work[e].mine \subseteq with
      BY <1>1, <2>1 DEF Counted
    <3>2. Sound(e, with)
      BY <1>1, <2>1, <2>3, <3>1, AlternativesSound
    <3> QED
      BY <1>3, <2>1, <3>2
  <2>4. CASE At(e, "fetch") /\ Goes(e, [work[e] EXCEPT !.attempt = Attempt(@)])
    <3> DEFINE w == [work[e] EXCEPT !.attempt = Attempt(@)]
    <3>1. work[e] \in Fetching /\ work[e].at = "fetch"
      BY <2>4, WorkShape DEF At
    <3>2. w.at = "fetch" /\ w.i = work[e].i /\ w.failures = work[e].failures /\ w.mine = work[e].mine
      BY <3>1 DEF Fetching
    <3>3. Goes(e, w)
      BY <2>4
    <3> HIDE DEF w
    <3>4. r \in Backtests => Counted(Plan[r], w, with)
      BY <1>1, <3>1, <3>2, SameCounts
    <3>5. Sound(e, with)
      BY <3>3, <3>4 DEF Sound
    <3> QED
      BY <1>3, <2>1, <3>5
  <2> QED
    BY <1>8, <2>2, <2>3, <2>4 DEF FetchFails, FetchInvalid, Fetched, Raises
<1>9. CASE Scan(e)
  <2>1. At(e, "scan") /\ row' = row /\ work[e] \in Looping /\ Current(e) \in Range(Plan[r])
    BY <1>9, WorkShape DEF Scan, At
  <2>2. CASE saved' = saved /\ Unavailable(e)
    BY <1>1, <1>3, <2>1, <2>2, AlternativesSound DEF At
  <2>3. CASE saved' = saved /\ Except(e, 0, work[e].mine, 0)
    <3>1. r \in Backtests => work[e].mine \subseteq with
      BY <1>1, <2>1 DEF Counted, At
    <3>2. Sound(e, with)
      BY <1>1, <2>1, <2>3, <3>1, AlternativesSound DEF At
    <3> QED
      BY <1>3, <2>1, <2>3, <3>2
  <2>4. ASSUME Eligible(e[1], Current(e)),
               saved' = saved \union {[run |-> e[1], series |-> Current(e),
                 bars |-> {store[Current(e)][t] : t \in Expected[e[1]][Current(e)]}]},
               Goes(e, [work[e] EXCEPT !.at = "saved"])
        PROVE  Backed'
    <3> DEFINE w == [work[e] EXCEPT !.at = "saved"]
               x == [run |-> e[1], series |-> Current(e),
                     bars |-> {store[Current(e)][t] : t \in Expected[e[1]][Current(e)]}]
    <3>1. w.at = "saved" /\ w.i = work[e].i /\ w.failures = work[e].failures /\ w.mine = work[e].mine
      BY <2>1 DEF Looping
    <3>2. x.bars = {REAL}
      BY <2>4 DEF Eligible, Complete
    <3>3. x.run = r /\ x.series = Current(e) /\ saved' = saved \union {x}
      BY <2>4
    <3>4. Goes(e, w)
      BY <2>4
    <3> HIDE DEF w, x
    <3>5. with \subseteq with' /\ Current(e) \in with'
      BY <3>3 DEF With
    <3>6. r \in Backtests => with' \subseteq Range(Plan[r])
      BY <1>1, <2>1, <3>3 DEF With, Backed
    <3>7. ASSUME r \in Backtests PROVE Counted(Plan[r], w, With(e[1])')
      <4>1. Counted(Plan[r], work[e], with')
        BY <1>1, <3>5, <3>6, <3>7, MoreResults
      <4>2. Plan[r][w.i] \in with'
        BY <3>1, <3>5 DEF Current
      <4> HIDE DEF with
      <4>3. Counted(Plan[r], w, with')
        BY <2>1, <3>1, <4>1, <4>2, SameCounts DEF At
      <4> QED
        BY <4>3 DEF with
    <3>8. saved \subseteq saved' /\ \A y \in saved' \ saved :
            y.bars = {REAL} /\ (y.run \in Runs => y.series \in Range(Plan[y.run]))
      BY <2>1, <3>2, <3>3
    <3> QED
      BY <2>1, <3>4, <3>7, <3>8, BackedKept
  <2> QED
    BY <1>9, <2>2, <2>3, <2>4 DEF Scan
<1>10. CASE Record(e)
  <2> DEFINE mine == work[e].mine \union {Current(e)}
  <2>1. At(e, "saved") /\ saved' = saved
    BY <1>10 DEF Record
  <2>2. r \in Backtests => mine \subseteq with /\ Current(e) \in with
    BY <1>1, <2>1 DEF Counted, At, Current
  <2>3. CASE Except(e, 0, mine, 1) /\ row' = row
    <3>1. Sound(e, with)
      BY <1>1, <2>1, <2>2, <2>3, AlternativesSound DEF At
    <3> QED
      BY <1>3, <2>1, <2>3, <3>1
  <2>4. CASE row' = [row EXCEPT ![e[1]].results = mine] /\ NextSeries(e, work[e].failures, mine)
    <3>1. Sound(e, with)
      BY <1>1, <2>1, <2>2, <2>4, OnwardSound DEF At
    <3>2. /\ row'[r].results = mine /\ row'[r].status = row[r].status
          /\ \A other \in Runs \ {r} : row'[other] = row[other]
      BY <1>1, <2>4 DEF Shapes
    <3>3. (r \in Backtests /\ Honest(row[r], Plan[r], with)) => Honest(row'[r], Plan[r], with)
      BY <2>2, <3>2 DEF Honest
    <3> QED
      BY <2>1, <3>1, <3>2, <3>3, SoundKeeps
  <2> QED
    BY <1>10, <2>3, <2>4 DEF Record
<1>11. CASE Finish(e)
  <2> DEFINE n == Len(Plan[r])
             x == Verdict(work[e].failures, n)
  <2>1. At(e, "report") /\ work[e].i > n /\ saved' = saved
    BY <1>11 DEF Finish
  <2>2. work[e].i - 1 = n /\ n \in Nat /\ work[e].failures \in Nat
    BY <1>1, <2>1, WorkShape, PlanShape DEF At
  <2>3. CASE UNCHANGED row /\ Goes(e, Handling)
    BY <1>2, <1>3, <2>1, <2>3 DEF Sound
  <2>4. CASE Status(e, x) /\ Goes(e, Gone)
    <3>1. Sound(e, with)
      BY <1>2, <2>4 DEF Sound
    <3>2. ASSUME r \in Backtests, x = "COMPLETED" PROVE with = Range(Plan[r])
      <4>1. work[e].failures = 0
        BY <3>2 DEF Verdict
      <4>2. \A j \in 1..n : Plan[r][j] \in with
        BY <1>1, <2>1, <2>2, <3>2, <4>1 DEF Counted, At
      <4>3. Range(Plan[r]) \subseteq with
        BY <1>1, <4>2, PlanShape
      <4>4. with \subseteq Range(Plan[r])
        BY <1>1 DEF With, Backed
      <4> QED
        BY <4>3, <4>4
    <3>3. ASSUME r \in Backtests, x = "PARTIAL" PROVE with # {}
      <4>1. work[e].failures < n
        BY <3>3 DEF Verdict
      <4>2. \E j \in 1..n : Plan[r][j] \in with
        BY <1>1, <2>1, <2>2, <3>3, <4>1 DEF Counted, At
      <4> QED
        BY <4>2
    <3> HIDE DEF x
    <3>4. (r \in Backtests /\ Honest(row[r], Plan[r], with)) => Honest(row'[r], Plan[r], with)
      BY <1>4, <2>4, <3>2, <3>3 DEF Honest
    <3> QED
      BY <1>4, <2>1, <2>4, <3>1, <3>4, SoundKeeps
  <2> QED
    BY <1>11, <2>3, <2>4 DEF Finish
<1>12. CASE Handler(e)
  <2>1. Sound(e, with) /\ saved' = saved
    BY <1>2, <1>12 DEF Handler, Sound
  <2>2. CASE row' = row
    BY <1>3, <2>1, <2>2
  <2>3. CASE Status(e, "FAILED")
    <3>1. Honest(row[r], Plan[r], with) => Honest(row'[r], Plan[r], with)
      BY <1>4, <2>3 DEF Honest
    <3> QED
      BY <1>4, <2>1, <2>3, <3>1, SoundKeeps
  <2> QED
    BY <1>12, <2>2, <2>3 DEF Handler
<1> QED
  BY <1>5, <1>6, <1>7, <1>8, <1>9, <1>10, <1>11, <1>12 DEF Advance

LEMMA StepBacked == Shapes /\ Backed /\ [Next]_vars => Backed'
<1> SUFFICES ASSUME Shapes, Backed, [Next]_vars PROVE Backed'
  OBVIOUS
<1>1. ASSUME NEW e \in Executions, NEW at \in {"gone", "dispatch", "build"}, Goes(e, [at |-> at]),
             saved' = saved, \A other \in Runs \ {e[1]} : row'[other] = row[other],
             \/ row'[e[1]] = row[e[1]]
             \/ /\ row'[e[1]].status = "QUEUED" /\ row'[e[1]].results = row[e[1]].results
      PROVE  Backed'
  <2>1. \A plan, with : Counted(plan, [at |-> at], with)
    BY DEF Counted
  <2>2. Sound(e, With(e[1]))
    BY <1>1, <2>1 DEF Sound
  <2>3. \A plan, with : Honest(row[e[1]], plan, with) => Honest(row'[e[1]], plan, with)
    BY <1>1 DEF Honest
  <2> QED
    BY <1>1, <2>2, <2>3, SoundKeeps
<1>2. ASSUME NEW r \in Runs, Create(r) \/ Dispatch(r) \/ Receive(r) PROVE Backed'
  <2> DEFINE web == <<r, "web">>
             worker == <<r, "worker">>
  <2>1. web \in Executions /\ worker \in Executions /\ web[1] = r /\ worker[1] = r
    BY DEF Executions
  <2>2. CASE Create(r)
    <3>1. /\ Goes(web, [at |-> "dispatch"]) /\ saved' = saved
          /\ \A other \in Runs \ {r} : row'[other] = row[other]
          /\ row'[r].status = "QUEUED" /\ row'[r].results = row[r].results
      BY <2>2 DEF Create, Shapes
    <3> HIDE DEF web
    <3> QED
      BY <1>1, <2>1, <3>1
  <2>3. CASE Dispatch(r)
    <3>1. /\ Goes(web, [at |-> "build"]) \/ Goes(web, [at |-> "gone"])
          /\ saved' = saved /\ row' = row
      BY <2>3 DEF Dispatch, Gone
    <3> HIDE DEF web
    <3> QED
      BY <1>1, <2>1, <3>1
  <2>4. CASE Receive(r)
    <3>1. Goes(worker, [at |-> "build"]) /\ saved' = saved /\ row' = row
      BY <2>4 DEF Receive
    <3> HIDE DEF worker
    <3> QED
      BY <1>1, <2>1, <3>1
  <2> QED
    BY <1>2, <2>2, <2>3, <2>4
<1>3. ASSUME NEW e \in Executions, Advance(e) PROVE Backed'
  BY <1>3, AdvanceBacked
<1>4. ASSUME NEW e \in Executions, Killed(e) PROVE Backed'
  BY <1>1, <1>4 DEF Killed, Gone
<1>5. CASE UNCHANGED vars
  BY <1>5 DEF vars, Backed, With
<1> QED
  BY <1>2, <1>3, <1>4, <1>5 DEF Next

LEMMA InitBacked == Init => Backed
<1> SUFFICES ASSUME Init PROVE Backed
  OBVIOUS
<1>1. ASSUME NEW e \in Executions PROVE Counted(Plan[e[1]], work[e], With(e[1]))
  BY DEF Init, Counted, Gone
<1>2. ASSUME NEW r \in Backtests PROVE Honest(row[r], Plan[r], With(r))
  BY PlanAssumption DEF Init, Honest
<1> QED
  BY <1>1, <1>2 DEF Init, Backed

LEMMA BackedSuffices == Backed => ClaimsAreBacked
BY DEF Backed, ClaimsAreBacked, Honest, With

\* COMPLETED, PARTIAL and the results a backtest shows stand for results in the database,
\* whatever fails and however often the run is executed.
THEOREM BacktestsTellTheTruth == Spec => []ClaimsAreBacked
BY WellShaped, InitBacked, StepBacked, BackedSuffices, PTL DEF Spec
=============================================================================
