------------------------ MODULE ManagedPositionProofs ------------------------
(***************************************************************************)
(* The two users of the exit policy.  The position monitor only moves      *)
(* forward, its rows can always be loaded, and given room it watches all   *)
(* of what is held; the stateful backtest never exits with more than its   *)
(* simulator holds.  All of it for any prices, entries, quantities and     *)
(* limits.                                                                 *)
(***************************************************************************)
EXTENDS PositionMonitorProps, StatefulBacktest, TLAPS

Sides == {"BUY", "SELL"}
StageNames == {"OPEN", "TARGET_1", "TARGET_2", "TARGET_3", "STOPPED"}
Positions == [dir: Sides, qty: Nat, price: Int]

PlanShapes == {NoPlan} \union [STOP_LOSS: Int, TRAILING_STOP: Int, TARGET_1: Int, TARGET_2: Int,
                          TARGET_3: Int]
Rows == [open: BOOLEAN, dir: Sides, qty: Nat, plan: PlanShapes, stage: StageNames, remaining: Int,
         best: Int]

\* A row the code may have written: nothing remains of a position that was stopped.
Sound(r) == r \in Rows /\ (r.stage = "STOPPED" => r.remaining = 0)

MonitorInv ==
  /\ held \in Positions
  /\ resting \in [side: Sides, qty: Nat]
  /\ Sound(row)

-----------------------------------------------------------------------------
(* Stages and quantities.                                                  *)

LEMMA StageOrder ==
  /\ StageIndex("OPEN") = 1 /\ StageIndex("TARGET_1") = 2 /\ StageIndex("TARGET_2") = 3
  /\ StageIndex("TARGET_3") = 4 /\ StageIndex("STOPPED") = 5
<1>1. DOMAIN Stages = 1..5
  BY DEF Stages
<1>2. /\ Stages[1] = "OPEN" /\ Stages[2] = "TARGET_1" /\ Stages[3] = "TARGET_2"
      /\ Stages[4] = "TARGET_3" /\ Stages[5] = "STOPPED"
  BY DEF Stages
<1>3. \A k \in 1..5 : k = 1 \/ k = 2 \/ k = 3 \/ k = 4 \/ k = 5
  OBVIOUS
<1>4. ASSUME NEW k \in 1..5 PROVE StageIndex(Stages[k]) = k
  <2>1. \A j \in 1..5 : Stages[j] = Stages[k] => j = k
    BY <1>2, <1>3
  <2> QED
    BY <1>1, <2>1 DEF StageIndex
<1> QED
  BY <1>2, <1>4

\* A fill is not nothing, and no more than was ordered.
LEMMA FilledBounds ==
  ASSUME NEW qty \in Nat
  PROVE  /\ Filled(qty) \in Nat /\ Filled(qty) <= qty
         /\ qty > 0 => Filled(qty) > 0
<1> DEFINE units == (qty + Quantum \div 2) \div Quantum
           rounded == units * Quantum
<1>1. Quantum \in Nat \ {0} /\ Quantum \div 2 \in Nat
  BY QuantitiesAssumption
<1>2. units \in Nat
  BY <1>1
<1>3. rounded \in Nat
  <2> HIDE DEF units
  <2> QED
    BY <1>1, <1>2
<1>4. Filled(qty) = IF rounded = 0 \/ rounded > qty THEN qty ELSE rounded
  BY DEF Filled
<1> HIDE DEF rounded
<1> QED
  BY <1>3, <1>4

\* What a fill leaves to rest is less than a quantum, and such an order is filled whole.
LEMMA FilledGap ==
  ASSUME NEW qty \in Nat
  PROVE  /\ qty - Filled(qty) < Quantum
         /\ qty < Quantum => Filled(qty) = qty
<1>1. PICK q \in Nat \ {0} : q = Quantum
  BY QuantitiesAssumption
<1>2. PICK half \in Nat : half = Quantum \div 2 /\ 2 * half <= q
  BY <1>1
<1>3. PICK m \in Nat : m = qty + half
  BY <1>2
<1>4. PICK units \in Nat : units = m \div q
  OBVIOUS
<1>5. units * q <= m /\ m < units * q + q
  BY <1>4
<1>6. PICK rounded \in Nat : rounded = units * q
  OBVIOUS
<1>7. Filled(qty) = IF rounded = 0 \/ rounded > qty THEN qty ELSE rounded
  BY <1>1, <1>2, <1>3, <1>4, <1>6 DEF Filled
<1>8. rounded <= m /\ m < rounded + q
  BY <1>5, <1>6
<1>9. qty - Filled(qty) < q
  BY <1>1, <1>2, <1>3, <1>7, <1>8
<1>10. ASSUME qty < q PROVE Filled(qty) = qty
  <2>1. units = 0 \/ units = 1 \/ units >= 2
    OBVIOUS
  <2>2. units >= 1 => rounded >= q
    BY <1>6
  <2>3. units = 0 => rounded = 0
    BY <1>6
  <2> QED
    BY <1>7, <1>10, <2>2, <2>3
<1> QED
  BY <1>1, <1>9, <1>10

LEMMA AppliedShape ==
  ASSUME NEW h \in Positions, NEW side \in Sides, NEW qty \in Nat \ {0}, NEW price \in Int
  PROVE  Applied(h, side, qty, price) \in Positions
<1>1. CASE h.qty = 0
  BY <1>1 DEF Applied, Positions
<1>2. CASE h.qty # 0 /\ h.dir = side
  <2> DEFINE sum == h.price * h.qty + price * qty
             avg == sum \div (h.qty + qty)
  <2>1. sum \in Int /\ h.qty + qty \in Nat \ {0}
    <3>1. h.price * h.qty \in Int /\ price * qty \in Int
      BY DEF Positions
    <3>2. h.qty \in Nat
      BY DEF Positions
    <3> QED
      BY <3>1, <3>2
  <2>2. avg \in Int
    <3> HIDE DEF sum
    <3> QED
      BY <2>1
  <2>3. Applied(h, side, qty, price) = [h EXCEPT !.qty = h.qty + qty, !.price = avg]
    BY <1>2 DEF Applied
  <2> HIDE DEF avg
  <2> QED
    BY <2>1, <2>2, <2>3 DEF Positions
<1>3. CASE h.qty # 0 /\ h.dir # side
  <2>1. CASE qty >= h.qty
    BY <1>3, <2>1 DEF Applied, Positions, Flat, Sides
  <2>2. CASE ~(qty >= h.qty)
    <3>1. Applied(h, side, qty, price) = [h EXCEPT !.qty = h.qty - qty]
      BY <1>3, <2>2 DEF Applied
    <3>2. h.qty - qty \in Nat
      BY <2>2 DEF Positions
    <3> QED
      BY <3>1, <3>2 DEF Positions
  <2> QED
    BY <2>1, <2>2
<1> QED
  BY <1>1, <1>2, <1>3

LEMMA LeftOverShape ==
  ASSUME NEW side \in Sides, NEW qty \in Nat
  PROVE  LeftOver(side, qty) \in [side: Sides, qty: Nat]
<1>1. qty - Filled(qty) \in Nat
  BY FilledBounds
<1> QED
  BY <1>1 DEF LeftOver, Settled, Sides

-----------------------------------------------------------------------------
(* The decision.                                                           *)

\* A decision is for all that remains or for a target's part of it.
Whole(m) == [qty |-> m.remaining, stage |-> "STOPPED"]
Part(m) ==
  LET k == Min(TargetsLeft(m))
  IN [qty |-> IF k = 4 \/ Partial(m.remaining) >= m.remaining
              THEN m.remaining ELSE Partial(m.remaining),
      stage |-> Stages[k]]

LEMMA DecisionCases ==
  ASSUME NEW m, NEW price, Decision(m, price) # NoExit
  PROVE  Decision(m, price) = Whole(m) \/ (Decision(m, price) = Part(m) /\ TargetHit(m, price))
<1>1. CASE StopHit(m, price)
  <2>1. Decision(m, price) = [qty |-> m.remaining, stage |-> "STOPPED"]
    BY <1>1 DEF Decision
  <2> QED
    BY <2>1 DEF Whole
<1>2. CASE ~StopHit(m, price) /\ TargetHit(m, price)
  BY <1>2 DEF Decision, Part
<1>3. CASE ~StopHit(m, price) /\ ~TargetHit(m, price) /\ TrailHit(m, price)
  <2>1. Decision(m, price) = [qty |-> m.remaining, stage |-> "STOPPED"]
    BY <1>3 DEF Decision
  <2> QED
    BY <2>1 DEF Whole
<1>4. CASE ~StopHit(m, price) /\ ~TargetHit(m, price) /\ ~TrailHit(m, price)
  BY <1>4 DEF Decision
<1> QED
  BY <1>1, <1>2, <1>3, <1>4

\* Only a stage further on is decided for, and a stop takes all that remains.
LEMMA DecisionGoesOn ==
  ASSUME NEW m, NEW price, m.stage \in StageNames, m.stage # "STOPPED", m.remaining \in Int,
         Decision(m, price) # NoExit
  PROVE  /\ Decision(m, price).stage \in StageNames
         /\ StageIndex(Decision(m, price).stage) > StageIndex(m.stage)
         /\ Decision(m, price).qty \in Int
         /\ Decision(m, price).stage = "STOPPED" => Decision(m, price).qty = m.remaining
<1> DEFINE k == Min(TargetsLeft(m))
<1>1. Decision(m, price) = Whole(m) \/ (Decision(m, price) = Part(m) /\ TargetHit(m, price))
  BY DecisionCases
<1>2. CASE Decision(m, price) = Whole(m)
  <2>1. StageIndex("STOPPED") > StageIndex(m.stage)
    BY StageOrder DEF StageNames
  <2> QED
    BY <1>2, <2>1 DEF Whole, StageNames
<1>3. CASE Decision(m, price) = Part(m) /\ TargetHit(m, price)
  <2>1. TargetsLeft(m) \subseteq 2..4 /\ TargetsLeft(m) # {}
    BY <1>3 DEF TargetsLeft, TargetHit
  <2>2. k \in TargetsLeft(m)
    <3>1. \E x \in TargetsLeft(m) : \A y \in TargetsLeft(m) : x <= y
      <4>1. CASE 2 \in TargetsLeft(m)
        BY <2>1, <4>1
      <4>2. CASE 2 \notin TargetsLeft(m) /\ 3 \in TargetsLeft(m)
        BY <2>1, <4>2
      <4>3. CASE 2 \notin TargetsLeft(m) /\ 3 \notin TargetsLeft(m)
        BY <2>1, <4>3
      <4> QED
        BY <4>1, <4>2, <4>3
    <3> QED
      BY <3>1 DEF Min
  <2>3. k \in {2, 3, 4} /\ StageIndex(m.stage) < k
    BY <2>1, <2>2 DEF TargetsLeft
  <2>6. Part(m) = [qty |-> IF k = 4 \/ Partial(m.remaining) >= m.remaining
                           THEN m.remaining ELSE Partial(m.remaining),
                   stage |-> Stages[k]]
    BY DEF Part
  <2> HIDE DEF k
  <2>4. Stages[k] \in {"TARGET_1", "TARGET_2", "TARGET_3"} /\ StageIndex(Stages[k]) = k
    <3>1. Stages[2] = "TARGET_1" /\ Stages[3] = "TARGET_2" /\ Stages[4] = "TARGET_3"
      BY DEF Stages
    <3> QED
      BY <2>3, <3>1, StageOrder
  <2>5. Partial(m.remaining) \in Int
    BY DEF Partial
  <2>7. Part(m).stage = Stages[k] /\ Part(m).qty \in Int
    BY <2>5, <2>6
  <2> QED
    BY <1>3, <2>3, <2>4, <2>7 DEF StageNames
<1> QED
  BY <1>1, <1>2, <1>3

-----------------------------------------------------------------------------
(* The steps.                                                              *)

LEMMA SyncedSound ==
  ASSUME Sound(row), NEW before \in Positions, NEW after \in Positions
  PROVE  Sound(Synced(before, after))
<1>1. CASE before.qty = 0 /\ after.qty > 0
  BY <1>1 DEF Synced, Sound, Rows, Positions, PlanShapes, StageNames
<1>2. CASE ~(before.qty = 0 /\ after.qty > 0)
  <2> DEFINE open == after.qty > 0
             qty == IF after.qty > 0 THEN after.qty ELSE before.qty
  <2>1. Synced(before, after) = [row EXCEPT !.open = open, !.qty = qty]
    BY <1>2 DEF Synced
  <2>2. open \in BOOLEAN /\ qty \in Nat
    BY DEF Positions
  <2> HIDE DEF open, qty
  <2> QED
    BY <2>1, <2>2 DEF Sound, Rows
<1> QED
  BY <1>1, <1>2

\* A row that is moved to a stage.
Moved(r, remaining, stage, best) ==
  [r EXCEPT !.remaining = remaining, !.stage = stage, !.best = best]

LEMMA MovedSound ==
  ASSUME NEW r, Sound(r), NEW stage \in StageNames, NEW remaining \in Int, NEW best \in Int,
         stage = "STOPPED" => remaining = 0
  PROVE  /\ Sound(Moved(r, remaining, stage, best))
         /\ Moved(r, remaining, stage, best).remaining = remaining
         /\ Moved(r, remaining, stage, best).stage = stage
         /\ Moved(r, remaining, stage, best).best = best
BY DEF Sound, Rows, Moved

\* What a tick leaves of the row: moved on to the stage that was decided, or only ratcheted.
LEMMA TickRow ==
  ASSUME MonitorInv, NEW price \in Prices, Tick(price)
  PROVE  /\ Sound(row')
         /\ held' \in Positions /\ resting' \in [side: Sides, qty: Nat]
         /\ row'.best = Better(row.dir, row.best, price)
         /\ row'.remaining # row.remaining => StageIndex(row'.stage) > StageIndex(row.stage)
<1> DEFINE exit == Decision(row, price)
           side == Other(row.dir)
           after == Applied(held, side, Filled(exit.qty), price)
           best == Better(row.dir, row.best, price)
<1>1. /\ row.stage \in StageNames /\ row.remaining \in Int /\ row.remaining > 0
      /\ row.stage # "STOPPED" /\ row.dir \in Sides /\ Sound(row)
  BY DEF Tick, Loaded, MonitorInv, Sound, Rows
<1>2. best \in Int /\ side \in Sides /\ price \in Int
  BY PricesAssumption DEF MonitorInv, Sound, Rows, Better, Other, Sides
<1>3. CASE exit = NoExit
  <2>1. row' = [row EXCEPT !.best = best] /\ UNCHANGED <<held, resting>>
    BY <1>3 DEF Tick
  <2>2. Sound(row') /\ row'.best = best /\ row'.remaining = row.remaining
    <3> HIDE DEF best
    <3> QED
      BY <1>1, <1>2, <2>1 DEF Sound, Rows
  <2> QED
    BY <2>1, <2>2 DEF MonitorInv
<1>4. CASE exit # NoExit
  <2>1. /\ exit.stage \in StageNames /\ StageIndex(exit.stage) > StageIndex(row.stage)
        /\ exit.qty \in Int /\ (exit.stage = "STOPPED" => exit.qty = row.remaining)
    BY <1>1, <1>4, DecisionGoesOn
  <2>2. exit.qty > 0 /\ exit.qty \in Nat \ {0}
    BY <1>4, <2>1 DEF Tick
  <2>3. after \in Positions /\ LeftOver(side, exit.qty) \in [side: Sides, qty: Nat]
    <3>1. Filled(exit.qty) \in Nat \ {0}
      BY <2>2, FilledBounds
    <3> HIDE DEF exit, side
    <3> QED
      BY <1>2, <2>2, <3>1, AppliedShape, LeftOverShape DEF MonitorInv
  <2>4. PICK r : /\ Sound(r)
                 /\ row' = [r EXCEPT !.remaining = row.remaining - exit.qty,
                                     !.stage = exit.stage, !.best = best]
    <3>1. row.best = [row EXCEPT !.best = best].best \/ [row EXCEPT !.best = best].best = best
      BY <1>1 DEF Sound, Rows
    <3>2. [row EXCEPT !.best = best].best = best
      BY <1>1 DEF Sound, Rows
    <3>3. CASE GateAllows(held, resting, exit.qty)
      <4>1. row' = [Synced(held, after) EXCEPT !.remaining = row.remaining - exit.qty,
                      !.stage = exit.stage, !.best = [row EXCEPT !.best = best].best]
        BY <1>4, <3>3 DEF Tick
      <4> HIDE DEF after, exit, best
      <4>2. Sound(Synced(held, after))
        BY <1>1, <2>3, SyncedSound DEF MonitorInv
      <4> QED
        BY <3>2, <4>1, <4>2
    <3>4. CASE ~GateAllows(held, resting, exit.qty)
      <4>1. row' = [row EXCEPT !.remaining = row.remaining - exit.qty,
                      !.stage = exit.stage, !.best = [row EXCEPT !.best = best].best]
        BY <1>4, <3>4 DEF Tick
      <4> HIDE DEF exit, best
      <4> QED
        BY <1>1, <3>2, <4>1
    <3> QED
      BY <3>3, <3>4
  <2>5. held' \in Positions /\ resting' \in [side: Sides, qty: Nat]
    <3>1. \/ held' = after /\ resting' = LeftOver(side, exit.qty)
          \/ UNCHANGED <<held, resting>>
      BY <1>4 DEF Tick
    <3> HIDE DEF after, exit, side
    <3> QED
      BY <2>3, <3>1 DEF MonitorInv
  <2> HIDE DEF exit, best
  <2>6. /\ Sound(row') /\ row'.remaining = row.remaining - exit.qty
        /\ row'.stage = exit.stage /\ row'.best = best
    <3>1. /\ row.remaining - exit.qty \in Int
          /\ exit.stage = "STOPPED" => row.remaining - exit.qty = 0
      BY <1>1, <2>1
    <3> DEFINE left == row.remaining - exit.qty
               stage == exit.stage
    <3>2. row' = Moved(r, left, stage, best) /\ Sound(r)
      BY <2>4 DEF Moved
    <3>3. left \in Int /\ stage \in StageNames /\ (stage = "STOPPED" => left = 0)
      BY <2>1, <3>1
    <3>4. Sound(row') /\ row'.remaining = left /\ row'.stage = stage /\ row'.best = best
      <4> HIDE DEF left, stage
      <4> QED
        BY <1>2, <3>2, <3>3, MovedSound
    <3> QED
      BY <3>4
  <2> QED
    BY <2>1, <2>5, <2>6 DEF best
<1> QED
  BY <1>3, <1>4

LEMMA SignalKeeps ==
  ASSUME MonitorInv, NEW side \in Sides, NEW price \in EntryPrices, Signal(side, price)
  PROVE  MonitorInv'
<1> DEFINE after == Applied(held, side, Filled(Lot), price)
<1>1. Filled(Lot) \in Nat \ {0} /\ price \in Int
  BY QuantitiesAssumption, PricesAssumption, FilledBounds
<1>2. after \in Positions
  BY <1>1, AppliedShape DEF MonitorInv
<1>3. LeftOver(side, Lot) \in [side: Sides, qty: Nat]
  BY QuantitiesAssumption, LeftOverShape
<1>4. /\ held' = after /\ resting' = LeftOver(side, Lot)
      /\ \/ row' = Synced(held, after)
         \/ row' = Attached(Synced(held, after), after, side)
  BY DEF Signal
<1> HIDE DEF after
<1>5. Sound(Synced(held, after))
  BY <1>2, SyncedSound DEF MonitorInv
<1>6. Sound(Attached(Synced(held, after), after, side))
  <2>1. DefaultPlan(after.price, side) \in PlanShapes
    <3>1. Toward(side) \in {1, -1} /\ after.price \in Int
      BY <1>2 DEF Toward, Positions
    <3> QED
      BY <3>1 DEF DefaultPlan, PlanShapes
  <2> DEFINE plan == DefaultPlan(after.price, side)
             r == Synced(held, after)
  <2>2. Attached(r, after, side) = [r EXCEPT !.plan = plan, !.stage = "OPEN",
                                             !.remaining = after.qty, !.best = after.price]
    BY DEF Attached
  <2>3. after.qty \in Int /\ after.price \in Int
    BY <1>2 DEF Positions
  <2> HIDE DEF plan, r
  <2> QED
    BY <1>5, <2>1, <2>2, <2>3 DEF Sound, Rows, StageNames, plan, r
<1> QED
  BY <1>2, <1>3, <1>4, <1>5, <1>6 DEF MonitorInv

LEMMA SquareOffKeeps ==
  ASSUME MonitorInv, NEW price \in Prices, SquareOff(price)
  PROVE  MonitorInv'
<1> DEFINE broker == Recorded(price)
           side == Other(held.dir)
           after == Applied(broker.held, side, Filled(held.qty), price)
<1>1. price \in Int /\ side \in Sides /\ held.qty \in Nat \ {0}
  BY PricesAssumption DEF Other, Sides, MonitorInv, Positions, SquareOff
<1>2. broker.held \in Positions /\ broker.resting \in [side: Sides, qty: Nat]
  <2>1. CASE resting.qty = 0
    BY <2>1 DEF Recorded, MonitorInv, Settled, Sides
  <2>2. CASE resting.qty # 0
    <3>1. Applied(held, resting.side, resting.qty, price) \in Positions
      BY <1>1, <2>2, AppliedShape DEF MonitorInv
    <3> QED
      BY <2>2, <3>1 DEF Recorded, Settled, Sides
  <2> QED
    BY <2>1, <2>2
<1>3. after \in Positions /\ LeftOver(side, held.qty) \in [side: Sides, qty: Nat]
  <2>1. Filled(held.qty) \in Nat \ {0}
    BY <1>1, FilledBounds
  <2> HIDE DEF broker, side
  <2> QED
    BY <1>1, <1>2, <2>1, AppliedShape, LeftOverShape
<1>4. \/ /\ held' = after /\ resting' = LeftOver(side, held.qty)
         /\ \/ row' = Synced(broker.held, after)
            \/ row' = [Synced(broker.held, after) EXCEPT !.stage = "STOPPED", !.remaining = 0,
                                                        !.best = price]
      \/ held' = broker.held /\ resting' = broker.resting /\ UNCHANGED row
  BY DEF SquareOff
<1> HIDE DEF broker, side, after
<1>5. Sound(Synced(broker.held, after))
  BY <1>2, <1>3, SyncedSound DEF MonitorInv
<1>6. Sound([Synced(broker.held, after) EXCEPT !.stage = "STOPPED", !.remaining = 0,
                                             !.best = price])
  <2> DEFINE r == Synced(broker.held, after)
  <2>1. Sound(r)
    BY <1>5
  <2> HIDE DEF r
  <2>2. Sound([r EXCEPT !.stage = "STOPPED", !.remaining = 0, !.best = price])
    <3>1. "STOPPED" \in StageNames
      BY DEF StageNames
    <3>2. [r EXCEPT !.stage = "STOPPED", !.remaining = 0, !.best = price]
            = Moved(r, 0, "STOPPED", price)
      BY <2>1 DEF Sound, Rows, Moved
    <3> QED
      BY <1>1, <2>1, <3>1, <3>2, MovedSound
  <2> QED
    BY <2>2 DEF r
<1> QED
  BY <1>2, <1>3, <1>4, <1>5, <1>6 DEF MonitorInv

\* Rows and positions are well formed, and nothing remains of a position that was stopped.
THEOREM MonitorInvariant == Spec => []MonitorInv
<1>1. Init => MonitorInv
  BY DEF Init, MonitorInv, Positions, Sides, Flat, Settled, Sound, Rows, PlanShapes, StageNames
<1>2. MonitorInv /\ [Next]_vars => MonitorInv'
  <2> SUFFICES ASSUME MonitorInv, [Next]_vars PROVE MonitorInv'
    OBVIOUS
  <2>1. CASE Halt \/ Reset \/ UNCHANGED vars
    BY <2>1 DEF Halt, Reset, vars, MonitorInv, Sound
  <2>2. ASSUME NEW price \in Prices, Tick(price) PROVE MonitorInv'
    BY <2>2, TickRow DEF MonitorInv
  <2> QED
    BY <2>1, <2>2, SignalKeeps, SquareOffKeeps DEF Next, Sides
<1> QED
  BY <1>1, <1>2, PTL DEF Spec

\* Whatever the prices do, a tick takes a target at most once and none after the stop, and
\* the trailing stop never loosens.
THEOREM TicksGoForwardHolds == Spec => TicksGoForward
<1>1. ASSUME MonitorInv, NEW price \in Prices, Tick(price)
      PROVE  /\ row'.remaining # row.remaining => StageIndex(row'.stage) > StageIndex(row.stage)
             /\ AtLeast(row.dir, row'.best, row.best)
  <2>1. price \in Int /\ row.best \in Int /\ row.dir \in Sides
    BY <1>1, PricesAssumption DEF MonitorInv, Sound, Rows
  <2>2. AtLeast(row.dir, Better(row.dir, row.best, price), row.best)
    BY <2>1 DEF Sides, Better, AtLeast
  <2> QED
    BY <1>1, <2>2, TickRow
<1>2. MonitorInv /\ [Next]_vars =>
        [(\E price \in Prices : Tick(price)) =>
           /\ row'.remaining # row.remaining => StageIndex(row'.stage) > StageIndex(row.stage)
           /\ AtLeast(row.dir, row'.best, row.best)]_vars
  BY <1>1
<1> QED
  BY <1>2, MonitorInvariant, PTL DEF Spec, TicksGoForward

-----------------------------------------------------------------------------
(* What is watched and what is held.                                       *)

\* A signal whose lot the broker does not fill whole never gets a plan.  With whole fills, what
\* rests is the rest of an exit and less than a quantum, so that completing it only takes from
\* the position, and what remains of the plan is backed by what is held beyond it.
Backed ==
  /\ held.qty <= MaxSize
  /\ row.open <=> held.qty > 0
  /\ held.qty > 0 => row.dir = held.dir /\ held.qty <= row.qty
  /\ held.qty > 0 /\ resting.qty > 0 => resting.side = Other(held.dir)
  /\ resting.qty < Quantum
  /\ row.open /\ row.plan # NoPlan =>
       row.remaining = 0 \/ row.remaining <= held.qty - resting.qty

WatchInv ==
  /\ MonitorInv
  /\ IF Filled(Lot) = Lot THEN Backed ELSE row.plan = NoPlan

LEMMA AppliedQty ==
  ASSUME NEW h \in Positions, NEW side \in Sides, NEW qty \in Nat \ {0}, NEW price \in Int
  PROVE  /\ h.qty = 0 => /\ Applied(h, side, qty, price).qty = qty
                         /\ Applied(h, side, qty, price).dir = side
         /\ h.qty > 0 /\ h.dir = side =>
              /\ Applied(h, side, qty, price).qty = h.qty + qty
              /\ Applied(h, side, qty, price).dir = h.dir
         /\ h.qty > 0 /\ h.dir # side /\ qty >= h.qty => Applied(h, side, qty, price).qty = 0
         /\ h.qty > 0 /\ h.dir # side /\ qty < h.qty =>
              /\ Applied(h, side, qty, price).qty = h.qty - qty
              /\ Applied(h, side, qty, price).dir = h.dir
<1>1. h.qty \in Nat /\ h = [dir |-> h.dir, qty |-> h.qty, price |-> h.price]
  BY DEF Positions
<1>2. CASE h.qty = 0
  BY <1>2 DEF Applied
<1>3. CASE h.qty > 0 /\ h.dir = side
  <2> DEFINE avg == (h.price * h.qty + price * qty) \div (h.qty + qty)
  <2>1. Applied(h, side, qty, price) = [h EXCEPT !.qty = h.qty + qty, !.price = avg]
    BY <1>1, <1>3 DEF Applied
  <2> HIDE DEF avg
  <2> QED
    BY <1>1, <1>3, <2>1
<1>4. CASE h.qty > 0 /\ h.dir # side /\ qty >= h.qty
  BY <1>1, <1>4 DEF Applied, Flat
<1>5. CASE h.qty > 0 /\ h.dir # side /\ qty < h.qty
  <2>1. Applied(h, side, qty, price) = [h EXCEPT !.qty = h.qty - qty]
    BY <1>1, <1>5 DEF Applied
  <2> QED
    BY <1>1, <1>5, <2>1
<1> QED
  BY <1>1, <1>2, <1>3, <1>4, <1>5

LEMMA LeftOverQty ==
  ASSUME NEW side \in Sides, NEW qty \in Nat
  PROVE  /\ LeftOver(side, qty).qty = qty - Filled(qty)
         /\ LeftOver(side, qty).qty > 0 => LeftOver(side, qty).side = side
  BY FilledBounds DEF LeftOver, Settled

LEMMA SyncedParts ==
  ASSUME MonitorInv, NEW before \in Positions, NEW after \in Positions
  PROVE  /\ before.qty = 0 /\ after.qty > 0 =>
              /\ Synced(before, after).open = TRUE /\ Synced(before, after).plan = NoPlan
              /\ Synced(before, after).dir = after.dir /\ Synced(before, after).qty = after.qty
         /\ ~(before.qty = 0 /\ after.qty > 0) =>
              /\ Synced(before, after).open <=> after.qty > 0
              /\ Synced(before, after).plan = row.plan /\ Synced(before, after).dir = row.dir
              /\ Synced(before, after).remaining = row.remaining
              /\ after.qty > 0 => Synced(before, after).qty = after.qty
<1>1. row \in Rows
  BY DEF MonitorInv, Sound
<1>2. CASE before.qty = 0 /\ after.qty > 0
  BY <1>2 DEF Synced
<1>3. CASE ~(before.qty = 0 /\ after.qty > 0)
  <2> DEFINE open == after.qty > 0
             qty == IF after.qty > 0 THEN after.qty ELSE before.qty
  <2>1. Synced(before, after) = [row EXCEPT !.open = open, !.qty = qty]
    BY <1>3 DEF Synced
  <2>2. Synced(before, after).open = open /\ Synced(before, after).qty = qty
    <3> HIDE DEF open, qty
    <3> QED
      BY <1>1, <2>1 DEF Rows
  <2>3. /\ Synced(before, after).plan = row.plan /\ Synced(before, after).dir = row.dir
        /\ Synced(before, after).remaining = row.remaining
    <3> HIDE DEF open, qty
    <3> QED
      BY <1>1, <2>1 DEF Rows
  <2> QED
    BY <1>3, <2>2, <2>3
<1> QED
  BY <1>2, <1>3

\* No exit is for more than what remains, nor for less than nothing.
LEMMA DecisionWithin ==
  ASSUME NEW m, NEW price, m.remaining \in Int, Decision(m, price) # NoExit
  PROVE  /\ Decision(m, price).qty <= m.remaining
         /\ m.remaining >= 0 => Decision(m, price).qty >= 0
<1> DEFINE k == Min(TargetsLeft(m))
<1>1. Decision(m, price) = Whole(m) \/ Decision(m, price) = Part(m)
  BY DecisionCases
<1>2. Whole(m).qty = m.remaining
  BY DEF Whole
<1>3. /\ Partial(m.remaining) \in Int
      /\ m.remaining >= 0 => Partial(m.remaining) >= 0
  BY DEF Partial
<1>4. Part(m).qty = IF k = 4 \/ Partial(m.remaining) >= m.remaining
                    THEN m.remaining ELSE Partial(m.remaining)
  BY DEF Part
<1> HIDE DEF k
<1> QED
  BY <1>1, <1>2, <1>3, <1>4

\* A tick takes something of what remains, and it goes to the broker or not.
LEMMA TickParts ==
  ASSUME MonitorInv, NEW price \in Prices, Tick(price)
  PROVE  /\ row.open /\ row.plan # NoPlan /\ row.remaining > 0
         /\ \/ /\ UNCHANGED <<held, resting>> /\ row'.remaining = row.remaining
               /\ row'.open = row.open /\ row'.plan = row.plan
               /\ row'.dir = row.dir /\ row'.qty = row.qty
            \/ \E qty \in Nat \ {0} :
                 /\ qty <= row.remaining /\ row'.remaining = row.remaining - qty
                 /\ \/ /\ ~GateAllows(held, resting, qty) /\ UNCHANGED <<held, resting>>
                       /\ row'.open = row.open /\ row'.plan = row.plan
                       /\ row'.dir = row.dir /\ row'.qty = row.qty
                    \/ /\ GateAllows(held, resting, qty)
                       /\ held' = Applied(held, Other(row.dir), Filled(qty), price)
                       /\ resting' = LeftOver(Other(row.dir), qty)
                       /\ row'.open = Synced(held, held').open
                       /\ row'.plan = Synced(held, held').plan
                       /\ row'.dir = Synced(held, held').dir
                       /\ row'.qty = Synced(held, held').qty
<1> DEFINE exit == Decision(row, price)
           best == [row EXCEPT !.best = Better(row.dir, @, price)].best
<1>1. /\ row.open /\ row.plan # NoPlan /\ row.remaining > 0
      /\ row.stage \in StageNames /\ row.remaining \in Int /\ row.stage # "STOPPED"
      /\ row \in Rows /\ row.dir \in Sides
  BY DEF Tick, Loaded, MonitorInv, Sound, Rows
<1>2. CASE exit = NoExit
  <2>1. row' = [row EXCEPT !.best = Better(row.dir, @, price)] /\ UNCHANGED <<held, resting>>
    BY <1>2 DEF Tick
  <2> QED
    BY <1>1, <2>1 DEF Rows
<1>3. CASE exit # NoExit
  <2>1. exit.qty \in Int /\ exit.qty <= row.remaining /\ exit.qty > 0
    BY <1>1, <1>3, DecisionGoesOn, DecisionWithin DEF Tick
  <2>2. PICK qty \in Nat \ {0} : qty = exit.qty
    BY <2>1
  <2>3. CASE ~GateAllows(held, resting, qty)
    <3>1. /\ UNCHANGED <<held, resting>>
          /\ row' = [row EXCEPT !.remaining = row.remaining - exit.qty, !.stage = exit.stage,
                                !.best = best]
      BY <1>3, <2>2, <2>3 DEF Tick
    <3> HIDE DEF exit, best
    <3>2. /\ row'.remaining = row.remaining - exit.qty
          /\ row'.open = row.open /\ row'.plan = row.plan
          /\ row'.dir = row.dir /\ row'.qty = row.qty
      BY <1>1, <3>1 DEF Rows
    <3> QED
      BY <1>1, <2>1, <2>2, <2>3, <3>1, <3>2
  <2>4. CASE GateAllows(held, resting, qty)
    <3> DEFINE side == Other(row.dir)
               after == Applied(held, side, Filled(exit.qty), price)
               r == Synced(held, after)
    <3>1. /\ held' = after /\ resting' = LeftOver(side, exit.qty)
          /\ row' = [r EXCEPT !.remaining = row.remaining - exit.qty, !.stage = exit.stage,
                              !.best = best]
      BY <1>3, <2>2, <2>4 DEF Tick
    <3>2. side \in Sides /\ Filled(exit.qty) \in Nat \ {0} /\ price \in Int
      BY <2>1, FilledBounds, PricesAssumption DEF Other, Sides
    <3>3. after \in Positions
      <4> HIDE DEF side, exit
      <4> QED
        BY <3>2, AppliedShape DEF MonitorInv
    <3>4. r \in Rows
      <4> HIDE DEF after
      <4> QED
        BY <3>3, SyncedSound DEF MonitorInv, Sound
    <3> HIDE DEF r, exit, best
    <3>5. /\ row'.remaining = row.remaining - exit.qty
          /\ row'.open = r.open /\ row'.plan = r.plan /\ row'.dir = r.dir /\ row'.qty = r.qty
      BY <3>1, <3>4 DEF Rows
    <3>6. r = Synced(held, held')
      BY <3>1 DEF r
    <3> QED
      BY <1>1, <2>1, <2>2, <2>4, <3>1, <3>5, <3>6
  <2> QED
    BY <2>3, <2>4
<1> QED
  BY <1>1, <1>2, <1>3

\* What a signal leaves of the row: with a plan for all of the position when its lot was filled.
LEMMA SignalParts ==
  ASSUME MonitorInv, NEW side \in Sides, NEW price \in EntryPrices, Signal(side, price)
  PROVE  /\ resting.qty = 0 /\ held.qty + Lot <= MaxSize /\ held'.qty \in Nat
         /\ held' = Applied(held, side, Filled(Lot), price)
         /\ resting' = LeftOver(side, Lot)
         /\ row'.open <=> held'.qty > 0
         /\ held'.qty > 0 => row'.qty = held'.qty
         /\ row'.dir = IF held.qty = 0 /\ held'.qty > 0 THEN held'.dir ELSE row.dir
         /\ Filled(Lot) = Lot /\ held'.qty > 0 => row'.remaining = held'.qty
         /\ Filled(Lot) # Lot /\ row.plan = NoPlan => row'.plan = NoPlan
<1> DEFINE after == Applied(held, side, Filled(Lot), price)
           r == Synced(held, after)
<1>1. Filled(Lot) \in Nat \ {0} /\ price \in Int
  BY QuantitiesAssumption, PricesAssumption, FilledBounds
<1>2. held' = after /\ after \in Positions /\ after.qty \in Nat
  BY <1>1, AppliedShape DEF Signal, MonitorInv, Positions
<1>3. /\ resting' = LeftOver(side, Lot) /\ resting.qty = 0 /\ held.qty + Lot <= MaxSize
      /\ held' = Applied(held, side, Filled(Lot), price)
      /\ row' = IF Filled(Lot) = Lot /\ after.qty > 0 THEN Attached(r, after, side) ELSE r
  BY DEF Signal, GateAllows
<1> HIDE DEF after
<1>4. r \in Rows
  BY <1>2, SyncedSound DEF MonitorInv, Sound
<1>5. /\ r.open <=> after.qty > 0
      /\ after.qty > 0 => r.qty = after.qty
      /\ r.dir = IF held.qty = 0 /\ after.qty > 0 THEN after.dir ELSE row.dir
      /\ r.plan = IF held.qty = 0 /\ after.qty > 0 THEN NoPlan ELSE row.plan
  <2>1. held \in Positions
    BY DEF MonitorInv
  <2>2. CASE held.qty = 0 /\ after.qty > 0
    BY <1>2, <2>1, <2>2, SyncedParts
  <2>3. CASE ~(held.qty = 0 /\ after.qty > 0)
    BY <1>2, <2>1, <2>3, SyncedParts
  <2> QED
    BY <2>2, <2>3
<1> HIDE DEF r
<1>6. CASE Filled(Lot) = Lot /\ after.qty > 0
  <2> DEFINE plan == DefaultPlan(after.price, side)
  <2>1. row' = [r EXCEPT !.plan = plan, !.stage = "OPEN",
                         !.remaining = after.qty, !.best = after.price]
    BY <1>3, <1>6 DEF Attached
  <2> HIDE DEF plan
  <2>2. row'.open = r.open /\ row'.qty = r.qty /\ row'.dir = r.dir /\ row'.remaining = after.qty
    BY <1>4, <2>1 DEF Rows
  <2> QED
    BY <1>2, <1>3, <1>5, <1>6, <2>2
<1>7. CASE ~(Filled(Lot) = Lot /\ after.qty > 0)
  BY <1>2, <1>3, <1>5, <1>7
<1> QED
  BY <1>6, <1>7

LEMMA WatchSignal ==
  ASSUME WatchInv, NEW side \in Sides, NEW price \in EntryPrices, Signal(side, price)
  PROVE  WatchInv'
<1>1. MonitorInv'
  BY SignalKeeps DEF WatchInv
<1>2. CASE Filled(Lot) # Lot
  BY <1>1, <1>2, SignalParts DEF WatchInv
<1>3. CASE Filled(Lot) = Lot
  <2>1. /\ Lot \in Nat \ {0} /\ price \in Int /\ held \in Positions /\ held.qty \in Nat
        /\ MaxSize \in Nat /\ Lot > 0
    BY QuantitiesAssumption, PricesAssumption DEF WatchInv, MonitorInv, Positions
  <2>2. resting'.qty = 0
    BY <1>3, <2>1, SignalParts, LeftOverQty DEF WatchInv
  <2>3. held' = Applied(held, side, Lot, price) /\ held.qty + Lot <= MaxSize
    BY <1>3, SignalParts DEF WatchInv
  <2>4. held'.qty <= MaxSize /\ held'.qty \in Nat
    BY <2>1, <2>3, AppliedQty, SignalParts DEF WatchInv
  <2>5. held'.qty > 0 => row'.dir = held'.dir
    <3>1. held.qty > 0 => row.dir = held.dir
      BY <1>3 DEF WatchInv, Backed
    <3>2. held.qty > 0 /\ held'.qty > 0 => held'.dir = held.dir
      BY <2>1, <2>3, AppliedQty
    <3> QED
      BY <2>1, <3>1, <3>2, SignalParts DEF WatchInv
  <2>6. resting'.qty < Quantum
    BY <2>2, QuantitiesAssumption
  <2>7. Backed'
    BY <1>3, <2>2, <2>4, <2>5, <2>6, SignalParts DEF WatchInv, Backed
  <2> QED
    BY <1>1, <1>3, <2>7 DEF WatchInv
<1> QED
  BY <1>2, <1>3

LEMMA WatchTick ==
  ASSUME WatchInv, NEW price \in Prices, Tick(price)
  PROVE  WatchInv'
<1>1. MonitorInv' /\ price \in Int
  BY TickRow, PricesAssumption DEF WatchInv, MonitorInv
<1>2. Filled(Lot) = Lot
  BY TickParts DEF WatchInv
<1>3. /\ held \in Positions /\ held.qty \in Nat /\ resting.qty \in Nat /\ row.remaining \in Int
      /\ row.dir \in Sides /\ row.qty \in Nat
  BY DEF WatchInv, MonitorInv, Positions, Sound, Rows
<1>4. /\ held.qty > 0 /\ row.dir = held.dir /\ row.open /\ row.plan # NoPlan
      /\ row.remaining > 0 /\ row.remaining <= held.qty - resting.qty
      /\ held.qty <= MaxSize /\ held.qty <= row.qty /\ MaxSize \in Nat
      /\ resting.qty > 0 => resting.side = Other(held.dir)
      /\ resting.qty < Quantum
  BY <1>2, <1>3, TickParts, QuantitiesAssumption DEF WatchInv, Backed
<1>5. CASE UNCHANGED <<held, resting>> /\ row'.open = row.open /\ row'.plan = row.plan
            /\ row'.dir = row.dir /\ row'.qty = row.qty /\ row'.remaining <= row.remaining
            /\ row'.remaining \in Int
  <2>1. Backed'
    BY <1>3, <1>4, <1>5 DEF Backed
  <2> QED
    BY <1>1, <1>2, <2>1 DEF WatchInv
<1>6. ASSUME NEW qty \in Nat \ {0}, qty <= row.remaining, row'.remaining = row.remaining - qty,
             GateAllows(held, resting, qty),
             held' = Applied(held, Other(row.dir), Filled(qty), price),
             resting' = LeftOver(Other(row.dir), qty),
             row'.open = Synced(held, held').open, row'.plan = Synced(held, held').plan,
             row'.dir = Synced(held, held').dir, row'.qty = Synced(held, held').qty
      PROVE  WatchInv'
  <2>1. PICK side \in Sides : side = Other(row.dir) /\ side # held.dir
    BY <1>3, <1>4 DEF Other, Sides
  <2>2. PICK filled \in Nat \ {0} : /\ filled = Filled(qty) /\ filled <= qty
                                     /\ qty - filled < Quantum
    BY <1>6, FilledBounds, FilledGap
  <2>3. resting.qty = 0 /\ filled <= held.qty
    BY <1>3, <1>4, <1>6, <2>2 DEF GateAllows
  <2>4. held'.qty = held.qty - filled /\ (held'.qty > 0 => held'.dir = held.dir)
    <3>1. held' = Applied(held, side, filled, price)
      BY <1>6, <2>1, <2>2
    <3>2. held.dir # side /\ held.qty > 0 /\ held \in Positions /\ price \in Int
      BY <1>1, <1>3, <1>4, <2>1
    <3>3. CASE filled = held.qty
      BY <1>3, <3>1, <3>2, <3>3, AppliedQty
    <3>4. CASE filled < held.qty
      BY <3>1, <3>2, <3>4, AppliedQty
    <3> QED
      BY <1>3, <2>3, <3>3, <3>4
  <2>5. resting'.qty = qty - filled /\ (resting'.qty > 0 => resting'.side = side)
    BY <1>6, <2>1, <2>2, LeftOverQty
  <2>6. /\ row'.open <=> held'.qty > 0
        /\ row'.dir = row.dir /\ row'.plan = row.plan
        /\ held'.qty > 0 => row'.qty = held'.qty
    <3>1. held' \in Positions /\ ~(held.qty = 0 /\ held'.qty > 0)
      BY <1>1, <1>3, <1>4 DEF MonitorInv
    <3> QED
      BY <1>3, <1>6, <3>1, SyncedParts DEF WatchInv
  <2>7. Backed'
    BY <1>3, <1>4, <1>6, <2>1, <2>2, <2>3, <2>4, <2>5, <2>6 DEF Backed
  <2> QED
    BY <1>1, <1>2, <2>7 DEF WatchInv
<1>7. CASE \/ /\ UNCHANGED <<held, resting>> /\ row'.remaining = row.remaining
              /\ row'.open = row.open /\ row'.plan = row.plan
              /\ row'.dir = row.dir /\ row'.qty = row.qty
           \/ \E qty \in Nat \ {0} :
                /\ qty <= row.remaining /\ row'.remaining = row.remaining - qty
                /\ ~GateAllows(held, resting, qty) /\ UNCHANGED <<held, resting>>
                /\ row'.open = row.open /\ row'.plan = row.plan
                /\ row'.dir = row.dir /\ row'.qty = row.qty
  BY <1>3, <1>5, <1>7
<1> QED
  BY <1>6, <1>7, TickParts DEF WatchInv

\* The square-off completes what rests and orders what was held before that, if the gate lets it.
LEMMA SquareOffParts ==
  ASSUME MonitorInv, NEW price \in Prices, SquareOff(price)
  PROVE  /\ held.qty > 0 /\ Recorded(price).held \in Positions
         /\ \/ /\ ~GateAllows(Recorded(price).held, Settled, held.qty)
               /\ held' = Recorded(price).held /\ resting' = Settled /\ UNCHANGED row
            \/ /\ GateAllows(Recorded(price).held, Settled, held.qty)
               /\ held' = Applied(Recorded(price).held, Other(held.dir), Filled(held.qty), price)
               /\ resting' = LeftOver(Other(held.dir), held.qty)
               /\ row'.open <=> held'.qty > 0
               /\ held'.qty > 0 => row'.qty = held'.qty
               /\ row'.dir = IF Recorded(price).held.qty = 0 /\ held'.qty > 0
                             THEN held'.dir ELSE row.dir
               /\ row'.plan = IF Recorded(price).held.qty = 0 /\ held'.qty > 0
                              THEN NoPlan ELSE row.plan
               /\ Recorded(price).held.qty > 0 => row'.remaining = 0
<1> DEFINE completed == Recorded(price).held
           side == Other(held.dir)
           after == Applied(completed, side, Filled(held.qty), price)
           r == Synced(completed, after)
<1>1. price \in Int /\ side \in Sides /\ held.qty \in Nat \ {0} /\ held \in Positions
  BY PricesAssumption DEF Other, Sides, MonitorInv, Positions, SquareOff
<1>2. completed \in Positions
  <2>1. CASE resting.qty = 0
    BY <1>1, <2>1 DEF Recorded
  <2>2. CASE resting.qty # 0
    <3>1. Applied(held, resting.side, resting.qty, price) \in Positions
      BY <1>1, <2>2, AppliedShape DEF MonitorInv
    <3> QED
      BY <2>2, <3>1 DEF Recorded
  <2> QED
    BY <2>1, <2>2
<1>3. after \in Positions
  <2>1. Filled(held.qty) \in Nat \ {0}
    BY <1>1, FilledBounds
  <2> HIDE DEF completed, side
  <2> QED
    BY <1>1, <1>2, <2>1, AppliedShape
<1>4. Recorded(price).resting = Settled
  BY DEF Recorded
<1>5. CASE ~GateAllows(completed, Settled, held.qty)
  BY <1>1, <1>2, <1>4, <1>5 DEF SquareOff
<1>6. CASE GateAllows(completed, Settled, held.qty)
  <2>1. /\ held' = after /\ resting' = LeftOver(side, held.qty)
        /\ row' = IF completed.qty = 0 THEN r
                  ELSE [r EXCEPT !.stage = "STOPPED", !.remaining = 0, !.best = price]
    BY <1>4, <1>6 DEF SquareOff
  <2> HIDE DEF after
  <2>2. r \in Rows /\ completed.qty \in Nat
    BY <1>2, <1>3, SyncedSound DEF MonitorInv, Sound, Positions
  <2>3. /\ r.open <=> after.qty > 0
        /\ after.qty > 0 => r.qty = after.qty
        /\ r.dir = IF completed.qty = 0 /\ after.qty > 0 THEN after.dir ELSE row.dir
        /\ r.plan = IF completed.qty = 0 /\ after.qty > 0 THEN NoPlan ELSE row.plan
    <3> HIDE DEF completed
    <3>1. CASE completed.qty = 0 /\ after.qty > 0
      BY <1>2, <1>3, <3>1, SyncedParts
    <3>2. CASE ~(completed.qty = 0 /\ after.qty > 0)
      BY <1>2, <1>3, <3>2, SyncedParts
    <3> QED
      BY <3>1, <3>2
  <2>4. /\ row'.open <=> after.qty > 0
        /\ row'.qty = r.qty /\ row'.dir = r.dir /\ row'.plan = r.plan
        /\ completed.qty > 0 => row'.remaining = 0
    <3> HIDE DEF r, completed
    <3> QED
      BY <2>1, <2>2, <2>3 DEF Rows
  <2>5. held' = Applied(completed, side, Filled(held.qty), price)
    BY <2>1 DEF after
  <2> HIDE DEF r, completed
  <2>6. /\ row'.open <=> held'.qty > 0
        /\ held'.qty > 0 => row'.qty = held'.qty
        /\ row'.dir = IF completed.qty = 0 /\ held'.qty > 0 THEN held'.dir ELSE row.dir
        /\ row'.plan = IF completed.qty = 0 /\ held'.qty > 0 THEN NoPlan ELSE row.plan
    BY <2>1, <2>3, <2>4
  <2> QED
    BY <1>1, <1>2, <1>6, <2>1, <2>4, <2>5, <2>6 DEF completed
<1> QED
  BY <1>5, <1>6

\* Completing the rest of an exit takes it from the position, or all there is.
LEMMA Completing ==
  ASSUME MonitorInv, Backed, NEW price \in Prices, held.qty > 0
  PROVE  LET completed == Recorded(price).held
         IN /\ completed.qty = IF resting.qty >= held.qty THEN 0 ELSE held.qty - resting.qty
            /\ completed.qty > 0 => completed.dir = held.dir
<1>1. /\ held \in Positions /\ resting.side \in Sides /\ resting.qty \in Nat /\ price \in Int
      /\ held.dir \in Sides /\ held.qty \in Nat
  BY PricesAssumption DEF MonitorInv, Positions
<1>2. CASE resting.qty = 0
  BY <1>1, <1>2 DEF Recorded
<1>3. CASE resting.qty > 0
  <2>1. resting.side # held.dir
    BY <1>1, <1>3 DEF Backed, Other, Sides
  <2>2. Recorded(price).held = Applied(held, resting.side, resting.qty, price)
    BY <1>3 DEF Recorded
  <2>3. CASE resting.qty >= held.qty
    BY <1>1, <1>3, <2>1, <2>2, <2>3, AppliedQty
  <2>4. CASE resting.qty < held.qty
    BY <1>1, <1>3, <2>1, <2>2, <2>4, AppliedQty
  <2> QED
    BY <1>1, <2>3, <2>4
<1> QED
  BY <1>1, <1>2, <1>3

LEMMA WatchSquareOff ==
  ASSUME WatchInv, NEW price \in Prices, SquareOff(price)
  PROVE  WatchInv'
<1>1. MonitorInv' /\ price \in Int /\ held.qty > 0
  BY SquareOffKeeps, PricesAssumption DEF WatchInv, SquareOff
<1>2. CASE Filled(Lot) # Lot
  BY <1>1, <1>2, SquareOffParts DEF WatchInv
<1>3. CASE Filled(Lot) = Lot
  <2>1. Backed
    BY <1>3 DEF WatchInv
  <2>2. /\ held.dir \in Sides /\ held.qty \in Nat \ {0} /\ resting.qty \in Nat
        /\ row.remaining \in Int /\ row.qty \in Nat /\ MaxSize \in Nat
    BY <1>1, QuantitiesAssumption DEF WatchInv, MonitorInv, Positions, Sound, Rows
  <2>3. /\ held.qty <= MaxSize /\ row.open /\ row.dir = held.dir /\ held.qty <= row.qty
        /\ row.plan # NoPlan => row.remaining = 0 \/ row.remaining <= held.qty - resting.qty
    BY <1>1, <2>1 DEF Backed
  <2>4. PICK completed \in Positions : completed = Recorded(price).held
    BY SquareOffParts DEF WatchInv
  <2>5. /\ completed.qty = IF resting.qty >= held.qty THEN 0 ELSE held.qty - resting.qty
        /\ completed.qty > 0 => completed.dir = held.dir
        /\ completed.qty \in Nat
    <3>1. completed.qty \in Nat
      BY DEF Positions
    <3> QED
      BY <1>1, <2>1, <2>4, <3>1, Completing DEF WatchInv
  <2>6. CASE ~GateAllows(completed, Settled, held.qty)
    <3>1. held' = completed /\ resting' = Settled /\ UNCHANGED row
      BY <2>4, <2>6, SquareOffParts DEF WatchInv
    <3>2. completed.qty > 0
      BY <2>2, <2>3, <2>5, <2>6 DEF GateAllows, Settled
    <3>3. Settled.qty = 0
      BY DEF Settled
    <3>4. Backed'
      BY <2>2, <2>3, <2>5, <3>1, <3>2, <3>3, QuantitiesAssumption DEF Backed
    <3> QED
      BY <1>1, <1>3, <3>4 DEF WatchInv
  <2>7. CASE GateAllows(completed, Settled, held.qty)
    <3>1. PICK side \in Sides : side = Other(held.dir) /\ side # held.dir
      BY <2>2 DEF Other, Sides
    <3>2. PICK filled \in Nat \ {0} :
            /\ filled = Filled(held.qty) /\ filled <= held.qty
            /\ held.qty - filled < Quantum /\ (held.qty < Quantum => filled = held.qty)
      <4>1. held.qty \in Nat /\ held.qty > 0
        BY <2>2
      <4> QED
        BY <4>1, FilledBounds, FilledGap
    <3>3. /\ held' = Applied(completed, side, filled, price)
          /\ resting' = LeftOver(side, held.qty)
          /\ row'.open <=> held'.qty > 0
          /\ held'.qty > 0 => row'.qty = held'.qty
          /\ row'.dir = IF completed.qty = 0 /\ held'.qty > 0 THEN held'.dir ELSE row.dir
          /\ row'.plan = IF completed.qty = 0 /\ held'.qty > 0 THEN NoPlan ELSE row.plan
          /\ completed.qty > 0 => row'.remaining = 0
      BY <2>4, <2>7, <3>1, <3>2, SquareOffParts DEF WatchInv
    <3>4. resting'.qty = held.qty - filled /\ (resting'.qty > 0 => resting'.side = side)
      BY <2>2, <3>1, <3>2, <3>3, LeftOverQty
    <3>5. CASE completed.qty = 0
      <4>1. held'.qty = filled /\ held'.dir = side
        BY <1>1, <2>4, <3>3, <3>5, AppliedQty
      <4>2. held.qty < Quantum
        BY <2>1, <2>2, <2>5, <3>5, QuantitiesAssumption DEF Backed
      <4>3. resting'.qty = 0
        BY <2>2, <3>2, <3>4, <4>2
      <4>4. Backed'
        BY <1>1, <2>2, <2>3, <3>2, <3>3, <3>5, <4>1, <4>3, QuantitiesAssumption DEF Backed
      <4> QED
        BY <1>1, <1>3, <4>4 DEF WatchInv
    <3>6. CASE completed.qty > 0
      <4>1. /\ held'.qty = IF filled >= completed.qty THEN 0 ELSE completed.qty - filled
            /\ held'.qty > 0 => held'.dir = held.dir
        <5>1. CASE filled >= completed.qty
          BY <1>1, <2>5, <3>1, <3>3, <3>6, <5>1, AppliedQty
        <5>2. CASE filled < completed.qty
          BY <1>1, <2>5, <3>1, <3>3, <3>6, <5>2, AppliedQty
        <5> QED
          BY <2>5, <5>1, <5>2
      <4>2. row'.dir = held.dir /\ row'.remaining = 0
        BY <2>3, <3>3, <3>6
      <4>3. Backed'
        BY <2>2, <2>3, <2>5, <3>1, <3>2, <3>3, <3>4, <3>6, <4>1, <4>2 DEF Backed
      <4> QED
        BY <1>1, <1>3, <4>3 DEF WatchInv
    <3> QED
      BY <2>5, <3>5, <3>6
  <2> QED
    BY <2>6, <2>7
<1> QED
  BY <1>2, <1>3

LEMMA WatchInvariance == Spec => []WatchInv
<1>1. Init => WatchInv
  <2> SUFFICES ASSUME Init PROVE WatchInv
    OBVIOUS
  <2>1. MonitorInv
    BY DEF Init, MonitorInv, Positions, Sides, Flat, Settled, Sound, Rows, PlanShapes, StageNames
  <2>2. row.plan = NoPlan /\ ~row.open /\ held.qty = 0 /\ resting.qty = 0
    BY DEF Init, Flat, Settled
  <2> QED
    BY <2>1, <2>2, QuantitiesAssumption DEF WatchInv, Backed
<1>2. WatchInv /\ [Next]_vars => WatchInv'
  <2> SUFFICES ASSUME WatchInv, [Next]_vars PROVE WatchInv'
    OBVIOUS
  <2>1. CASE Halt \/ Reset \/ UNCHANGED vars
    BY <2>1 DEF Halt, Reset, vars, WatchInv, MonitorInv, Sound, Backed
  <2> QED
    BY <2>1, WatchSignal, WatchTick, WatchSquareOff DEF Next, Sides
<1> QED
  BY <1>1, <1>2, PTL DEF Spec

\* For any prices, quantities, limits and roundings, no row has more remaining than its quantity,
\* also after exits that were filled in parts, refused, or overtaken by a square-off: the load
\* of the managed positions never raises.
THEOREM NeverWedgedHolds == Spec => []NeverWedged
<1>1. WatchInv => NeverWedged
  <2> SUFFICES ASSUME WatchInv, row.open, row.plan # NoPlan
               PROVE  row.remaining <= row.qty
    BY DEF NeverWedged
  <2>1. /\ held.qty \in Nat /\ resting.qty \in Nat /\ row.qty \in Nat /\ row.remaining \in Int
        /\ Backed
    BY DEF WatchInv, MonitorInv, Positions, Sound, Rows
  <2> QED
    BY <2>1 DEF Backed
<1> QED
  BY WatchInvariance, <1>1, PTL

-----------------------------------------------------------------------------
(* The whole position is watched, if the size limit has room for an exit   *)
(* of everything a signal may build up.                                    *)

Roomy == 2 * MaxHeld <= MaxSize /\ Lot <= MaxHeld

FullInv == WatchInv /\ (Filled(Lot) = Lot => held.qty <= MaxHeld /\ WatchedInFull)

LEMMA FullSignal ==
  ASSUME Roomy, FullInv, Filled(Lot) = Lot, NEW side \in Sides, NEW price \in EntryPrices, Signal(side, price)
  PROVE  FullInv'
<1>1. WatchInv'
  BY WatchSignal DEF FullInv
<1>2. /\ held \in Positions /\ held.qty \in Nat /\ price \in Int /\ Lot \in Nat \ {0}
      /\ MaxHeld \in Nat /\ Filled(Lot) \in Nat \ {0} /\ Filled(Lot) <= Lot
      /\ held.qty <= MaxHeld /\ Lot <= MaxHeld
  BY QuantitiesAssumption, PricesAssumption, FilledBounds
     DEF FullInv, WatchInv, MonitorInv, Positions, Roomy
<1>3. held.dir = side => held.qty + Lot <= MaxHeld
  BY DEF Signal
<1>4. held' = Applied(held, side, Filled(Lot), price) /\ held'.qty \in Nat
  BY SignalParts DEF FullInv, WatchInv
<1>5. PICK filled \in Nat \ {0} : filled = Filled(Lot) /\ filled <= Lot
  BY <1>2
<1>6. held'.qty <= MaxHeld
  <2>1. CASE held.qty = 0
    BY <1>2, <1>4, <1>5, <2>1, AppliedQty
  <2>2. CASE held.qty > 0 /\ held.dir = side
    BY <1>2, <1>3, <1>4, <1>5, <2>2, AppliedQty
  <2>3. CASE held.qty > 0 /\ held.dir # side /\ filled >= held.qty
    BY <1>2, <1>4, <1>5, <2>3, AppliedQty
  <2>4. CASE held.qty > 0 /\ held.dir # side /\ filled < held.qty
    BY <1>2, <1>4, <1>5, <2>4, AppliedQty
  <2> QED
    BY <1>2, <2>1, <2>2, <2>3, <2>4
<1>7. WatchedInFull'
  BY SignalParts DEF FullInv, WatchInv, WatchedInFull
<1> QED
  BY <1>1, <1>6, <1>7 DEF FullInv

LEMMA FullTick ==
  ASSUME Roomy, FullInv, NEW price \in Prices, Tick(price)
  PROVE  FullInv'
<1>1. WatchInv' /\ price \in Int
  BY WatchTick, PricesAssumption DEF FullInv
<1>2. Backed /\ Filled(Lot) = Lot
  BY TickParts DEF FullInv, WatchInv
<1>3. /\ held \in Positions /\ held.qty \in Nat /\ resting.qty \in Nat /\ row.remaining \in Int
      /\ row.dir \in Sides /\ held.qty <= MaxHeld /\ MaxHeld \in Nat /\ MaxSize \in Nat
      /\ row.open /\ row.plan # NoPlan
  BY <1>2, QuantitiesAssumption, TickParts DEF FullInv, WatchInv, MonitorInv, Positions, Sound, Rows
<1>4. held.qty > 0 /\ row.dir = held.dir
  BY <1>2, <1>3 DEF Backed
<1>5. resting.qty = 0 => row.remaining = held.qty
  BY <1>2, <1>3 DEF FullInv, WatchedInFull
<1>6. CASE UNCHANGED <<held, resting>> /\ row'.remaining = row.remaining
  BY <1>1, <1>3, <1>5, <1>6 DEF FullInv, WatchedInFull
<1>7. ASSUME NEW qty \in Nat \ {0}, qty <= row.remaining, ~GateAllows(held, resting, qty),
             UNCHANGED <<held, resting>>
      PROVE  FullInv'
  <2>1. resting.qty # 0
    BY <1>3, <1>5, <1>7 DEF GateAllows, Roomy
  <2> QED
    BY <1>1, <1>3, <1>7, <2>1 DEF FullInv, WatchedInFull
<1>8. ASSUME NEW qty \in Nat \ {0}, qty <= row.remaining, row'.remaining = row.remaining - qty,
             GateAllows(held, resting, qty),
             held' = Applied(held, Other(row.dir), Filled(qty), price),
             resting' = LeftOver(Other(row.dir), qty)
      PROVE  FullInv'
  <2>1. PICK side \in Sides : side = Other(row.dir) /\ side # held.dir
    BY <1>3, <1>4 DEF Other, Sides
  <2>2. PICK filled \in Nat \ {0} : filled = Filled(qty) /\ filled <= qty
    BY <1>8, FilledBounds
  <2>3. filled <= held.qty /\ row.remaining = held.qty
    BY <1>3, <1>5, <1>8, <2>2 DEF GateAllows
  <2>4. held'.qty = held.qty - filled
    <3>1. held' = Applied(held, side, filled, price)
      BY <1>8, <2>1, <2>2
    <3>2. CASE filled = held.qty
      BY <1>1, <1>3, <1>4, <2>1, <3>1, <3>2, AppliedQty
    <3>3. CASE filled < held.qty
      BY <1>1, <1>4, <1>3, <2>1, <3>1, <3>3, AppliedQty
    <3> QED
      BY <1>3, <2>3, <3>2, <3>3
  <2>5. resting'.qty = qty - filled
    BY <1>8, <2>1, <2>2, LeftOverQty
  <2>6. held'.qty <= MaxHeld /\ WatchedInFull'
    BY <1>3, <1>8, <2>2, <2>3, <2>4, <2>5 DEF WatchedInFull
  <2> QED
    BY <1>1, <2>6 DEF FullInv
<1> QED
  BY <1>6, <1>7, <1>8, TickParts DEF FullInv, WatchInv

LEMMA FullSquareOff ==
  ASSUME Roomy, FullInv, Filled(Lot) = Lot, NEW price \in Prices, SquareOff(price)
  PROVE  FullInv'
<1>1. WatchInv' /\ price \in Int /\ held.qty > 0 /\ Backed
  BY WatchSquareOff, PricesAssumption DEF FullInv, WatchInv, SquareOff
<1>2. /\ held.dir \in Sides /\ held.qty \in Nat \ {0} /\ resting.qty \in Nat
      /\ MaxSize \in Nat /\ MaxHeld \in Nat /\ held.qty <= MaxHeld
  BY <1>1, QuantitiesAssumption DEF FullInv, WatchInv, MonitorInv, Positions
<1>3. PICK completed \in Positions : completed = Recorded(price).held
  BY SquareOffParts DEF FullInv, WatchInv
<1>4. /\ completed.qty = IF resting.qty >= held.qty THEN 0 ELSE held.qty - resting.qty
      /\ completed.qty > 0 => completed.dir = held.dir
      /\ completed.qty \in Nat
  <2>1. completed.qty \in Nat
    BY DEF Positions
  <2> QED
    BY <1>1, <1>3, <2>1, Completing DEF FullInv, WatchInv
<1>5. GateAllows(completed, Settled, held.qty)
  BY <1>2, <1>4 DEF GateAllows, Settled, Roomy
<1>6. PICK side \in Sides : side = Other(held.dir) /\ side # held.dir
  BY <1>2 DEF Other, Sides
<1>7. PICK filled \in Nat \ {0} : filled = Filled(held.qty) /\ filled <= held.qty
  BY <1>2, FilledBounds
<1>8. /\ held' = Applied(completed, side, filled, price)
      /\ resting' = LeftOver(side, held.qty)
      /\ row'.open <=> held'.qty > 0
      /\ row'.plan = IF completed.qty = 0 /\ held'.qty > 0 THEN NoPlan ELSE row.plan
  BY <1>3, <1>5, <1>6, <1>7, SquareOffParts DEF FullInv, WatchInv
<1>9. resting'.qty = held.qty - filled
  BY <1>2, <1>6, <1>7, <1>8, LeftOverQty
<1>10. CASE completed.qty = 0
  <2>1. held'.qty = filled
    BY <1>1, <1>3, <1>8, <1>10, AppliedQty
  <2> QED
    BY <1>1, <1>2, <1>7, <1>8, <1>10, <2>1 DEF FullInv, WatchedInFull
<1>11. CASE completed.qty > 0
  <2>1. held'.qty = IF filled >= completed.qty THEN 0 ELSE completed.qty - filled
    <3>1. CASE filled >= completed.qty
      BY <1>1, <1>4, <1>6, <1>8, <1>11, <3>1, AppliedQty
    <3>2. CASE filled < completed.qty
      BY <1>1, <1>4, <1>6, <1>8, <1>11, <3>2, AppliedQty
    <3> QED
      BY <1>4, <3>1, <3>2
  <2>2. resting'.qty = 0 => held'.qty = 0
    BY <1>2, <1>4, <1>7, <1>9, <2>1
  <2>3. held'.qty <= MaxHeld
    BY <1>2, <1>4, <1>7, <2>1
  <2> QED
    BY <1>1, <1>8, <2>2, <2>3 DEF FullInv, WatchedInFull
<1> QED
  BY <1>4, <1>10, <1>11

\* While no order is left working, what the monitor believes remains of a position with a plan
\* is what the broker holds, whatever was exited in thirds, rounded, refused or squared off
\* before.  The hypothesis is the room WatchedInFull speaks of: a full exit of the largest
\* position signals build up passes the size limit.
THEOREM WatchedInFullHolds ==
  ASSUME Roomy
  PROVE  Spec => []WatchedInFull
<1>1. Init => FullInv
  <2> SUFFICES ASSUME Init PROVE FullInv
    OBVIOUS
  <2>1. MonitorInv
    BY DEF Init, MonitorInv, Positions, Sides, Flat, Settled, Sound, Rows, PlanShapes, StageNames
  <2>2. row.plan = NoPlan /\ ~row.open /\ held.qty = 0 /\ resting.qty = 0
    BY DEF Init, Flat, Settled
  <2> QED
    BY <2>1, <2>2, QuantitiesAssumption DEF FullInv, WatchedInFull, WatchInv, Backed
<1>2. FullInv /\ [Next]_vars => FullInv'
  <2> SUFFICES ASSUME FullInv, [Next]_vars PROVE FullInv'
    OBVIOUS
  <2>1. WatchInv'
    <3>1. CASE Halt \/ Reset \/ UNCHANGED vars
      BY <3>1 DEF Halt, Reset, vars, FullInv, WatchInv, MonitorInv, Sound, Backed
    <3> QED
      BY <3>1, WatchSignal, WatchTick, WatchSquareOff DEF Next, Sides, FullInv
  <2>2. CASE Filled(Lot) # Lot
    BY <2>1, <2>2 DEF FullInv
  <2>3. CASE Filled(Lot) = Lot
    <3>1. CASE Halt \/ Reset \/ UNCHANGED vars
      BY <2>1, <3>1 DEF Halt, Reset, vars, FullInv, WatchedInFull
    <3> QED
      BY <2>3, <3>1, FullSignal, FullTick, FullSquareOff DEF Next, Sides
  <2> QED
    BY <2>2, <2>3
<1>3. FullInv => WatchedInFull
  BY DEF FullInv, WatchInv, WatchedInFull
<1> QED
  BY <1>1, <1>2, <1>3, PTL DEF Spec
-----------------------------------------------------------------------------
(* The stateful backtest.                                                  *)

\* A position of the simulator.
Account(p) ==
  /\ DOMAIN p = {"open", "dir", "qty", "price", "realized"}
  /\ p.open \in BOOLEAN /\ p.dir \in Sides /\ p.qty \in Nat /\ (p.open => p.qty > 0)

\* A managed position: something of it is left, and it was not stopped.
Alive(m) ==
  /\ DOMAIN m = {"dir", "plan", "stage", "remaining", "best"}
  /\ m.dir \in Sides /\ m.stage \in StageNames \ {"STOPPED"} /\ m.remaining \in Nat \ {0}

StatefulInv == Account(position) /\ (managed # None => Alive(managed)) /\ ManagedIsHeld

\* What a fill makes of a position: it opens, adds, or takes what it can of the other side.
LEMMA FillOpens ==
  ASSUME NEW p, Account(p), NEW side \in Sides, NEW qty \in Nat \ {0}, NEW price, ~p.open
  PROVE  LET after == AppliedToPosition(p, side, qty, price)
         IN Account(after) /\ after.open /\ after.dir = side /\ after.qty = qty
  BY DEF AppliedToPosition, Account

LEMMA FillAdds ==
  ASSUME NEW p, Account(p), NEW side \in Sides, NEW qty \in Nat \ {0}, NEW price,
         p.open, p.dir = side
  PROVE  LET after == AppliedToPosition(p, side, qty, price)
         IN Account(after) /\ after.open /\ after.dir = side /\ after.qty = p.qty + qty
<1> DEFINE average == (p.price * p.qty + price * qty) \div (p.qty + qty)
<1>1. AppliedToPosition(p, side, qty, price) = [p EXCEPT !.qty = p.qty + qty, !.price = average]
  BY DEF AppliedToPosition, Account
<1> HIDE DEF average
<1>2. PICK after : after = [p EXCEPT !.qty = p.qty + qty, !.price = average]
  OBVIOUS
<1>3. /\ DOMAIN after = DOMAIN p /\ after.open = p.open /\ after.dir = p.dir
      /\ after.qty = p.qty + qty
  BY <1>2 DEF Account
<1>4. p.qty + qty \in Nat /\ p.qty + qty > 0
  BY DEF Account
<1> QED
  BY <1>1, <1>2, <1>3, <1>4 DEF Account

LEMMA FillTakes ==
  ASSUME NEW p, Account(p), NEW side \in Sides, NEW qty \in Nat \ {0}, NEW price,
         p.open, p.dir # side
  PROVE  LET after == AppliedToPosition(p, side, qty, price)
         IN /\ Account(after) /\ after.dir = p.dir
            /\ after.open <=> qty < p.qty
            /\ after.open => after.qty = p.qty - qty
<1>1. p.qty \in Nat /\ p.qty > 0 /\ p.dir \in Sides
  BY DEF Account
<1>2. PICK closing \in Nat : closing = IF qty < p.qty THEN qty ELSE p.qty
  BY <1>1
<1>3. PICK left \in Nat \ {0} : left = IF closing < p.qty THEN p.qty - closing ELSE closing
  BY <1>1, <1>2
<1>4. PICK result : result = p.realized + Toward(p.dir) * (price - p.price) * closing
  OBVIOUS
<1>5. AppliedToPosition(p, side, qty, price)
        = [p EXCEPT !.open = closing < p.qty, !.qty = left, !.realized = result]
  BY <1>2, <1>3, <1>4 DEF AppliedToPosition
<1>6. PICK after : after = [p EXCEPT !.open = closing < p.qty, !.qty = left, !.realized = result]
  OBVIOUS
<1>7. DOMAIN after = DOMAIN p /\ after.dir = p.dir /\ after.qty = left
  BY <1>6 DEF Account
<1>8. after.open = (closing < p.qty)
  BY <1>6, Zenon DEF Account
<1>9. after.open \in BOOLEAN /\ (after.open <=> closing < p.qty)
  <2>1. CASE closing < p.qty
    <3>1. (closing < p.qty) = TRUE
      BY <2>1, Zenon
    <3>2. after.open = TRUE
      BY <1>8, <3>1, Zenon
    <3> QED
      BY <2>1, <3>2
  <2>2. CASE ~(closing < p.qty)
    <3>1. (closing < p.qty) = FALSE
      BY <2>2
    <3>2. after.open = FALSE
      BY <1>8, <3>1, Zenon
    <3> QED
      BY <2>2, <3>2
  <2> QED
    BY <2>1, <2>2
<1> QED
  BY <1>1, <1>2, <1>3, <1>5, <1>6, <1>7, <1>9 DEF Account

\* The simulator fills an order or leaves everything as it is; a sale it always fills.
LEMMA FilledOrNot ==
  ASSUME NEW side, NEW qty, NEW price, RecordOrderFill(side, qty, price)
  PROVE  \/ position' = AppliedToPosition(position, side, qty, price)
         \/ side = "BUY" /\ position' = position
  BY DEF RecordOrderFill, Fills, sim

\* What an exit leaves: as much as it did not take, in a later stage.
LEMMA ExitLeaves ==
  ASSUME NEW m, Alive(m), NEW close, NEW final \in BOOLEAN, ExitOf(m, close, final).qty # 0
  PROVE  LET exit == ExitOf(m, close, final)
         IN /\ exit.qty \in 1..m.remaining
            /\ exit.qty < m.remaining => exit.stage \in StageNames \ {"OPEN", "STOPPED"}
<1>1. NoExit.qty = 0
  BY DEF NoExit
<1>2. CASE Decision(m, close) = NoExit
  <2>1. ExitOf(m, close, final) = [qty |-> m.remaining, stage |-> "CLOSED"]
    BY <1>1, <1>2 DEF ExitOf
  <2>2. m.remaining \in 1..m.remaining /\ ~(m.remaining < m.remaining)
    BY DEF Alive
  <2>3. ExitOf(m, close, final).qty = m.remaining
    BY <2>1
  <2> QED
    BY <2>2, <2>3
<1>3. CASE Decision(m, close) # NoExit
  <2>1. ExitOf(m, close, final) = Decision(m, close)
    BY <1>3 DEF ExitOf
  <2>2. /\ Decision(m, close).stage \in StageNames
        /\ StageIndex(Decision(m, close).stage) > StageIndex(m.stage)
        /\ Decision(m, close).qty \in Int
        /\ Decision(m, close).stage = "STOPPED" => Decision(m, close).qty = m.remaining
    BY <1>3, DecisionGoesOn DEF Alive
  <2>3. Decision(m, close).qty <= m.remaining
    BY <1>3, DecisionWithin DEF Alive
  <2>4. Decision(m, close).stage # "OPEN"
    BY <2>2, StageOrder DEF Alive, StageNames
  <2>5. Decision(m, close).qty >= 0
    BY <1>3, DecisionWithin DEF Alive
  <2> QED
    BY <2>1, <2>2, <2>3, <2>4, <2>5 DEF Alive
<1> QED
  BY <1>2, <1>3

LEMMA StatefulEnter ==
  ASSUME StatefulInv, NEW signal, NEW plan, NEW open, NEW halt,
         EnterPosition(signal, plan, open, halt)
  PROVE  StatefulInv'
<1> DEFINE side == Direction(signal)
<1>1. side \in Sides /\ QuantityPerTrade \in Nat \ {0}
  BY StatefulConstants DEF Direction, Sides
<1>2. managed = None /\ (position.open => position.dir = "SELL") /\ Account(position)
  BY DEF EnterPosition, StatefulInv, ManagedIsHeld
<1>3. CASE Approved(QuantityPerTrade, open, FALSE, halt)
  <2>1. /\ RecordOrderFill(side, QuantityPerTrade, open)
        /\ IF position'.open THEN managed' = Managed(position', plan)
           ELSE managed' = None
    BY <1>2, <1>3 DEF EnterPosition
  <2>2. Account(position')
    <3>1. CASE position' = position
      BY <1>2, <3>1
    <3>2. CASE position' = AppliedToPosition(position, side, QuantityPerTrade, open)
      <4>1. PICK p : p = position
        OBVIOUS
      <4>2. Account(AppliedToPosition(p, side, QuantityPerTrade, open))
        BY <1>1, <1>2, <4>1, FillOpens, FillAdds, FillTakes
      <4>3. PICK q : q = position'
        OBVIOUS
      <4>4. Account(q)
        BY <3>2, <4>1, <4>2, <4>3
      <4> QED
        BY <4>3, <4>4 DEF Account
    <3> QED
      BY <2>1, <3>1, <3>2, FilledOrNot
  <2>3. CASE position'.open
    <3>1. managed' = [dir |-> position'.dir, plan |-> plan, stage |-> "OPEN",
                      remaining |-> position'.qty, best |-> position'.price]
      BY <2>1, <2>3 DEF Managed
    <3> QED
      BY <2>2, <2>3, <3>1 DEF StatefulInv, ManagedIsHeld, Account, Alive, StageNames, None, Sides
  <2>4. CASE ~position'.open
    BY <2>1, <2>2, <2>4 DEF StatefulInv, ManagedIsHeld
  <2> QED
    BY <2>3, <2>4
<1>4. CASE ~Approved(QuantityPerTrade, open, FALSE, halt)
  <2>1. UNCHANGED <<position, managed>>
    BY <1>4 DEF EnterPosition, sim
  <2> QED
    BY <2>1 DEF StatefulInv, ManagedIsHeld, Account, Alive
<1> QED
  BY <1>3, <1>4

LEMMA StatefulManage ==
  ASSUME StatefulInv, NEW close, NEW halt, NEW final \in BOOLEAN, Manage(close, halt, final)
  PROVE  StatefulInv'
<1>1. PICK m : m = [managed EXCEPT !.best = Better(managed.dir, managed.best, close)]
  OBVIOUS
<1>2. PICK exit : exit = ExitOf(m, close, final)
  OBVIOUS
<1>3. PICK p : p = position
  OBVIOUS
<1>4. managed # None /\ Alive(managed) /\ Account(p)
  BY <1>3 DEF Manage, StatefulInv
<1>5. Alive(m) /\ m.dir = managed.dir /\ m.stage = managed.stage /\ m.remaining = managed.remaining
  BY <1>1, <1>4 DEF Alive
<1>6. /\ p.open /\ p.dir = m.dir /\ m.remaining \in 1..p.qty
      /\ m.dir = "BUY" \/ m.stage = "OPEN" => m.remaining = p.qty
  BY <1>3, <1>4, <1>5 DEF StatefulInv, ManagedIsHeld
<1>7. m # None
  BY <1>5 DEF Alive, None, Sides
<1>8. CASE managed' = m /\ position' = p
  BY <1>3, <1>4, <1>5, <1>6, <1>7, <1>8 DEF StatefulInv, ManagedIsHeld, Account, Alive
<1>9. CASE exit.qty # 0 /\ Approved(exit.qty, close, TRUE, halt)
  <2>1. PICK left : left = [m EXCEPT !.remaining = m.remaining - exit.qty, !.stage = exit.stage]
    OBVIOUS
  <2>2. /\ RecordOrderFill(Other(m.dir), exit.qty, close)
        /\ managed' = IF left.remaining > 0 THEN left ELSE None
    BY <1>1, <1>2, <1>9, <2>1 DEF Manage, Exited
  <2>3. /\ exit.qty \in 1..m.remaining
        /\ exit.qty < m.remaining => exit.stage \in StageNames \ {"OPEN", "STOPPED"}
    BY <1>2, <1>5, <1>9, ExitLeaves
  <2>4. /\ left.remaining = m.remaining - exit.qty /\ left.stage = exit.stage
        /\ left.dir = m.dir /\ DOMAIN left = DOMAIN m
    BY <1>5, <2>1 DEF Alive
  <2>5. m.remaining \in Nat /\ p.qty \in Nat /\ m.dir \in Sides
    BY <1>4, <1>5 DEF Account, Alive
  <2>6. left.remaining > 0 => Alive(left) /\ left # None /\ left.stage # "OPEN"
    BY <1>5, <2>3, <2>4, <2>5 DEF Alive, None, Sides
  <2>7. PICK q : q = position'
    OBVIOUS
  <2>8. /\ Account(q) /\ (q.open => q.dir = m.dir)
        /\ left.remaining > 0 => q.open /\ left.remaining <= q.qty
        /\ m.dir = "BUY" => (q.open <=> left.remaining > 0) /\ (q.open => q.qty = left.remaining)
    <3>1. Other(m.dir) \in Sides /\ Other(m.dir) # m.dir /\ exit.qty \in Nat \ {0}
      BY <2>3, <2>5 DEF Other, Sides
    <3>2. CASE q = AppliedToPosition(p, Other(m.dir), exit.qty, close)
      <4>1. /\ Account(q) /\ q.dir = p.dir
            /\ q.open <=> exit.qty < p.qty
            /\ q.open => q.qty = p.qty - exit.qty
        BY <1>4, <1>6, <3>1, <3>2, FillTakes
      <4> QED
        BY <1>6, <2>3, <2>4, <2>5, <4>1
    <3>3. CASE Other(m.dir) = "BUY" /\ q = p
      <4>1. m.dir # "BUY"
        BY <3>1, <3>3
      <4> QED
        BY <1>4, <1>6, <2>3, <2>4, <2>5, <3>3, <4>1
    <3> QED
      BY <1>3, <2>2, <2>7, <3>2, <3>3, FilledOrNot
  <2>9. CASE left.remaining > 0
    BY <2>2, <2>4, <2>5, <2>6, <2>7, <2>8, <2>9 DEF StatefulInv, ManagedIsHeld, Account, Alive
  <2>10. CASE ~(left.remaining > 0)
    BY <2>2, <2>5, <2>7, <2>8, <2>10 DEF StatefulInv, ManagedIsHeld, Account, Sides
  <2> QED
    BY <2>9, <2>10
<1>10. CASE exit.qty = 0
  BY <1>1, <1>2, <1>3, <1>8, <1>10 DEF Manage, sim
<1>11. CASE exit.qty # 0 /\ ~Approved(exit.qty, close, TRUE, halt)
  <2>1. managed' = (IF m.remaining > 0 THEN m ELSE None) /\ UNCHANGED sim
    BY <1>1, <1>2, <1>11 DEF Manage, Exited
  <2> QED
    BY <1>3, <1>5, <1>8, <2>1 DEF Alive, sim
<1> QED
  BY <1>9, <1>10, <1>11

LEMMA StatefulInvariance == StatefulSpec => []StatefulInv
<1>1. StatefulInit => StatefulInv
  BY DEF StatefulInit, StatefulInv, ManagedIsHeld, NoPosition, Account, Sides
<1>2. StatefulInv /\ [StatefulNext]_statefulVars => StatefulInv'
  <2> SUFFICES ASSUME StatefulInv, [StatefulNext]_statefulVars PROVE StatefulInv'
    OBVIOUS
  <2>1. CASE UNCHANGED <<position, managed>>
    BY <2>1 DEF StatefulInv, ManagedIsHeld, Account, Alive
  <2>2. ASSUME NEW final \in BOOLEAN, Idle(final) PROVE StatefulInv'
    BY <2>1, <2>2 DEF Idle, sim
  <2>3. ASSUME NEW final \in BOOLEAN, NEW close \in Quotes, NEW halt \in BOOLEAN,
               Manage(close, halt, final)
        PROVE  StatefulInv'
    BY <2>3, StatefulManage
  <2>4. ASSUME NEW signal, NEW open \in Quotes, NEW halt \in BOOLEAN, NEW plan,
               EnterPosition(signal, plan, open, halt)
        PROVE  StatefulInv'
    BY <2>4, StatefulEnter
  <2>5. CASE UNCHANGED statefulVars
    BY <2>1, <2>5 DEF statefulVars, sim
  <2> QED
    BY <2>2, <2>3, <2>4, <2>5 DEF StatefulNext
<1> QED
  BY <1>1, <1>2, PTL DEF StatefulSpec

\* run_stateful_backtest never exits with more than its simulator holds, and what it loses
\* sight of is short, for any prices, plans, charges and limits.
THEOREM ManagedIsHeldHolds == StatefulSpec => []ManagedIsHeld
<1>1. StatefulInv => ManagedIsHeld
  BY DEF StatefulInv
<1> QED
  BY <1>1, StatefulInvariance, PTL
=============================================================================
