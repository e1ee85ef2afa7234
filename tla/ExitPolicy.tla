----------------------------- MODULE ExitPolicy -----------------------------
(***************************************************************************)
(* domain/position_exit: when a managed position leaves, and with how much *)
(* of it.  The position monitor and the stateful backtest both use it.  A  *)
(* managed position m has its direction dir, its plan (the rules the       *)
(* strategy gave, by name), its lifecycle stage, what remains of it and    *)
(* the best price seen.  Quantities count the smallest unit, 0.0001.  An   *)
(* operator named Bad... is a plausible mistake in the operator that       *)
(* follows it; nothing else uses it.                                       *)
(***************************************************************************)
EXTENDS Integers, FiniteSetsExt

\* The lifecycle_status values that are written, in the order has_passed compares.  It
\* does not rank STOPPED, with which nothing remains.
Stages == <<"OPEN", "TARGET_1", "TARGET_2", "TARGET_3", "STOPPED">>
StageIndex(stage) == CHOOSE k \in DOMAIN Stages : Stages[k] = stage

NoPlan == <<>>
Rules == {"STOP_LOSS", "TARGET_1", "TARGET_2", "TARGET_3", "TRAILING_STOP"}

Other(side) == IF side = "BUY" THEN "SELL" ELSE "BUY"
Toward(side) == IF side = "BUY" THEN 1 ELSE -1

\* Is price x at least as favourable as y?
AtLeast(side, x, y) == IF side = "BUY" THEN x >= y ELSE x <= y

\* highest_favorable_price, as every caller updates it before the decision.
Better(side, x, y) == IF AtLeast(side, x, y) THEN x ELSE y

\* A third of what remains, to the nearest 0.0001.
Partial(qty) == (qty + 1) \div 3

BadTargetsLeft(m) == {k \in 2..4 : Stages[k] \in DOMAIN m.plan /\ StageIndex(m.stage) <= k}

\* The targets of the plan that have not been passed; only the first of them can fire.
TargetsLeft(m) == {k \in 2..4 : Stages[k] \in DOMAIN m.plan /\ StageIndex(m.stage) < k}

StopHit(m, price) == "STOP_LOSS" \in DOMAIN m.plan /\ AtLeast(m.dir, m.plan.STOP_LOSS, price)
TargetHit(m, price) ==
  TargetsLeft(m) # {} /\ AtLeast(m.dir, price, m.plan[Stages[Min(TargetsLeft(m))]])
TrailHit(m, price) ==
  "TRAILING_STOP" \in DOMAIN m.plan /\
  AtLeast(m.dir, m.best - Toward(m.dir) * m.plan.TRAILING_STOP, price)

NoExit == [qty |-> 0, stage |-> "OPEN"]

\* evaluate_position_exit: the stop first, then the next target, the trailing stop last.
Decision(m, price) ==
  LET k == Min(TargetsLeft(m))
      all == [qty |-> m.remaining, stage |-> "STOPPED"]
  IN CASE StopHit(m, price) -> all
       [] ~StopHit(m, price) /\ TargetHit(m, price) ->
            [qty |-> IF k = 4 \/ Partial(m.remaining) >= m.remaining
                     THEN m.remaining ELSE Partial(m.remaining),
             stage |-> Stages[k]]
       [] ~StopHit(m, price) /\ ~TargetHit(m, price) /\ TrailHit(m, price) -> all
       [] OTHER -> NoExit
=============================================================================
