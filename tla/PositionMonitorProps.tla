------------------------ MODULE PositionMonitorProps ------------------------
(* What the position monitor promises.                                     *)
EXTENDS PositionMonitor

\* No row ever has more remaining than its quantity: ManagedPosition would raise, and with
\* it every later tick of the monitor, for every position.
NeverWedged == row.open /\ row.plan # NoPlan => row.remaining <= row.qty

\* While no order is left working and the size limit has room, what the monitor believes
\* is left of a position it has a plan for is what the broker holds: the whole position
\* is watched, and a position the monitor is done with is gone.
WatchedInFull == resting.qty = 0 /\ row.plan # NoPlan /\ row.open => row.remaining = held.qty

\* A tick only moves forward.  It takes a target at most once and none after the stop: an
\* exit moves the lifecycle strictly on.  And the trailing stop only tightens: the best price
\* seen moves with the position, never against it.
TicksGoForward ==
  [][(\E price \in Prices : Tick(price)) =>
       /\ row'.remaining # row.remaining => StageIndex(row'.stage) > StageIndex(row.stage)
       /\ AtLeast(row.dir, row'.best, row.best)]_vars

\* However the quantities were rounded, an engaged kill switch that stays engaged ends with
\* nothing held: an attempt may leave a fraction, a later one may even reverse it, but the
\* retries converge.
HaltConverges == halted ~> held.qty = 0 \/ ~halted
=============================================================================
