SPECIFICATION Spec
CONSTANTS
  Procs = {p1, p2}
  Runners = {p1, p2}
  Instruments = {i1}
  MaxHalts = 1
  MaxEodRuns = 1
  MaxPlans = 1
  HaltStaleness = 1
  EodStaleness = 1
  AttemptLimit = 1
  MaxSize = 2
  MaxExposure = 2
  MaxOpen = 2
  Failures = {"mark", "order", "reconcile"}
  Done = Done
SYMMETRY ProcSymmetry
CONSTRAINT UnsavedBound
PROPERTIES OneAttemptAtATime CompletedMeansFlat HaltedStartsNothing
