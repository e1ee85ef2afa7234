SPECIFICATION LiveSpec
CONSTANTS
  Procs = {p1, p2}
  Runners = {p1, p2}
  Reached = {p1}
  Instruments = {i1}
  MaxHalts = 1
  MaxEodRuns = 0
  MaxPlans = 0
  HaltStaleness = 1
  EodStaleness = 1
  AttemptLimit = 1
  MaxSize = 2
  MaxExposure = 2
  MaxOpen = 2
  Failures = {"mark", "order", "reconcile"}
  Done = Done
PROPERTIES HaltLeadsToFlat
