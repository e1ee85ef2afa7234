SPECIFICATION Spec
CONSTANTS
  Procs = {p1}
  Runners = {p1}
  Instruments = {i1}
  MaxHalts = 1
  MaxEodRuns = 0
  MaxPlans = 1
  HaltStaleness = 1
  EodStaleness = 1
  AttemptLimit = 1
  MaxSize = 2
  MaxExposure = 2
  MaxOpen = 1
  Failures = {}
  Done = Done
INVARIANT ClosesEveryPosition
