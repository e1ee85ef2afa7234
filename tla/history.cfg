SPECIFICATION Spec
CONSTANTS
  Runs <- MCRuns
  Backtests <- MCBacktests
  Plan <- MCPlan
  Expected <- MCExpected
  MaxFaults <- MCFaults
INVARIANTS ClaimsAreBacked NeverLeftBehind
PROPERTIES RealIsKept
CHECK_DEADLOCK FALSE
