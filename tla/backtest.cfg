SPECIFICATION MCSpec
CONSTANTS
  x = x
  y = y
  Assignments <- MCAssignments
  Prices <- MCPrices
  Runs <- MCRuns
  Inputs <- MCInputs
  MaxHistory = 5
  Capital = 200000
  FixedQuantity = 0
  EquityPercent = 50
  LossLimit = 40000
  SizeLimit = 4
  InitialCapital = 60000
  CashPercent = 60
  SlippagePercent = 1
  CostPercent <- MCCosts
  MaxLoss = 20000
  MaxSize = 3
  Quotes <- MCQuotes
  Plans <- MCPlans
  MaxBars = 7
  StartingBalance = 30
  QuantityPerTrade = 9
  ChargePercent <- MCCharges
  MaxDailyLoss = 20
  MaxPosition = 18
  MaxExposure = 100
  MaxConcurrent = 2
INVARIANTS CurvesMatchFills PlanIsKept NoHindsight CapitalAccounted OnePositionEach ManagedIsHeld
CHECK_DEADLOCK FALSE
