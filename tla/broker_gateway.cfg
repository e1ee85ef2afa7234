SPECIFICATION GatewaySpec
CONSTANTS
  Orders = {o1, o2}
  Instruments = {i1}
  NoInstrument = NoInstrument
  Intents <- MixedIntents
  Prices = {120, 144}
  InitialCapital = 900
  RatioNum = 2
  RatioDen = 2
  QuantityQuantum = 4
  SlippagePercent = 5
  CostRate <- Rates
  RateUnit = 80
  Amendments <- QuantityAmendments
SYMMETRY OrderSymmetry
INVARIANT TickLeavesNothingExecutable
PROPERTIES LimitNeverWorse TerminalIsFinal
