SPECIFICATION Spec
CONSTANTS
  Orders = {o1, o2, o3}
  Instruments = {i1}
  NoInstrument = NoInstrument
  Intents <- LotIntents
  Prices = {3600, 7200}
  InitialCapital = 14570
  RatioNum = 1
  RatioDen = 2
  QuantityQuantum = 1
  SlippagePercent = 0
  CostRate <- Rates
  RateUnit = 80
  Amendments <- NoAmendments
SYMMETRY OrderSymmetry
INVARIANTS Solvent OrdersAddUp FillsExplainAll CashExplainedByPnl

