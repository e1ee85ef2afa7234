SPECIFICATION Spec
CONSTANTS
  Clients <- MCClients
  Days <- MCDays
  Decide <- MCDecide
  Speed = 1
  MaxPosition = 2
  MaxWrites = 6
  Operators <- MCClients
  Timeframes <- MCTimeframes
  Universes <- MCUniverses
  Strategies <- MCStrategies
  Alerts <- MCAlerts
  MaxVersion = 3
INVARIANTS SessionIsWhole NoLookAhead EvidenceOfReconcile
CHECK_DEADLOCK FALSE
