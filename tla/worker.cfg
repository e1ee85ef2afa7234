SPECIFICATION FairSpec
CONSTANTS
  MaxAttempts = 2
  Batch = 2
  Strategies = 2
  MaxRuns = 2
  MaxEdits = 1
  MaxLife = 2
  Faults <- MCFaults
INVARIANTS StopIsRecorded CompletedMeansClean
PROPERTIES NothingTrustedAfterLoss StopHonoured RetriesEnd
