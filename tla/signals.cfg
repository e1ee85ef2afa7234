SPECIFICATION FairSpec
CONSTANTS
  Procs <- MCProcs
  Locked <- MCProcs
  Signals <- MCSignals
  Channels <- MCChannels
  Outcomes <- MCOutcomes
  Selected <- MCSelected
  MaxAttempts = 2
  MaxTicks = 3
  MaxFaults = 2
INVARIANTS OrderedOnce RowsAgree
PROPERTIES AnnouncedFirst TicksEnd
CHECK_DEADLOCK FALSE
