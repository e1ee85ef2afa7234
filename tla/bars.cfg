SPECIFICATION BarSpec
CONSTANTS
  Duration = 2
  Lookback = 7
  CloseAt = 7
  MinimumObservations = 2
  MaxTime = 8
  LastQuote = 5
  MaxRows = 3
  MaxReads = 2
  Readouts <- MCReadouts
  Lags <- MCLags
INVARIANTS BarsMatchQuotes VolumeAccountedFor TrustedSeriesIsWhole
PROPERTIES NarrowedOnlyByARace
CHECK_DEADLOCK FALSE
