SPECIFICATION FairSpec
INVARIANT NeverWedged
INVARIANT WatchedInFull
PROPERTY TicksGoForward
PROPERTY HaltConverges
CONSTANTS
  Prices <- Market
  EntryPrices <- Entries
  Lot = 100000
  MaxHeld = 200000
  MaxSize = 400000
  Quantum = 100
