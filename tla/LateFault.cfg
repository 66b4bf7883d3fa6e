SPECIFICATION RecoverySpec
CONSTANTS
  a1 = a1
  Authors = {a1}
  Pages <- MixedPages
  LowLimit = 0
  Delay <- SmallDelay
  RecurrenceWindow = 1
  CircuitWindow = 5
  RestartLimit = 3
  CoolingBase = 1
  CoolingMax = 2
  MaxCycles = 2
INVARIANT FaultsAreNotPaused
CHECK_DEADLOCK FALSE
