SPECIFICATION FairRecoverySpec
CONSTANTS
  a1 = a1
  Authors = {a1}
  Pages <- MixedPages
  LowLimit = 1
  Delay <- SmallDelay
  RecurrenceWindow = 1
  CircuitWindow = 5
  RestartLimit = 3
  CoolingBase = 1
  CoolingMax = 2
  MaxCycles = 2
INVARIANTS RestartsAreLimited PeopleComeFirst OneOutcomePerAuthor
PROPERTY FeedComesBack
CHECK_DEADLOCK FALSE
