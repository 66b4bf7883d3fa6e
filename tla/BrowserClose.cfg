SPECIFICATION FairSyncSpec
CONSTANTS
  c1 = c1
  r1 = r1
  r2 = r2
  self = self
  other = other
  a = a
  b = b
  NoRun = NoRun
  NoDevice = NoDevice
  NoCheckpoint = NoCheckpoint
  NoObservation = NoObservation
  NoControl = NoControl
  Campaigns = {c1}
  Runs = {r1}
  Devices = {self, other}
  Self = self
  Creators = {a}
  RuleSets <- OneItemRules
  ReportedProgress = {}
  SecondsPerMinute = 1
  MaxCampaignVersion = 1
  MaxFeedItems = 1
  MaxElapsed = 0
  MaxObservations = 1
  MaxLate = 0
  MayLose = FALSE
PROPERTY BrowserClosePausesRun
CHECK_DEADLOCK FALSE
