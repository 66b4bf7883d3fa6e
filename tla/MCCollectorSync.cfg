SPECIFICATION SyncSpec
CONSTANTS
  c1 = c1
  r1 = r1
  r2 = r2
  self = self
  other = other
  a = a
  b = b
  NoRun = NoRun
  NoDevice = NoDevice
  NoCheckpoint = NoCheckpoint
  NoObservation = NoObservation
  NoControl = NoControl
  Campaigns = {c1}
  Runs = {r1}
  Devices = {self, other}
  Self = self
  Creators = {a, b}
  RuleSets <- CountRules
  ReportedProgress = {}
  SecondsPerMinute = 1
  MaxCampaignVersion = 1
  MaxFeedItems = 3
  MaxElapsed = 0
  MaxObservations = 2
  MaxLate = 2
  MayLose = TRUE
SYMMETRY CreatorSymmetry
INVARIANTS SyncTypeOK CheckpointConservation EvidenceBeforeRelease ServerCountsBehindCheckpoint
PROPERTY DeliversOnce
CHECK_DEADLOCK FALSE
