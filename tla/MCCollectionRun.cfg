SPECIFICATION Spec
CONSTANTS
  c1 = c1
  r1 = r1
  r2 = r2
  d1 = d1
  d2 = d2
  NoRun = NoRun
  NoDevice = NoDevice
  Campaigns = {c1}
  Runs = {r1, r2}
  Devices = {d1, d2}
  RuleSets <- MCRuleSets
  ReportedProgress <- MCReportedProgress
  SecondsPerMinute = 2
  MaxCampaignVersion = 3
SYMMETRY RunSymmetry
INVARIANTS TypeOK CompletionMatchesRules
PROPERTY SnapshotIsolation
CHECK_DEADLOCK FALSE
