SPECIFICATION Spec
CONSTANTS
  m1 = m1
  m2 = m2
  m3 = m3
  c1 = c1
  r1 = r1
  q1 = q1
  q2 = q2
  w1 = w1
  w2 = w2
  NoCreator = NoCreator
  NoMedia = NoMedia
  Creators = {c1}
  Runs = {r1}
  Media = {m1}
  Requests = {q1}
  Workers = {w1, w2}
  SignedTTL = 1
  PendingTTL = 2
  Grace = 2
  Retention = 3
  BatchSize = 1
  OrphanCleanupEnabled = TRUE
  Undeletable = {}
  MaxClock = 4
CHECK_DEADLOCK FALSE
SYMMETRY MediaSymmetry
INVARIANTS TypeOK ConfirmedHasObject DeletedIsGone EvidenceSurvivesGrace
PROPERTIES ActiveEvidenceIsKept OnlyNewCandidatesAtRisk
