SPECIFICATION FairSpec
CONSTANTS
  m1 = m1
  m2 = m2
  m3 = m3
  c1 = c1
  r1 = r1
  q1 = q1
  q2 = q2
  w1 = w1
  w2 = w2
  NoCreator = NoCreator
  NoMedia = NoMedia
  Creators = {}
  Runs = {r1}
  Media = {m1, m2, m3}
  Requests = {q1}
  Workers = {w1}
  SignedTTL = 1
  PendingTTL = 2
  Grace = 4
  Retention = 4
  BatchSize = 2
  OrphanCleanupEnabled = FALSE
  Undeletable = {m1}
  MaxClock = 2
CHECK_DEADLOCK FALSE
PROPERTIES EveryGrantIsSettled
