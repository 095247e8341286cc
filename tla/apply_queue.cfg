SPECIFICATION FairSpec
CONSTANTS
  s1 = s1
  s2 = s2
  Slots = {s1, s2}
  Count = 2
  Scans <- FirstAndRetry
  Archives <- TwoAndOne
  BatchSize <- TwoOrOne
  PageUnit = 1
  MaxRetries = 1
  MaxTimers = 1
  MaxStagings = 1
  MaxFailures = 1
CHECK_DEADLOCK FALSE
INVARIANTS
  TypeOK
  QueueTended
PROPERTIES
  FullSyncTasksApplied
  QueueDrains
