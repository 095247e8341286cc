SPECIFICATION SyncSpec
CONSTANTS
  h1 = h1
  processNewNotices = processNewNotices
  processPendingBills = processPendingBills
  Calls = {h1}
  PalTasks = {processNewNotices}
  NsmTasks = {processPendingBills}
  Archived = {1, 2}
  IntegrityScopes <- Snapshots
CHECK_DEADLOCK FALSE
INVARIANTS
  SyncTypeOK
  PhasesExclude
  VerdictsHonest
PROPERTIES
  SyncSettles
