SPECIFICATION ChainAuditSpec
CONSTANTS
  w1 = w1
  w2 = w2
  c1 = c1
  c2 = c2
  r1 = r1
  r2 = r2
  t1 = t1
  None = None
  daily = daily
  weekly = weekly
  Scopes = {daily, weekly}
  MaxAudits = 20
  Writers = {w1, w2}
  Notices = {1, 2}
  ContentIds = {c1, c2}
  ReportedIds <- OwnIds
  Ops = {"upsert", "nsmDetail", "doneSync", "sourceDeleted"}
  Drivers = {TRUE}
  MaxRetries = 2
  MaxOps = 4
  MaxFaults = 0
  MaxCrashes = 0
  Stamps = {t1}
  Reasons = {r1, r2}
CHECK_DEADLOCK FALSE
INVARIANTS
  CallsConsistent
  AuditsSound
PROPERTIES
  ChainSettles
