SPECIFICATION Spec
CONSTANTS
  w1 = w1
  w2 = w2
  c1 = c1
  c2 = c2
  r1 = r1
  r2 = r2
  t1 = t1
  None = None
  Writers = {w1}
  Notices = {1}
  ContentIds = {c1, c2}
  ReportedIds <- NsmThenPal
  Ops = {"upsert", "nsmDetail", "sourceDeleted"}
  Drivers = {TRUE}
  MaxRetries = 2
  MaxOps = 3
  MaxFaults = 0
  MaxCrashes = 0
  Stamps = {t1}
  Reasons = {r1}
CHECK_DEADLOCK FALSE
INVARIANTS
  AuditClean
