SPECIFICATION Spec
CONSTANTS
  w1 = w1
  w2 = w2
  c1 = c1
  c2 = c2
  r1 = r1
  r2 = r2
  t1 = t1
  None = None
  Writers = {w1, w2}
  Notices = {1}
  ContentIds = {c1, c2}
  ReportedIds <- NsmThenPal
  Ops = {"upsert", "nsmDetail", "doneSync", "sourceDeleted", "genesis"}
  Drivers = {TRUE, FALSE}
  MaxRetries = 2
  MaxOps = 3
  MaxFaults = 1
  MaxCrashes = 1
  Stamps = {t1}
  Reasons = {r1}
CHECK_DEADLOCK FALSE
INVARIANTS
  TypeOK
  ChainLinked
  AppendsTakeTurns
PROPERTIES
  ReturnedIsRecorded
  History
