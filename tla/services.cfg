SPECIFICATION ServicesSpec
CONSTANTS
  a1 = a1
  a2 = a2
  p1 = p1
  p2 = p2
  p3 = p3
  s1 = s1
  s2 = s2
  h1 = h1
  h2 = h2
  w1 = w1
  j1 = j1
  j2 = j2
  Collectors = {a1, a2}
  Payloads = {p1, p2, p3}
  Bills = {1, 2}
  BillScopes <- TwoBills
  Shots = {1, 2}
  Schedulers = {s1, s2}
  ShotMax = 1
  ShotBatch = 1
  ShotRetries = 1
  ShotRequests = 3
  ShotFailures = 1
  Hooks = {h1, h2}
  Subs = {w1}
  Jobs = {j1, j2}
  DeliveryScopes <- Mailings
CHECK_DEADLOCK FALSE
INVARIANTS
  ServicesTypeOK
  FlushCovered
  BillsTended
  ScreenshotsCovered
  DeliveredTwiceForAReason
  RowsFollowReceivers
PROPERTIES
  CollectedTogether
  OutboxSpec
  ServicesSettle
