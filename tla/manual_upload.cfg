SPECIFICATION OperationsSpec
CONSTANTS
  r0 = r0
  r1 = r1
  r2 = r2
  t1 = t1
  c1 = c1
  c2 = c2
  x1 = x1
  x2 = x2
  h1 = h1
  h2 = h2
  Runs = {r0, r1, r2}
  Past = r0
  Chunks = 3
  MaxSecond = 1
  MirrorFaults = 1
  Requests = {t1}
  Clicks = {c1, c2}
  Texts = {x1, x2}
  Receivers = {h1, h2}
  AnnounceFaults = 1
CHECK_DEADLOCK FALSE
INVARIANTS
  ManualFailureReported
