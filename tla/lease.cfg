SPECIFICATION FairSpec
CONSTANTS
  j1 = j1
  j2 = j2
  j3 = j3
  Jobs = {j1, j2, j3}
  Opaque = {j1}
  Max = 2
  PsMayFail = FALSE
CHECK_DEADLOCK FALSE
INVARIANTS
  TypeOK
  SlotsSound
  BrowsersOwned
PROPERTIES
  NoLeaseAfterShutdown
  WaitersServed
