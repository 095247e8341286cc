SPECIFICATION FairSpec
CONSTANTS
  Notices = {1, 2}
  Scopes <- TwoOrShared
CHECK_DEADLOCK FALSE
INVARIANTS
  TypeOK
  OnceForAReason
  DurableFirst
PROPERTIES
  WritesOnlyLoseByOverlap
  ListedIsSettled
