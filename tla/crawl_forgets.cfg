SPECIFICATION FairSpec
CONSTANTS
  Notices = {1, 2}
  Scopes <- TwoInPeace
CHECK_DEADLOCK FALSE
INVARIANTS
  NothingForgotten
