SPECIFICATION Spec
CONSTANTS
  h1 = h1
  processNewNotices = processNewNotices
  processPendingBills = processPendingBills
  Calls = {h1}
  PalTasks = {processNewNotices}
  NsmTasks = {processPendingBills}

CHECK_DEADLOCK FALSE
PROPERTIES
  BootstrapRunsEveryPhase
