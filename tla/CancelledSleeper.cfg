\* A worker is cancelled while it sleeps; nothing else goes wrong.
CONSTANTS
  NumThreads = 2
  Clients = {c1, c2}
  Owner = main
  Work = {x1, x2, x3}
  QueueSizes = {1, 2}
  OwnerCalls = {"cleanup"}
  AllocMayFail = FALSE
  HandlerOutcomes = {TRUE, FALSE}
  NoThread = NoThread
  NoWork = NoWork
SPECIFICATION Spec
CHECK_DEADLOCK FALSE
INVARIANTS NobodyLeavesWithTheLock
