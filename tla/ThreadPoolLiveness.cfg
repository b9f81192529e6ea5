\* No cancellation and no failed allocation; the owner may close the queue or shut down.
CONSTANTS
  NumThreads = 2
  Clients = {c1, c2}
  Owner = main
  Work = {x1, x2}
  QueueSizes = {1, 2}
  OwnerCalls = {"shutdown", "close"}
  AllocMayFail = FALSE
  HandlerOutcomes = {TRUE, FALSE}
  NoThread = NoThread
  NoWork = NoWork
SPECIFICATION FairSpec
CHECK_DEADLOCK FALSE
PROPERTIES QueuedIsCompleted AddWorkReturns ShutdownWithBacklogEndsWorkers
