\* tpool_destroyEx with a backlog.
CONSTANTS
  NumThreads = 2
  Clients = {c1}
  Owner = main
  Work = {x1, x2}
  QueueSizes = {2}
  OwnerCalls = {"cleanup"}
  AllocMayFail = FALSE
  HandlerOutcomes = {TRUE, FALSE}
  NoThread = NoThread
  NoWork = NoWork
  InitMayFail = TRUE
  MaxRespawn = 1
SPECIFICATION LSpec
CHECK_DEADLOCK FALSE
INVARIANTS DestroyFreesTheQueue
