\* Two workers, one client and a backlog; the owner destroys with or without cleaning up.
CONSTANTS
  NumThreads = 2
  Clients = {c1}
  Owner = main
  Work = {x1, x2}
  QueueSizes = {2}
  OwnerCalls = {"cleanup"}
  AllocMayFail = FALSE
  HandlerOutcomes = {TRUE, FALSE}
  NoThread = NoThread
  NoWork = NoWork
  InitMayFail = TRUE
  MaxRespawn = 1
SPECIFICATION LFairSpec
CHECK_DEADLOCK FALSE
PROPERTIES WalkIsUndisturbed CleanupReturns
