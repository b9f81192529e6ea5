\* Two workers, two clients, queues of one and two places, every call and every failure.
CONSTANTS
  NumThreads = 2
  Clients = {c1, c2}
  Owner = main
  Work = {x1, x2, x3}
  QueueSizes = {1, 2}
  OwnerCalls = {"cleanup", "shutdown", "close"}
  AllocMayFail = TRUE
  HandlerOutcomes = {TRUE, FALSE}
  NoThread = NoThread
  NoWork = NoWork
SPECIFICATION Spec
SYMMETRY Symmetry
CHECK_DEADLOCK FALSE
INVARIANTS QueueMatchesSize NoLostWakeup WorkingCount LossIsTold CleanedUpMeansDead
PROPERTIES VouchedIsNotRefused ImplementsWorkQueue
