SPECIFICATION PoolFairSpec
CONSTANTS
  Size = 3
  Concurrencies = {0, 2}
  Strategies = {"throw", "throw-fast", "null", "skip", "settled"}
  Calls <- MCCalls
  Cap = 2
  Retries <- MCRetries
  Timed = {1, 3}
  Dated = {2}
  Hanging = {3}
INVARIANTS
  PermitsConserved
  OneTaskPerCall
  EachItemOnce
  ResultIsFaithful
PROPERTIES
  QueuedTasksRun
  MapSettles
CHECK_DEADLOCK FALSE
