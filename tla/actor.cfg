SPECIFICATION Spec
CONSTANTS
  A = A
  B = B
  a1 = a1
  a2 = a2
  b1 = b1
  Handles = {A, B}
  Submits = {a1, a2, b1}
  HandleOf <- MCHandleOf
  Retries <- MCRetries
  Timed = {a1}
  Orderly = {A}
  MaxCloses = 1
  MaxCrashes = 1
  MaxCuts = 1
  MaxEvents = 2
INVARIANTS
  UpdatesLostOnlyToOverlap
  ClosedStateStaysClosed
  ClosingHandleRestarts
  AnswersAreTrue
  FlagFollowsSeed
CHECK_DEADLOCK FALSE
