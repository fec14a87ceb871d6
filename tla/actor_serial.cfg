SPECIFICATION Spec
CONSTANTS
  A = A
  B = B
  a1 = a1
  a2 = a2
  b1 = b1
  Handles = {A, B}
  Submits = {a1, a2, b1}
  HandleOf <- MCHandleOf
  Retries <- MCRetries
  Timed = {}
  Orderly = {A}
  MaxCloses = 0
  MaxCrashes = 0
  MaxCuts = 0
  MaxEvents = 0
INVARIANT
  SubmitsAreSerialized
CHECK_DEADLOCK FALSE
