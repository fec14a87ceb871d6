SPECIFICATION FairSpec
CONSTANTS
  j1 = j1
  w1 = w1
  w2 = w2
  NoOne = NoOne
  NoJob = NoJob
  Jobs = {j1}
  Workers = {w1, w2}
  RetryMax <- MCRetryMax
  LeaseMs = 0
  InFlightLimit <- MCInFlightLimit
  MaxTime = 1
  MaxClaims = 3
  MaxFaults = 1
INVARIANTS
  LiveLeasesAreExclusive
  RetriesAreCharged
PROPERTIES
  ImplementsLifecycle
  
CHECK_DEADLOCK FALSE
