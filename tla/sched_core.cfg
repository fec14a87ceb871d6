SPECIFICATION FairSpec
CONSTANTS
  j1 = j1
  j2 = j2
  j3 = j3
  j4 = j4
  a = a
  b = b
  key = key
  NoKey = NoKey
  NoJob = NoJob
  NoAlarm = NoAlarm
  Jobs = {j1, j2}
  Tenants = {a, b}
  TenantOf <- MCSplitTenantOf
  KeyOf <- MCNoKeys
  Deadline <- MCShortDeadline
  RetryMax <- MCMixedAttempts
  LeaseMs = 1
  ResultTtlMs = 0
  InFlightLimit = 2
  FairCapacityPerTenant = 2
  MaxQueueDepth = 1
  RetryDelayMs = 1
  AlarmSweepMs = 2
  IdleAlarmMs = 2
  MaxTime = 2
  MaxRestarts = 1
  MaxTenantCancels = 0
INVARIANTS
  NoQueuedJobForgotten
  OneRunAtATime
  AttemptsBounded
PROPERTIES
  ImplementsLifecycle
  AcceptedJobSettles
CHECK_DEADLOCK FALSE
