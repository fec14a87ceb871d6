SPECIFICATION Spec
CONSTANTS
  j1 = j1
  j2 = j2
  j3 = j3
  j4 = j4
  a = a
  b = b
  key = key
  NoKey = NoKey
  NoJob = NoJob
  NoAlarm = NoAlarm
  Jobs = {j1, j2, j3, j4}
  Tenants = {a, b}
  TenantOf <- MCTenantOf
  KeyOf <- MCSharedKey
  Deadline <- MCLateDeadline
  RetryMax <- MCOneAttempt
  LeaseMs = 0
  ResultTtlMs = 0
  InFlightLimit = 2
  FairCapacityPerTenant = 1
  MaxQueueDepth = 4
  RetryDelayMs = 1
  AlarmSweepMs = 1
  IdleAlarmMs = 2
  MaxTime = 0
  MaxRestarts = 0
  MaxTenantCancels = 1
INVARIANTS
  QueueWellFormed
  LimitsRespected
PROPERTIES
  RotationIsFair
CHECK_DEADLOCK FALSE
