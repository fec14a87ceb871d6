SPECIFICATION Spec
CONSTANTS
  own = own
  posted = posted
  open = open
  Calls = {own, posted, open}
  OverHttp = {posted, open}
  Retries <- MCRetries
  Public = {open}
  MaxBytes = 2
  MaxChunk = 2
  Failures <- MCFailures
INVARIANTS
  CausesAreToldApart
  EventsMatchOutcomes
CHECK_DEADLOCK FALSE
