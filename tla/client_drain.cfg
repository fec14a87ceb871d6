SPECIFICATION ClientFairSpec
CONSTANTS
  j1 = j1
  j2 = j2
  k1 = k1
  NoKey = NoKey
  Jobs = {j1}
  KeyOf <- NoKeys
  RetryMax <- MCRetryMax
PROPERTY DrainReturns
CHECK_DEADLOCK FALSE
