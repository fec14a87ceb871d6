SPECIFICATION ClientFairSpec
CONSTANTS
  j1 = j1
  j2 = j2
  k1 = k1
  NoKey = NoKey
  Jobs = {j1, j2}
  KeyOf <- OneKey
  RetryMax <- MCRetryMax
INVARIANT ResultIsTrue
PROPERTY ResultSettles
CHECK_DEADLOCK FALSE
