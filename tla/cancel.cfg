SPECIFICATION FairSpec
CONSTANTS
  c1 = c1
  c2 = c2
  t1 = t1
  t2 = t2
  own = own
  sub = sub
  leafA = leafA
  own2 = own2
  slot0 = slot0
  NoStream = NoStream
  NotLoaded = NotLoaded
  Calls = {c1, c2}
  Tokens = {t1, t2}
  BareTokens = {t1}
  MirrorTokens = {t1}
  TimerTokens = {t2}
  ChildTokens = {t2}
  TokenOf <- MCTokenOf
  Streams = {own, sub, leafA, own2}
  CallOf <- MCCallOf
  Up <- MCUp
  Slots = {slot0}
  SlotOf <- MCSlotOf
  FreshCalls = {}
  MaxResets = 1
  MaxResends = 1
INVARIANTS
  CancelCoversTree
  NoStrayAbort
PROPERTIES
  CancelReachesListeners
  EndedCallsReleaseReaders
CHECK_DEADLOCK FALSE
