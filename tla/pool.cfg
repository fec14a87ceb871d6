SPECIFICATION FairSpec
CONSTANTS
  stream = stream
  ordered = ordered
  narrow = narrow
  none = none
  never = never
  submit = submit
  pipe = pipe
  reduce = reduce
  scatter = scatter
  pmap = pmap
  map = map
  Calls = {stream, ordered, narrow, none, never, submit, pipe, reduce, scatter, pmap, map}
  Kind <- MCKind
  Size <- MCSize
  Width <- MCWidth
  Loads <- MCLoads
  Drainers = {d1, d2}
INVARIANTS
  InFlightIsExact
  PartsKeepOrder
  EachItemYieldedOnce
PROPERTIES
  DrainMeansIdle
  NobodyWaitsForEver
CHECK_DEADLOCK FALSE
