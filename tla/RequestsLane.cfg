SPECIFICATION Spec
CONSTANTS
  AgingQuantum = 1
  PriorityMax = 1
  EffectiveMax = 3
  NoRequest = 0
  NoContext = none
  cx = cx
  cy = cy
  cz = cz
  k = k
  l = l
  callback = callback
  Contexts = {cx, cy}
  Requests = {1, 2, 3}
  Specs <- LaneSpecs
  MaxRequests = 2
  MaxInputBytes = 4
  MaxResults = 2
  MinBatch = 2
  MaxBatch = 2
  MultipleOf = 1
  Closers = {k}
  Callback = none
  MaxTime = 0
CHECK_DEADLOCK FALSE
INVARIANT ContextsFollow
