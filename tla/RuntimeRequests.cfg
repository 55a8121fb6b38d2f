SPECIFICATION Spec
CONSTANTS
  AgingQuantum = 1
  PriorityMax = 1
  EffectiveMax = 3
  NoRequest = 0
  NoContext = none
  cx = cx
  cy = cy
  cz = cz
  k = k
  l = l
  callback = callback
  Contexts = {cx, cy, cz}
  Requests = {1, 2, 3}
  Specs <- MixedSpecs
  MaxRequests = 2
  MaxInputBytes = 4
  MaxResults = 2
  MinBatch = 2
  MaxBatch = 2
  MultipleOf = 1
  Closers = {k, callback}
  Callback = callback
  MaxTime = 0
CHECK_DEADLOCK FALSE
INVARIANTS
  TypeOK
  BudgetExact
  RequestsAccounted
  ContextsFollow
  OneFramePerStream

