SPECIFICATION Spec
CONSTANTS
  AgingQuantum = 1
  PriorityMax = 1
  EffectiveMax = 3
  NoRequest = 0
  NoContext = none
  cx = cx
  cy = cy
  cz = cz
  k = k
  l = l
  Contexts = {cx}
  Requests = {1, 2}
  Specs <- LiveSpecs
  MaxRequests = 2
  MaxInputBytes = 4
  MaxResults = 2
  MinBatch = 2
  MaxBatch = 2
  MultipleOf = 1
  callback = callback
  Closers = {k, l}
  Callback = none
  MaxTime = 1
CHECK_DEADLOCK FALSE
PROPERTIES
  FirstCauseDecides
  AcceptedEnds
  CloseEnds
