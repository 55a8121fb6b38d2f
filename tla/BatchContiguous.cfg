\* A contiguous cache whose only slot publishes its own page as a prefix.
CONSTANTS
  NumSlots = 1
  MaxPages = 2
  PageTokens = 2
  SlotTokenCapacity = 3
  Contiguous = TRUE
  MaxGeneration = 0
  Keys = {key1}
  NoKey = none
  Works = {d1, d2}
  NoWork = nowork
  d1 = d1
  d2 = d2
  d3 = d3
  s1 = s1
  s2 = s2
  key1 = key1
  Work <- PrefixWork
  MaxQueueDepth = 2
  ResultCapacity = 4
  MaxSlots = 1
  TokenBudget = 2
  MultipleOf = 1
  FillFirst = FALSE
SPECIFICATION WorkerSpec
PROPERTIES
  AcceptedWorkEnds
CHECK_DEADLOCK FALSE
