\* Decode work that shares a prompt beside bulk work held for fill and padded
\* to pairs, in a pool with every private page: the worker ends all of it, a
\* drain ends, and no dispatch exceeds width or budget.
CONSTANTS
  NumSlots = 2
  MaxPages = 4
  PageTokens = 2
  SlotTokenCapacity = 3
  Contiguous = FALSE
  MaxGeneration = 0
  Keys = {key1}
  NoKey = none
  Works = {d1, d2, s1, s2}
  NoWork = nowork
  d1 = d1
  d2 = d2
  d3 = d3
  s1 = s1
  s2 = s2
  key1 = key1
  Work <- LiveWork
  MaxQueueDepth = 2
  ResultCapacity = 3
  MaxSlots = 2
  TokenBudget = 3
  MultipleOf = 2
  FillFirst = TRUE
SPECIFICATION WorkerSpec
INVARIANTS
  DispatchWithinBudget
PROPERTIES
  AcceptedWorkEnds
  DrainEnds
CHECK_DEADLOCK FALSE
