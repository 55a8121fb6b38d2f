\* Prefix sharing, chunked prompts, admission stalls and eviction in a pool of
\* three pages, bulk work that waits for company until it is old, with every
\* cancel and close.
CONSTANTS
  NumSlots = 2
  MaxPages = 3
  PageTokens = 1
  SlotTokenCapacity = 4
  Contiguous = FALSE
  MaxGeneration = 1
  Keys = {key1}
  NoKey = none
  Works = {d1, d2, d3, s1}
  NoWork = nowork
  d1 = d1
  d2 = d2
  d3 = d3
  s1 = s1
  key1 = key1
  Work <- MixedWork
  MaxQueueDepth = 2
  ResultCapacity = 4
  MaxSlots = 2
  TokenBudget = 2
  MultipleOf = 1
  FillFirst = TRUE
SPECIFICATION Spec
SYMMETRY PromptSymmetry
INVARIANTS
  TypeOK
  SlotsFollowWork
  InFlightIntact
  WorkAccounted
  RoundsAreClosed
PROPERTIES
  RetiredWithResult
  NoOvertaking
CHECK_DEADLOCK FALSE
