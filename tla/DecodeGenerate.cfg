\* One slot of six tokens on three pages of two and one prefix key: a
\* generation reserves two pages ahead, and its pages are recycled and shared.
CONSTANTS
  NumSlots = 1
  MaxPages = 3
  PageTokens = 2
  SlotTokenCapacity = 6
  Contiguous = FALSE
  MaxGeneration = 0
  Keys = {k1}
  NoKey = none
  Tokens = {a, b}
  Zero = zero
  Leftover = leftover
  ClearOnRecycle = TRUE
SPECIFICATION Spec
SYMMETRY TokenSymmetry
INVARIANTS
  TrackingAgrees
  PagesAheadClear
CHECK_DEADLOCK FALSE
