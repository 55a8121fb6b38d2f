\* Two slots of three tokens on three pages of two, one prefix key and two
\* tokens: sharing, copy-on-write, overload, eviction and erasure all happen.
CONSTANTS
  NumSlots = 2
  MaxPages = 3
  PageTokens = 2
  SlotTokenCapacity = 3
  Contiguous = FALSE
  MaxGeneration = 0
  Keys = {k1}
  NoKey = none
  Tokens = {a, b}
  Zero = zero
  Leftover = leftover
  ClearOnRecycle = TRUE
SPECIFICATION Spec
SYMMETRY TokenSymmetry
INVARIANTS
  TypeOK
  RowsFollowInputs
  TrackingAgrees
CHECK_DEADLOCK FALSE
