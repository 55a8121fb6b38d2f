\* Two slots of two pages each, a pool of three pages and two keys: prefixes
\* shared by both slots, copy-on-write, exhaustion and eviction all happen.
CONSTANTS
  NumSlots = 2
  MaxPages = 3
  PageTokens = 2
  SlotTokenCapacity = 3
  Contiguous = FALSE
  MaxGeneration = 1
  Keys = {k1, k2}
  NoKey = none
SPECIFICATION CacheSpec
SYMMETRY KeySymmetry
INVARIANTS
  CacheTypeOK
  PagesAccounted
  ReservationsSettle
PROPERTIES
  ReadersUndisturbed
CHECK_DEADLOCK FALSE
