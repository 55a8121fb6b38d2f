\* Two ids for two kinds, two waits and a debug command, both kinds of turn.
CONSTANTS
  MinCapacity = 2
  LastId = 2
  Hash <- MCHash
  Waits = {w1, w2}
  Commands = {c1}
  NoCall = nocall
  Budgets = {1, 2}
SPECIFICATION LiveSpec
INVARIANTS
  TypeOK
  LookupExact
  LeasesProtect
PROPERTIES
  WaitsAnswered
  CloseEnds
CHECK_DEADLOCK FALSE
