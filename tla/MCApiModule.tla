---------------------------- MODULE MCApiModule ----------------------------
(* A small module instance whose ids collide, and beside it every table that  *)
(* six colliding ids can reach, checked once against the set of live ids.     *)
EXTENDS ApiModule

MCHash == [i \in Ids |-> 1]

LargeHash == [i \in 1..6 |-> i \div 3]
Large == INSTANCE HandleTable WITH MinCapacity <- 2, LastId <- 6, Hash <- LargeHash

InsertInto(s) ==
  IF s.next > 6 THEN {}
  ELSE {[table |-> Large!Inserted(s.table, s.next), ids |-> s.ids \cup {s.next},
         next |-> s.next + 1]}
RemoveFrom(s) ==
  {[table |-> Large!Removed(s.table, i), ids |-> s.ids \ {i}, next |-> s.next] : i \in s.ids}

\* What n insertions and removals, in any order, can make of an empty table.
Reached[n \in 0..12] ==
  IF n = 0 THEN {[table |-> Large!NewTable, ids |-> {}, next |-> 1]}
  ELSE LET before == Reached[n - 1]
       IN  before \cup UNION {InsertInto(s) \cup RemoveFrom(s) : s \in before}

\* The operators agree with the set they represent (handle table of the code,
\* with its growth, its rehashes in place and its tombstones).
ASSUME TablesAreSets ==
  \A s \in Reached[12] :
    /\ {i \in 1..6 : Large!Found(s.table, i) # {}} = s.ids
    /\ s.table.live = Cardinality(s.ids)
    /\ s.table.slots # <<>> => \E p \in DOMAIN s.table.slots : s.table.slots[p] = Empty
=============================================================================
