----------------------------- MODULE HandleTable -----------------------------
(* The open-addressing table that maps one kind of public handle to engine    *)
(* objects (vx_api_handles.c: VxApiTable). A table keeps, for each slot, the  *)
(* id issued, Empty, or a Tombstone left by a removal; live counts the ids    *)
(* and occupied the ids and tombstones since the last rehash. The hash is a   *)
(* constant: its mixing is abstracted, its collisions are not.                *)
EXTENDS Integers, Sequences, SequencesExt, FiniteSetsExt

CONSTANTS MinCapacity,  \* VX_API_MIN_CAPACITY
          LastId,       \* INT64_MAX, the end of the positive namespace
          Hash          \* [1..LastId -> Nat]

ASSUME MinCapacityAssumption == MinCapacity \in {2, 4, 8, 16}
ASSUME HashAssumption == LastId \in Nat \ {0} /\ Hash \in [1..LastId -> Nat]

Ids == 1..LastId
Empty == 0
Tombstone == -1

NewTable == [slots |-> <<>>, live |-> 0, occupied |-> 0]

\* The slot that the d-th step of a probe for id looks at.
SlotFor(slots, id, d) == ((Hash[id] + d) % Len(slots)) + 1

\* Where an insertion's probe stops: the first slot that holds no live id.
FreeSlot(slots, id) ==
  SlotFor(slots, id,
          Min({d \in 0..(Len(slots) - 1) : slots[SlotFor(slots, id, d)] <= 0}))

\* Where a lookup's probe stops with success: it passes over other ids and
\* tombstones and gives up at the first Empty slot.
Found(table, id) ==
  {p \in DOMAIN table.slots :
     /\ table.slots[p] = id
     /\ \E d \in 0..(Len(table.slots) - 1) :
          /\ p = SlotFor(table.slots, id, d)
          /\ \A e \in 0..(d - 1) :
               table.slots[SlotFor(table.slots, id, e)] \notin {Empty, id}}

\* Reinserts the live ids, in slot order, into a table of this capacity; the
\* tombstones are gone.
Place(slots, id) ==
  IF id <= 0 THEN slots ELSE [slots EXCEPT ![FreeSlot(slots, id)] = id]
Vacant(capacity) == [p \in 1..capacity |-> Empty]
Rehash(table, capacity) ==
  [slots |-> FoldLeft(Place, Vacant(capacity), table.slots),
   live |-> table.live,
   occupied |-> table.live]

NeedsRehash(table) ==
  \/ table.slots = <<>>
  \/ (table.occupied + 1) * 2 > Len(table.slots)

\* Doubles the capacity until the live ids and one more fill at most half of
\* it, which takes no more steps than there are ids; tombstones alone cause a
\* rehash in place.
Doubled(live, capacity) ==
  IF (live + 1) * 2 > capacity THEN capacity * 2 ELSE capacity
TargetCapacity(table) ==
  FoldLeft(LAMBDA capacity, i : Doubled(table.live, capacity),
           IF table.slots = <<>> THEN MinCapacity ELSE Len(table.slots),
           [i \in 1..(table.live + 1) |-> i])

Grown(table) ==
  IF NeedsRehash(table) THEN Rehash(table, TargetCapacity(table)) ELSE table

Inserted(table, id) ==
  LET grown == Grown(table)
      slot == FreeSlot(grown.slots, id)
  IN  [slots |-> [grown.slots EXCEPT ![slot] = id],
       live |-> grown.live + 1,
       occupied |-> grown.occupied + (IF grown.slots[slot] = Empty THEN 1 ELSE 0)]

Removed(table, id) ==
  [slots |-> [p \in DOMAIN table.slots |->
                IF p \in Found(table, id) THEN Tombstone ELSE table.slots[p]],
   live |-> table.live - 1,
   occupied |-> table.occupied]
=============================================================================
