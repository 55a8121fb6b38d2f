------------------------- MODULE DecodeCacheProofs --------------------------
(***************************************************************************)
(* Theorems about the decode cache of an execution context, for every      *)
(* pool, page size, number of slots and set of keys.  The inductive        *)
(* invariant is IInv: between calls the pages are Sound and agree with the *)
(* context's lengths and the host's prefixes (Lengths); every active row   *)
(* of a slot and every row of a published prefix shows the token it was    *)
(* computed from (Shows); a page mapped ahead of the tokens is cleared     *)
(* (AheadZero), and pages that wait to be cleared are in no use            *)
(* (ErasesUnused); while a run is open the pages it took are its own       *)
(* (TakenAlone) and its reservations end at the positions it is about to   *)
(* write (Reserving, for a step) or begin behind a token (Generating).     *)
(* What a run then needs of the pages comes from PagedKVCacheProofs, what  *)
(* its loops over the slots do from Folding.                               *)
(***************************************************************************)
EXTENDS DecodeCache, PagedKVCacheProofs, SequenceTheorems

-----------------------------------------------------------------------------
(* What a reservation leaves of a cache.                                   *)

(* d is c after slot s reserved n tokens: the pages taken were free and    *)
(* are its own, and a rollback would find the map that s had.              *)
Granted(c, d, s, n) ==
  /\ d.kv_length = c.kv_length /\ d.prefix = c.prefix
  /\ d.free \subseteq c.free
  /\ \A p \in Pages \ c.free : d.ref_count[p] = c.ref_count[p]
  /\ \A t \in Slots : t # s => /\ d.page_table[t] = c.page_table[t]
                               /\ d.reservation[t] = c.reservation[t]
  /\ Open(d, s) /\ d.reservation[s].tokens = n
  /\ \A l \in d.reservation[s].fresh : /\ d.page_table[s][l] \in c.free
                                       /\ d.page_table[s][l] \notin d.free
                                       /\ d.ref_count[d.page_table[s][l]] = 1
  /\ RestoredMap(d, s) = c.page_table[s]

(* vx_paged_kv_reserve grants what it says, and maps no page twice.        *)
LEMMA ReserveGrants ==
  ASSUME NEW c, Sound(c), NEW s \in Slots, NEW n \in Nat, ReserveOK(c, s, n)
  PROVE  /\ Granted(c, Reserve(c, s, n), s, n)
         /\ Reserve(c, s, n).reservation[s].prior = EmptyMap
<1> DEFINE wanted == Missing(c, s, n)
           r == Reserve(c, s, n)
           a == Allocate(c, s, wanted)
           taken == {Allocation(c, s, wanted)[l] : l \in wanted}
<1>1. /\ c \in CacheType /\ Counted(c) /\ SlotsBacked(c) /\ ReservationsExplained(c)
      /\ Distinct(c.page_table[s]) /\ Sound(r) /\ r \in CacheType
  BY ReserveSound DEF Sound, SlotsBacked, Backs
<1>2. wanted \in SUBSET Logical
  BY <1>1, MissingPages
<1>3. \A l \in wanted : c.page_table[s][l] = Unmapped
  BY DEF Missing
<1>4. CanAllocate(c, s, wanted)
  BY DEF ReserveOK
<1>5. /\ r.page_table = a.page_table /\ r.ref_count = a.ref_count /\ r.free = a.free
      /\ r.kv_length = c.kv_length /\ r.prefix = c.prefix
      /\ r.reservation = [c.reservation EXCEPT ![s] =
           [open |-> TRUE, tokens |-> n, fresh |-> wanted, prior |-> EmptyMap]]
  BY <1>1, ReserveFields
<1> HIDE DEF r, wanted
<1>6. a.free = c.free \ taken
  <2>1. ASSUME NEW W \in SUBSET Logical
        PROVE  Allocate(c, s, W).free = c.free \ {Allocation(c, s, W)[l] : l \in W}
    <3>1. c \in CacheType
      BY <1>1
    <3> QED
      BY <3>1, AllocateFields
  <2> QED
    BY <1>2, <2>1
<1>7. /\ taken \subseteq c.free
      /\ \A t \in Slots : t # s => a.page_table[t] = c.page_table[t]
      /\ \A l \in wanted : a.page_table[s][l] \in taken
      /\ \A l \in Logical \ wanted : a.page_table[s][l] = c.page_table[s][l]
      /\ \A p \in taken : a.ref_count[p] = 1
      /\ \A p \in Pages \ taken : a.ref_count[p] = c.ref_count[p]
  BY <1>1, <1>2, <1>4, AllocateEffect
<1> HIDE DEF a, taken
<1>8. /\ Open(r, s) /\ r.reservation[s].tokens = n /\ r.reservation[s].fresh = wanted
      /\ r.reservation[s].prior = EmptyMap
      /\ \A t \in Slots : t # s => r.reservation[t] = c.reservation[t]
  BY <1>1, <1>5 DEF Open, CacheType
<1>9. RestoredMap(r, s) = c.page_table[s]
  <2>1. c.page_table[s] \in [Logical -> Pages \cup {Unmapped}]
    BY <1>1, Typed DEF PageMap
  <2>2. \A l \in Logical : RestoredMap(r, s)[l] = c.page_table[s][l]
    BY <1>2, <1>3, <1>5, <1>7, <1>8 DEF RestoredMap, EmptyMap
  <2> QED
    BY <2>1, <2>2 DEF RestoredMap
<1>10. \A l \in r.reservation[s].fresh : /\ r.page_table[s][l] \in c.free
                                         /\ r.page_table[s][l] \notin r.free
                                         /\ r.ref_count[r.page_table[s][l]] = 1
  BY <1>5, <1>6, <1>7, <1>8
<1> QED
  BY <1>5, <1>6, <1>7, <1>8, <1>9, <1>10 DEF Granted, r

(* The page a position falls on is one of the slot's.                      *)
LEMMA PageOfPosition ==
  ASSUME NEW position \in 0 .. SlotTokenCapacity - 1
  PROVE  position \div PageTokens \in Logical
<1>1. position \in Nat /\ position < SlotTokenCapacity
  BY Sizes
<1> DEFINE l == position \div PageTokens
<1>2. l \in Nat /\ (l <= l <=> Start(l) <= position)
  BY <1>1, PageOfToken
<1>3. Start(l) \in Nat
  BY <1>2, Starts
<1>4. Start(l) < SlotTokenCapacity
  BY <1>1, <1>2, <1>3, Sizes
<1> QED
  BY <1>2, <1>4, Starts

(* What a private copy changes, as a relation of the caches: r before, a   *)
(* with the new page and d with its reservation.                           *)
CopyOf(r, a, d, s, l) ==
  /\ d.page_table = a.page_table /\ d.ref_count = a.ref_count /\ d.free = a.free
  /\ d.kv_length = r.kv_length /\ d.prefix = r.prefix
  /\ \A t \in Slots : t # s => d.reservation[t] = r.reservation[t]
  /\ d.reservation[s].open = r.reservation[s].open
  /\ d.reservation[s].tokens = r.reservation[s].tokens
  /\ d.reservation[s].fresh = r.reservation[s].fresh \cup {l}
  /\ d.reservation[s].prior = [r.reservation[s].prior EXCEPT ![l] = r.page_table[s][l]]

(* The copy of one page, in that form. *)
LEMMA CopyMade ==
  ASSUME NEW r \in CacheType, NEW s \in Slots, NEW l \in Logical
  PROVE  CopyOf(r, Allocate(r, s, {l}), CopyForWrite(r, s, l), s, l)
<1> DEFINE d == CopyForWrite(r, s, l)
           a == Allocate(r, s, {l})
<1>1. /\ d.page_table = a.page_table /\ d.ref_count = a.ref_count /\ d.free = a.free
      /\ d.kv_length = r.kv_length /\ d.slot_generation = r.slot_generation
      /\ d.slot_prefix = r.slot_prefix /\ d.prefix = r.prefix /\ d.older = r.older
      /\ d.reserved_pages = r.reserved_pages + 1
      /\ \A t \in Slots : t # s => d.reservation[t] = r.reservation[t]
      /\ d.reservation[s].open = r.reservation[s].open
      /\ d.reservation[s].tokens = r.reservation[s].tokens
      /\ d.reservation[s].fresh = r.reservation[s].fresh \cup {l}
      /\ d.reservation[s].prior = [r.reservation[s].prior EXCEPT ![l] = r.page_table[s][l]]
      /\ d.reservation \in [Slots -> Reservation]
  BY CopyFields
<1> HIDE DEF d, a
<1>2. CopyOf(r, a, d, s, l)
  BY <1>1 DEF CopyOf
<1> QED
  BY <1>2 DEF a, d

(* A private copy of a shared page grants the same: a rollback finds the   *)
(* shared page again, and the copy is the slot's alone.                    *)
LEMMA CopyGrants ==
  ASSUME NEW c, c.free \subseteq Pages, NEW r, NEW s \in Slots, NEW n \in Nat,
         NEW l \in Logical, Sound(r), Granted(c, r, s, n), r.reservation[s].prior = EmptyMap,
         r.page_table[s][l] # Unmapped, r.ref_count[r.page_table[s][l]] > 1,
         CanAllocate(r, s, {l})
  PROVE  LET d == CopyForWrite(r, s, l)
         IN  /\ Granted(c, d, s, n)
             /\ d.page_table[s][l] # Unmapped /\ d.ref_count[d.page_table[s][l]] = 1
<1> DEFINE d == CopyForWrite(r, s, l)
           a == Allocate(r, s, {l})
           page == Allocation(r, s, {l})[l]
<1>1. r \in CacheType
  BY DEF Sound
<1>2. Counted(r) /\ Distinct(r.page_table[s])
  BY DEF Sound, SlotsBacked, Backs
<1>3. OnePageAllocated(r, a, s, l, page)
  BY <1>1, <1>2, AllocateOne
<1>4. /\ d.page_table = a.page_table /\ d.ref_count = a.ref_count /\ d.free = a.free
      /\ d.kv_length = r.kv_length /\ d.prefix = r.prefix
      /\ \A t \in Slots : t # s => d.reservation[t] = r.reservation[t]
      /\ d.reservation[s].open = r.reservation[s].open
      /\ d.reservation[s].tokens = r.reservation[s].tokens
      /\ d.reservation[s].fresh = r.reservation[s].fresh \cup {l}
      /\ d.reservation[s].prior = [r.reservation[s].prior EXCEPT ![l] = r.page_table[s][l]]
  <2>1. CopyOf(r, a, d, s, l)
    BY <1>1, CopyMade
  <2> QED
    BY <2>1 DEF CopyOf
<1> HIDE DEF d, a, page
<1>5. /\ page \in r.free /\ page \in Pages
      /\ a.free = {p \in Pages : a.ref_count[p] = 0}
      /\ \A t \in Slots : t # s => a.page_table[t] = r.page_table[t]
      /\ a.page_table[s][l] = page
      /\ \A i \in Logical : i # l => a.page_table[s][i] = r.page_table[s][i]
      /\ a.ref_count[page] = 1
      /\ \A p \in Pages : p # page => a.ref_count[p] = r.ref_count[p]
  BY <1>1, <1>3, Typed DEF OnePageAllocated
<1>6. r.free = {p \in Pages : r.ref_count[p] = 0} /\ r.reservation[s].fresh \in SUBSET Logical
  BY <1>1, <1>2, Typed DEF Counted
<1>7. d.free \subseteq r.free /\ page \notin d.free
  BY <1>4, <1>5, <1>6
<1>8. l \notin r.reservation[s].fresh
  BY DEF Granted
<1>9. \A p \in Pages \ c.free : d.ref_count[p] = c.ref_count[p]
  BY <1>4, <1>5 DEF Granted
<1>10. \A i \in d.reservation[s].fresh : /\ d.page_table[s][i] \in c.free
                                         /\ d.page_table[s][i] \notin d.free
                                         /\ d.ref_count[d.page_table[s][i]] = 1
  <2> TAKE i \in d.reservation[s].fresh
  <2>1. CASE i = l
    BY <1>4, <1>5, <1>7, <2>1 DEF Granted
  <2>2. CASE i # l
    <3>1. i \in r.reservation[s].fresh /\ i \in Logical
      BY <1>4, <1>6, <2>2
    <3>2. /\ r.page_table[s][i] \in c.free /\ r.page_table[s][i] \notin r.free
          /\ r.ref_count[r.page_table[s][i]] = 1 /\ r.page_table[s][i] \in Pages
      BY <1>1, <3>1, Typed DEF Granted
    <3>3. d.page_table[s][i] = r.page_table[s][i] /\ r.page_table[s][i] # page
      BY <1>4, <1>5, <2>2, <3>1, <3>2
    <3> QED
      BY <1>4, <1>5, <1>7, <3>2, <3>3
  <2> QED
    BY <2>1, <2>2
<1>11. RestoredMap(d, s) = c.page_table[s]
  <2>1. \A i \in Logical : RestoredMap(d, s)[i] = RestoredMap(r, s)[i]
    <3> TAKE i \in Logical
    <3>1. CASE i = l
      BY <1>4, <1>8, <3>1 DEF RestoredMap, EmptyMap
    <3>2. CASE i # l
      BY <1>4, <1>5, <3>2 DEF RestoredMap, EmptyMap
    <3> QED
      BY <3>1, <3>2
  <2>2. RestoredMap(d, s) = RestoredMap(r, s)
    BY <2>1 DEF RestoredMap
  <2> QED
    BY <2>2 DEF Granted
<1>12. Granted(c, d, s, n)
  BY <1>4, <1>5, <1>7, <1>9, <1>10, <1>11 DEF Granted, Open
<1>13. d.page_table[s][l] # Unmapped /\ d.ref_count[d.page_table[s][l]] = 1
  BY <1>4, <1>5, Sizes
<1> QED
  BY <1>12, <1>13 DEF d

(* vx_paged_kv_reserve_write grants the same, and the page at the position *)
(* is the slot's alone, copied or not.                                     *)
LEMMA ReserveWriteGrants ==
  ASSUME NEW c, Sound(c), NEW s \in Slots, NEW n \in Nat,
         NEW position \in 0 .. SlotTokenCapacity - 1, ReserveWriteOK(c, s, n, position)
  PROVE  LET d == ReserveWrite(c, s, n, position)
             l == position \div PageTokens
         IN  /\ Granted(c, d, s, n)
             /\ d.page_table[s][l] # Unmapped /\ d.ref_count[d.page_table[s][l]] = 1
<1> DEFINE r == Reserve(c, s, n)
           l == position \div PageTokens
           d == ReserveWrite(c, s, n, position)
<1>1. /\ Sound(c) /\ Sound(r) /\ r \in CacheType /\ c \in CacheType
  BY ReserveSound DEF ReserveWriteOK, Sound
<1>2. Granted(c, r, s, n) /\ r.reservation[s].prior = EmptyMap
  BY ReserveGrants DEF ReserveWriteOK
<1>3. l \in Logical
  BY PageOfPosition
<1>4. r.page_table[s][l] # Unmapped
  BY DEF ReserveWriteOK, WriteSource
<1>5. PICK source \in Pages : source = r.page_table[s][l]
  BY <1>1, <1>3, <1>4, Typed DEF PageMap
<1>6. NeedsCopy(c, s, n, position) <=> r.ref_count[source] > 1
  BY <1>5 DEF NeedsCopy, WriteSource
<1>7. CASE ~NeedsCopy(c, s, n, position)
  <2>1. d = r
    BY <1>7 DEF ReserveWrite
  <2> HIDE DEF r, l, d
  <2>2. r.ref_count[source] # 0
    <3>1. s \in SlotsOn(r, source)
      BY <1>3, <1>5, InMap DEF SlotsOn
    <3> QED
      BY <1>1, <3>1, Unheld DEF Sound
  <2>3. r.ref_count[source] = 1
    <3>1. ~(r.ref_count[source] > 1)
      BY <1>6, <1>7
    <3>2. r \in CacheType
      BY <1>1
    <3>3. r.ref_count[source] \in Nat
      BY <3>2, Typed
    <3> QED
      BY <2>2, <3>1, <3>3
  <2>4. Granted(c, d, s, n) /\ d.page_table[s][l] # Unmapped
        /\ d.ref_count[d.page_table[s][l]] = 1
    BY <1>2, <1>4, <1>5, <2>1, <2>3
  <2> QED
    BY <2>4 DEF d, l
<1>8. CASE NeedsCopy(c, s, n, position)
  <2>1. d = CopyForWrite(r, s, l)
    BY <1>8 DEF ReserveWrite, CopyForWrite, WriteSource
  <2>2. CanAllocate(r, s, {l}) /\ r.ref_count[r.page_table[s][l]] > 1
    BY <1>8 DEF ReserveWriteOK, NeedsCopy, WriteSource
  <2> HIDE DEF r, l, d
  <2>4. c.free \subseteq Pages
    BY <1>1, Typed
  <2>3. Granted(c, d, s, n) /\ d.page_table[s][l] # Unmapped
        /\ d.ref_count[d.page_table[s][l]] = 1
    BY <2>4, <1>1, <1>2, <1>3, <1>4, <2>1, <2>2, CopyGrants
  <2> QED
    BY <2>3 DEF d, l
<1> QED
  BY <1>7, <1>8

-----------------------------------------------------------------------------
(* The folds over the slots, in slot order: what they preserve follows     *)
(* from Folding, the highest slot being applied last.                      *)

ReserveOp(actions, i, step) == ReserveSlot(actions, step, SlotOrder[i])
AppendOp(prompt, i, built) == AppendPrompt(prompt, built, SlotOrder[i])
ReserveFold == INSTANCE Folding WITH Op <- ReserveOp, Choose <- Max
AppendFold == INSTANCE Folding WITH Op <- AppendOp, Choose <- Max

Turns == 1 .. NumSlots
FirstTurns == {1 .. i : i \in 0 .. NumSlots}

(* Every family of sets of turns has a minimal member. *)
LEMMA MinimalTurns ==
  \A C \in SUBSET (SUBSET Turns) : C # {} => \E X \in C : \A Y \in C : Y \subseteq X => Y = X
<1> DEFINE n == NumSlots
<1>1. 1 \in Int /\ n \in Int
  BY Sizes
<1> HIDE DEF n
<1>2. Grounded(1 .. n)
  BY <1>1, IntervalGrounded
<1> QED
  BY <1>2 DEF Grounded, Turns, n

(* A set of turns that is not empty has a last one. *)
LEMMA LastTurn ==
  ASSUME NEW X \in SUBSET Turns, X # {}
  PROVE  Max(X) \in X /\ \A y \in X : Max(X) >= y
<1> DEFINE n == NumSlots
<1>1. 1 \in Int /\ n \in Int /\ X \in SUBSET (1 .. n)
  BY Sizes DEF Turns
<1> HIDE DEF n
<1>2. ReserveFold!Grounded(1 .. n)
  <2>1. Grounded(1 .. n)
    BY <1>1, IntervalGrounded
  <2> QED
    BY <2>1 DEF Grounded, ReserveFold!Grounded
<1>3. ReserveFold!Max(X) \in X /\ \A y \in X : ReserveFold!Max(X) >= y
  BY <1>1, <1>2, ReserveFold!Ends
<1>4. ReserveFold!Max(X) = Max(X)
  BY DEF ReserveFold!Max, Max
<1> QED
  BY <1>3, <1>4

(* The first i turns end with turn i, which slot i - 1 takes. *)
LEMMA TurnsInOrder ==
  /\ FirstTurns \in SUBSET (SUBSET Turns) /\ Turns \in FirstTurns /\ {} \in FirstTurns
  /\ DOMAIN SlotOrder = Turns
  /\ \A i \in Turns : SlotOrder[i] = i - 1 /\ SlotOrder[i] \in Slots
  /\ \A X \in FirstTurns : X # {} =>
       \E i \in Turns : Max(X) = i /\ X = 1 .. i /\ X \ {i} = 1 .. i - 1 /\ X \ {i} \in FirstTurns
<1>1. NumSlots \in Nat
  BY Sizes
<1>2. /\ FirstTurns \in SUBSET (SUBSET Turns) /\ Turns \in FirstTurns
  BY <1>1 DEF FirstTurns, Turns
<1>6. {} \in FirstTurns
  BY <1>1 DEF FirstTurns
<1>3. DOMAIN SlotOrder = Turns
  BY DEF SlotOrder, Turns
<1>4. \A i \in Turns : SlotOrder[i] = i - 1 /\ SlotOrder[i] \in Slots
  BY <1>1 DEF SlotOrder, Turns, Slots
<1>5. ASSUME NEW X \in FirstTurns, X # {}
      PROVE  \E i \in Turns : Max(X) = i /\ X = 1 .. i /\ X \ {i} = 1 .. i - 1 /\ X \ {i} \in FirstTurns
  <2>1. PICK i \in 0 .. NumSlots : X = 1 .. i
    BY <1>5 DEF FirstTurns
  <2>2. i \in Turns /\ i \in X
    BY <1>1, <1>5, <2>1 DEF Turns
  <2>3. Max(X) \in X /\ Max(X) >= i
    BY <1>2, <2>2, LastTurn
  <2>4. Max(X) = i
    BY <1>1, <2>1, <2>3
  <2>5. X \ {i} = 1 .. i - 1 /\ i - 1 \in 0 .. NumSlots
    BY <1>1, <2>1, <2>2 DEF Turns
  <2> QED
    BY <2>1, <2>2, <2>4, <2>5 DEF FirstTurns
<1> QED
  BY <1>2, <1>3, <1>4, <1>5, <1>6

-----------------------------------------------------------------------------
(* The reservations of a step, one slot after another.                     *)

(* Where the open reservation of s will write. *)
Aim(c, s) == c.kv_length[s] + c.reservation[s].tokens - 1
Aimed(c, s) ==
  /\ c.reservation[s].tokens \in {0, 1}
  /\ Aim(c, s) \in 0 .. SlotTokenCapacity - 1
  /\ c.page_table[s][Aim(c, s) \div PageTokens] # Unmapped
  /\ c.ref_count[c.page_table[s][Aim(c, s) \div PageTokens]] = 1
FreshOwn(c, d, s) ==
  \A l \in d.reservation[s].fresh :
    /\ d.page_table[s][l] \in c.free /\ d.page_table[s][l] \notin d.free
    /\ d.ref_count[d.page_table[s][l]] = 1

(* d is c with some reservations more: every committed map is still there, *)
(* and what was taken was free and is held by its slot alone.              *)
Extends(c, d) ==
  /\ d.kv_length = c.kv_length /\ d.prefix = c.prefix
  /\ d.free \subseteq c.free
  /\ \A s \in Slots : RestoredMap(d, s) = c.page_table[s] /\ FreshOwn(c, d, s)
Ahead(c, d) == Extends(c, d) /\ \A s \in Slots : Open(d, s) => Aimed(d, s)

(* A cache without reservations is ahead of itself. *)
LEMMA NothingAhead ==
  ASSUME NEW c, Sound(c), \A s \in Slots : ~Open(c, s)
  PROVE  Ahead(c, c)
<1>1. c \in CacheType
  BY DEF Sound
<1>2. \A s \in Slots : c.reservation[s].fresh = {}
  BY <1>1, Closed DEF Sound
<1>3. ASSUME NEW s \in Slots
      PROVE  RestoredMap(c, s) = c.page_table[s]
  <2>1. c.page_table[s] \in [Logical -> Pages \cup {Unmapped}]
    BY <1>1, Typed DEF PageMap
  <2> QED
    BY <1>2, <2>1 DEF RestoredMap
<1> QED
  BY <1>2, <1>3 DEF Ahead, Extends, FreshOwn

(* One more reservation keeps it ahead: the others see neither their maps  *)
(* nor the counts of their pages change.                                   *)
LEMMA GrantKeepsAhead ==
  ASSUME NEW c, c.free \subseteq Pages, NEW d, Sound(d), Ahead(c, d), NEW s \in Slots, ~Open(d, s),
         NEW n \in {0, 1}, NEW position \in 0 .. SlotTokenCapacity - 1,
         position = d.kv_length[s] + n - 1, ReserveWriteOK(d, s, n, position)
  PROVE  LET e == ReserveWrite(d, s, n, position)
         IN  /\ Sound(e) /\ Ahead(c, e) /\ Open(e, s)
             /\ \A t \in Slots : Open(d, t) => Open(e, t)
<1> DEFINE e == ReserveWrite(d, s, n, position)
           l == position \div PageTokens
<1>1. n \in Nat
  OBVIOUS
<1>2. Sound(e)
  BY <1>1, ReserveWriteSound
<1>3. Granted(d, e, s, n) /\ e.page_table[s][l] # Unmapped /\ e.ref_count[e.page_table[s][l]] = 1
  BY <1>1, ReserveWriteGrants
<1> HIDE DEF e
<1>4. /\ e.kv_length = d.kv_length /\ e.prefix = d.prefix /\ e.free \subseteq d.free
      /\ \A p \in Pages \ d.free : e.ref_count[p] = d.ref_count[p]
      /\ \A t \in Slots : t # s => /\ e.page_table[t] = d.page_table[t]
                                   /\ e.reservation[t] = d.reservation[t]
      /\ Open(e, s) /\ e.reservation[s].tokens = n
      /\ FreshOwn(d, e, s)
      /\ RestoredMap(e, s) = d.page_table[s]
  BY <1>3 DEF Granted, FreshOwn
<1>5. /\ d.kv_length = c.kv_length /\ d.prefix = c.prefix /\ d.free \subseteq c.free
      /\ \A t \in Slots : /\ RestoredMap(d, t) = c.page_table[t]
                          /\ FreshOwn(c, d, t)
                          /\ Open(d, t) => Aimed(d, t)
  BY DEF Ahead, Extends
<1>6. d \in CacheType
  BY DEF Sound
<1>7. RestoredMap(d, s) = d.page_table[s]
  <2>1. d.page_table[s] \in [Logical -> Pages \cup {Unmapped}]
    BY <1>6, Typed DEF PageMap
  <2>2. d.reservation[s].fresh = {}
    BY <1>6, Closed DEF Sound
  <2> QED
    BY <2>1, <2>2 DEF RestoredMap
<1>8. RestoredMap(e, s) = c.page_table[s] /\ FreshOwn(c, e, s)
  BY <1>4, <1>5, <1>7 DEF FreshOwn
<1>9. Aimed(e, s)
  <2>1. Aim(e, s) = position
    BY <1>4 DEF Aim
  <2> QED
    BY <1>3, <1>4, <2>1 DEF Aimed
<1>10. ASSUME NEW t \in Slots, t # s
       PROVE  /\ RestoredMap(e, t) = c.page_table[t]
              /\ FreshOwn(c, e, t)
              /\ Open(e, t) <=> Open(d, t)
              /\ Open(e, t) => Aimed(e, t)
  <2>1. e.page_table[t] = d.page_table[t] /\ e.reservation[t] = d.reservation[t]
    BY <1>4, <1>10
  <2>2. RestoredMap(e, t) = c.page_table[t]
    BY <1>5, <2>1 DEF RestoredMap
  <2>3. FreshOwn(c, e, t)
    <3> SUFFICES ASSUME NEW i \in d.reservation[t].fresh
                 PROVE  /\ d.page_table[t][i] \in c.free /\ d.page_table[t][i] \notin e.free
                        /\ e.ref_count[d.page_table[t][i]] = 1
      BY <2>1 DEF FreshOwn
    <3>1. /\ d.page_table[t][i] \in c.free /\ d.page_table[t][i] \notin d.free
          /\ d.ref_count[d.page_table[t][i]] = 1
      BY <1>5 DEF FreshOwn
    <3> QED
      BY <1>4, <3>1
  <2>4. Open(e, t) <=> Open(d, t)
    BY <2>1 DEF Open
  <2>5. ASSUME Open(e, t) PROVE Aimed(e, t)
    <3>1. Aimed(d, t) /\ Aim(e, t) = Aim(d, t)
      BY <1>4, <1>5, <2>1, <2>4, <2>5 DEF Aim
    <3> DEFINE i == Aim(d, t) \div PageTokens
    <3>2. i \in Logical
      BY <3>1, PageOfPosition DEF Aimed
    <3>3. PICK p \in Pages : p = d.page_table[t][i]
      BY <1>6, <3>1, <3>2, Typed DEF Aimed, PageMap
    <3>4. d.ref_count[p] = 1
      BY <3>1, <3>3 DEF Aimed
    <3>5. p \notin d.free
      <4>1. Counted(d)
        BY DEF Sound
      <4> QED
        BY <1>6, <3>4, <4>1, Unheld
    <3>6. e.ref_count[p] = 1
      BY <1>4, <3>4, <3>5
    <3> QED
      BY <2>1, <3>1, <3>3, <3>6 DEF Aimed
  <2> QED
    BY <2>2, <2>3, <2>4, <2>5
<1>11. Ahead(c, e)
  BY <1>4, <1>5, <1>8, <1>9, <1>10 DEF Ahead, Extends
<1>12. \A t \in Slots : Open(d, t) => Open(e, t)
  BY <1>4, <1>10
<1> QED
  BY <1>2, <1>4, <1>11, <1>12 DEF e

(* The reservations of a step, as the fold of Folding. *)
LEMMA ReservedFolds ==
  ASSUME NEW actions
  PROVE  Reserved(actions) =
           ReserveFold!Fold(actions, [ok |-> TRUE, cache |-> cache], Turns)[Turns]
BY TurnsInOrder
   DEF Reserved, FoldLeft, MapThenFoldSet, ReserveFold!Fold, ReserveFold!Iteration, ReserveOp

(* What a context knows before it reserves: a sound cache without          *)
(* reservations whose lengths are those of the active rows.                *)
Quiet ==
  /\ Sound(cache)
  /\ \A s \in Slots : ~Open(cache, s) /\ cache.kv_length[s] = Length(s) /\ Length(s) \in Nat

StepRecords == [ok : BOOLEAN, cache : CacheType]

(* One slot's turn: it keeps what the others have reserved, and reserves   *)
(* for the slot unless it is left out or refused.                          *)
LEMMA ReserveSlotKeeps ==
  ASSUME Quiet, NEW actions, NEW s \in Slots, actions[s] \in StepActions(s),
         NEW step \in StepRecords, Sound(step.cache), Ahead(cache, step.cache)
  PROVE  LET next == ReserveSlot(actions, step, s)
         IN  /\ next \in StepRecords /\ Sound(next.cache) /\ Ahead(cache, next.cache)
             /\ next.ok => step.ok
             /\ next.ok /\ actions[s] # "empty" => Open(next.cache, s)
             /\ \A t \in Slots : Open(step.cache, t) => Open(next.cache, t)
<1> DEFINE d == step.cache
           n == StepTokens(d, s, actions[s])
           position == StepPosition(s, actions[s])
           next == ReserveSlot(actions, step, s)
<1>1. next = IF ~step.ok \/ actions[s] = "empty" THEN step
             ELSE IF n >= 0 /\ ReserveWriteOK(d, s, n, position)
             THEN [ok |-> TRUE, cache |-> ReserveWrite(d, s, n, position)]
             ELSE [ok |-> FALSE, cache |-> d]
  BY DEF ReserveSlot
<1>2. d \in CacheType /\ step.ok \in BOOLEAN
  BY DEF StepRecords
<1>3. CASE ~step.ok \/ actions[s] = "empty"
  <2>1. next = step
    BY <1>1, <1>3
  <2> HIDE DEF next, d
  <2> QED
    BY <1>3, <2>1 DEF next, d
<1>4. CASE step.ok /\ actions[s] # "empty" /\ ~(n >= 0 /\ ReserveWriteOK(d, s, n, position))
  <2>1. next = [ok |-> FALSE, cache |-> d]
    BY <1>1, <1>4
  <2> HIDE DEF next
  <2> QED
    BY <1>2, <2>1 DEF next, StepRecords
<1>5. CASE step.ok /\ actions[s] # "empty" /\ n >= 0 /\ ReserveWriteOK(d, s, n, position)
  <2> DEFINE e == ReserveWrite(d, s, n, position)
  <2>1. next = [ok |-> TRUE, cache |-> e]
    BY <1>1, <1>5
  <2>2. /\ cache.kv_length[s] = Length(s) /\ Length(s) \in Nat
        /\ d.kv_length = cache.kv_length
    BY DEF Quiet, Ahead, Extends
  <2>3. /\ n \in {0, 1} /\ position = d.kv_length[s] + n - 1
        /\ position \in 0 .. SlotTokenCapacity - 1
    <3>1. CASE actions[s] = "advance"
      <4>1. Length(s) < SlotTokenCapacity
        BY <3>1 DEF StepActions
      <4> QED
        BY <2>2, <3>1, <4>1, Sizes DEF StepTokens, StepPosition
    <3>2. CASE actions[s] = "recompute"
      <4>1. Length(s) > 0
        BY <3>2 DEF StepActions
      <4>2. position < SlotTokenCapacity
        BY <1>5 DEF ReserveWriteOK
      <4> QED
        BY <2>2, <3>2, <4>1, <4>2, Sizes DEF StepTokens, StepPosition
    <3> QED
      BY <1>5, <3>1, <3>2 DEF StepActions
  <2>4. ~Open(d, s)
    BY <1>5 DEF ReserveWriteOK, ReserveOK
  <2>5. cache.free \subseteq Pages
    BY Typed DEF Quiet, Sound
  <2> HIDE DEF d, n, position, next
  <2>6. /\ Sound(e) /\ Ahead(cache, e) /\ Open(e, s)
        /\ \A t \in Slots : Open(d, t) => Open(e, t)
    <3>1. Sound(d) /\ Ahead(cache, d)
      BY DEF d
    <3> QED
      BY <1>5, <2>3, <2>4, <2>5, <3>1, GrantKeepsAhead
  <2> HIDE DEF e
  <2>7. e \in CacheType
    BY <2>6 DEF Sound
  <2>8. next \in StepRecords /\ next.cache = e /\ next.ok
    BY <2>1, <2>7 DEF StepRecords
  <2> QED
    BY <1>5, <2>6, <2>8 DEF next, d
<1> QED
  BY <1>3, <1>4, <1>5

(* All the reservations of a step: refused or not, the cache is ahead of   *)
(* the one before; granted, every slot that is not left out has its own.   *)
LEMMA ReservedAhead ==
  ASSUME Quiet, NEW actions, \A s \in Slots : actions[s] \in StepActions(s)
  PROVE  LET step == Reserved(actions)
         IN  /\ step \in StepRecords /\ Sound(step.cache) /\ Ahead(cache, step.cache)
             /\ step.ok => \A s \in Slots : actions[s] # "empty" => Open(step.cache, s)
<1> DEFINE Served(X, step) ==
             step.ok => \A i \in X : actions[SlotOrder[i]] # "empty" => Open(step.cache, SlotOrder[i])
           G == [X \in FirstTurns |->
                  {step \in StepRecords : /\ Sound(step.cache) /\ Ahead(cache, step.cache)
                                          /\ Served(X, step)}]
           base == [ok |-> TRUE, cache |-> cache]
           result == ReserveFold!Fold(actions, base, Turns)[Turns]
<1>1. base \in G[{}]
  <2>1. base \in StepRecords
    BY DEF Quiet, Sound, StepRecords
  <2>2. Ahead(cache, cache)
    BY NothingAhead DEF Quiet
  <2> QED
    BY <2>1, <2>2, TurnsInOrder DEF Quiet
<1>2. ASSUME NEW X \in FirstTurns, X # {}
      PROVE  /\ X \ {Max(X)} \in FirstTurns
             /\ \A step \in G[X \ {Max(X)}] : ReserveOp(actions, Max(X), step) \in G[X]
  <2>1. PICK i \in Turns : Max(X) = i /\ X = 1 .. i /\ X \ {i} = 1 .. i - 1 /\ X \ {i} \in FirstTurns
    BY <1>2, TurnsInOrder
  <2>2. ASSUME NEW step \in G[X \ {i}]
        PROVE  ReserveOp(actions, i, step) \in G[X]
    <3> DEFINE s == SlotOrder[i]  next == ReserveSlot(actions, step, s)
    <3>1. s \in Slots /\ actions[s] \in StepActions(s)
      BY TurnsInOrder
    <3>2. /\ step \in StepRecords /\ Sound(step.cache) /\ Ahead(cache, step.cache)
          /\ Served(X \ {i}, step)
      BY <2>1, <2>2
    <3> HIDE DEF s
    <3>3. /\ next \in StepRecords /\ Sound(next.cache) /\ Ahead(cache, next.cache)
          /\ next.ok => step.ok
          /\ next.ok /\ actions[s] # "empty" => Open(next.cache, s)
          /\ \A t \in Slots : Open(step.cache, t) => Open(next.cache, t)
      BY <3>1, <3>2, ReserveSlotKeeps
    <3> HIDE DEF next
    <3>4. Served(X, next)
      <4> SUFFICES ASSUME next.ok, NEW j \in X, actions[SlotOrder[j]] # "empty"
                   PROVE  Open(next.cache, SlotOrder[j])
        OBVIOUS
      <4>1. CASE j = i
        BY <3>3, <4>1 DEF s
      <4>2. CASE j # i
        <5>1. Open(step.cache, SlotOrder[j]) /\ SlotOrder[j] \in Slots
          BY <3>2, <3>3, <4>2, TurnsInOrder
        <5> QED
          BY <3>3, <5>1
      <4> QED
        BY <4>1, <4>2
    <3> HIDE DEF Served
    <3>5. next \in G[X]
      BY <3>3, <3>4
    <3> QED
      BY <3>5 DEF next, s, ReserveOp
  <2> HIDE DEF G
  <2> QED
    BY <2>1, <2>2
<1> HIDE DEF G
<1>3. result \in G[Turns]
  <2>1. ReserveFold!Grounded(Turns)
    BY MinimalTurns DEF ReserveFold!Grounded
  <2>2. ReserveFold!Chooses(Turns)
    BY LastTurn DEF ReserveFold!Chooses
  <2> HIDE DEF base
  <2>3. FirstTurns \in SUBSET (SUBSET Turns) /\ Turns \in FirstTurns
    BY TurnsInOrder
  <2>4. \A X \in FirstTurns : X = {} => base \in G[X]
    BY <1>1
  <2> QED
    BY <1>2, <2>1, <2>2, <2>3, <2>4, ReserveFold!Keeps
<1>4. Reserved(actions) = result
  BY ReservedFolds
<1> HIDE DEF result
<1>5. /\ result \in StepRecords /\ Sound(result.cache) /\ Ahead(cache, result.cache)
      /\ Served(Turns, result)
  BY <1>3, TurnsInOrder DEF G
<1>6. \A s \in Slots : \E i \in Turns : SlotOrder[i] = s
  <2> TAKE s \in Slots
  <2>1. s + 1 \in Turns /\ SlotOrder[s + 1] = s
    BY Sizes DEF Slots, Turns, SlotOrder
  <2> QED
    BY <2>1
<1> QED
  BY <1>4, <1>5, <1>6

-----------------------------------------------------------------------------
(* The pages of a prompt, appended slot by slot.                           *)

(* d is c after the slots of S committed. *)
Committed(c, d, S) ==
  /\ d.page_table = c.page_table /\ d.prefix = c.prefix
  /\ \A s \in Slots : /\ d.kv_length[s] = IF s \in S THEN Extent(c, s) ELSE c.kv_length[s]
                      /\ d.reservation[s] = IF s \in S THEN NoReservation ELSE c.reservation[s]
  /\ \A p \in Pages : d.ref_count[p] <= c.ref_count[p]

(* A commit, in that form. *)
LEMMA CommitEffect ==
  ASSUME NEW c, Sound(c), NEW S \in SUBSET Slots
  PROVE  Committed(c, Commit(c, S), S)
<1> DEFINE maps == [s \in S |-> c.reservation[s].prior]
           r == ReleaseMaps(c, S, maps)
           d == Commit(c, S)
<1>1. c \in CacheType
  BY DEF Sound
<1>2. IsFiniteSet(S) /\ c.free = {p \in Pages : c.ref_count[p] = 0}
  BY Sizes, Subsets DEF Sound, Counted
<1>3. /\ d.page_table = c.page_table /\ d.ref_count = r.ref_count /\ d.free = r.free
      /\ d.slot_generation = c.slot_generation /\ d.slot_prefix = c.slot_prefix
      /\ d.prefix = c.prefix /\ d.older = c.older
      /\ d.kv_length = [s \in Slots |->
           IF s \in S THEN c.kv_length[s] + c.reservation[s].tokens ELSE c.kv_length[s]]
      /\ d.reserved_pages = c.reserved_pages - ReservedBy(c, S)
      /\ d.reservation = [s \in Slots |->
           IF s \in S THEN NoReservation ELSE c.reservation[s]]
  BY <1>1, CommitFields
<1>4. MapsReleased(c, r, S, maps)
  BY <1>1, <1>2, ReleaseEffect
<1> HIDE DEF d, r, maps
<1> QED
  BY <1>3, <1>4 DEF Committed, MapsReleased, Extent, d

(* A reservation counts a page once where it counted none. *)
LEMMA ReserveCounts ==
  ASSUME NEW c, Sound(c), NEW s \in Slots, NEW n \in Nat, ReserveOK(c, s, n),
         NEW p \in Pages, c.ref_count[p] <= 1
  PROVE  Reserve(c, s, n).ref_count[p] <= 1
<1> DEFINE wanted == Missing(c, s, n)
           r == Reserve(c, s, n)
           a == Allocate(c, s, wanted)
<1>1. c \in CacheType
  BY DEF Sound
<1>2. /\ r.page_table = a.page_table /\ r.ref_count = a.ref_count /\ r.free = a.free
      /\ r.kv_length = c.kv_length /\ r.slot_generation = c.slot_generation
      /\ r.slot_prefix = c.slot_prefix /\ r.prefix = c.prefix /\ r.older = c.older
      /\ r.reserved_pages = c.reserved_pages + Cardinality(wanted)
      /\ r.reservation = [c.reservation EXCEPT ![s] =
           [open |-> TRUE, tokens |-> n, fresh |-> wanted, prior |-> EmptyMap]]
  BY <1>1, ReserveFields
<1>3. a.ref_count[p] \in {1, c.ref_count[p]}
  BY <1>1 DEF Allocate, CacheType
<1> QED
  BY <1>2, <1>3

(* No page is mapped ahead of the committed tokens.                        *)
NoneAhead(c) ==
  \A s \in Slots, l \in Logical : c.page_table[s][l] # Unmapped => Start(l) < c.kv_length[s]

(* The cache of a prompt so far: one holder a page, no prefix, and the     *)
(* tokens of the slots that had their turn.                                *)
PromptHeld(c, prompt, X) ==
  /\ Sound(c)
  /\ \A s \in Slots : ~Open(c, s) /\ c.kv_length[s] = IF s + 1 \in X THEN Len(prompt[s]) ELSE 0
  /\ LiveKeys(c) = {} /\ NoneAhead(c)
  /\ \A p \in Pages : c.ref_count[p] <= 1

(* The append of one slot's prompt. *)
LEMMA AppendKeeps ==
  ASSUME NEW c, NEW prompt, NEW X, NEW Y, NEW s \in Slots, PromptHeld(c, prompt, X),
         s + 1 \notin X, Y = X \cup {s + 1}, Len(prompt[s]) \in Nat,
         AppendOK(c, s, Len(prompt[s]))
  PROVE  PromptHeld(AppendTokens(c, s, Len(prompt[s])), prompt, Y)
<1> DEFINE n == Len(prompt[s])
           r == Reserve(c, s, n)
           d == AppendTokens(c, s, n)
<1>1. /\ Sound(c) /\ ReserveOK(c, s, n) /\ n \in Nat
      /\ \A t \in Slots : ~Open(c, t) /\ c.kv_length[t] = IF t + 1 \in X THEN Len(prompt[t]) ELSE 0
      /\ LiveKeys(c) = {} /\ NoneAhead(c)
      /\ \A p \in Pages : c.ref_count[p] <= 1
  BY DEF PromptHeld, AppendOK
<1>2. Sound(r) /\ Sound(d)
  BY <1>1, ReserveSound, AppendSound DEF AppendOK
<1>3. Granted(c, r, s, n)
  BY <1>1, ReserveGrants
<1>4. \A p \in Pages : r.ref_count[p] <= 1
  BY <1>1, ReserveCounts
<1>5. Committed(r, d, {s})
  BY <1>2, CommitEffect DEF AppendTokens
<1>6. r \in CacheType /\ d \in CacheType
  BY <1>2 DEF Sound
<1> HIDE DEF n, r, d
<1>7. d.kv_length[s] = n /\ ~Open(d, s)
  <2>1. d.kv_length[s] = r.kv_length[s] + r.reservation[s].tokens
    BY <1>5 DEF Committed, Extent
  <2>2. r.kv_length[s] = 0 /\ r.reservation[s].tokens = n
    BY <1>1, <1>3 DEF Granted
  <2>3. d.reservation[s] = NoReservation
    BY <1>5 DEF Committed
  <2> QED
    BY <1>1, <2>1, <2>2, <2>3, NothingReserved DEF Open
<1>8. ASSUME NEW t \in Slots, t # s
      PROVE  d.kv_length[t] = c.kv_length[t] /\ ~Open(d, t)
  <2>1. d.kv_length[t] = r.kv_length[t] /\ d.reservation[t] = r.reservation[t]
    BY <1>5, <1>8 DEF Committed
  <2>2. r.kv_length[t] = c.kv_length[t] /\ r.reservation[t] = c.reservation[t]
    BY <1>3, <1>8 DEF Granted
  <2> QED
    BY <1>1, <2>1, <2>2 DEF Open
<1>9. LiveKeys(d) = {}
  BY <1>1, <1>3, <1>5 DEF LiveKeys, Granted, Committed
<1>10. \A p \in Pages : d.ref_count[p] <= 1
  <2> TAKE p \in Pages
  <2>1. d.ref_count[p] <= r.ref_count[p]
    BY <1>5 DEF Committed
  <2>2. d.ref_count[p] \in Nat /\ r.ref_count[p] \in Nat
    BY <1>6, Typed
  <2> QED
    BY <1>4, <2>1, <2>2
<1>11. \A t \in Slots : t + 1 \in Y <=> t = s \/ t + 1 \in X
  BY Sizes DEF Slots
<1>12. NoneAhead(d)
  <2> SUFFICES ASSUME NEW t \in Slots, NEW l \in Logical, d.page_table[t][l] # Unmapped
               PROVE  Start(l) < d.kv_length[t]
    BY DEF NoneAhead
  <2>1. d.page_table = r.page_table
    BY <1>5 DEF Committed
  <2>2. CASE t = s
    <3>1. Start(l) < Extent(r, s)
      <4>1. r.kv_length[s] = 0
        BY <1>1, <1>3 DEF Granted
      <4> QED
        BY <1>2, <2>1, <2>2, <4>1 DEF Sound, ReservationsExplained, FreshExplained
    <3>2. d.kv_length[s] = Extent(r, s)
      BY <1>5 DEF Committed
    <3> QED
      BY <2>2, <3>1, <3>2
  <2>3. CASE t # s
    <3>1. r.page_table[t] = c.page_table[t]
      BY <1>3, <2>3 DEF Granted
    <3> QED
      BY <1>1, <1>8, <2>1, <2>3, <3>1 DEF NoneAhead
  <2> QED
    BY <2>2, <2>3
<1>13. PromptHeld(d, prompt, Y)
  BY <1>1, <1>2, <1>7, <1>8, <1>9, <1>10, <1>11, <1>12 DEF PromptHeld, n
<1> QED
  BY <1>13 DEF d, n

(* The prompt of a whole context, as the fold of Folding. *)
LEMMA BuiltFolds ==
  ASSUME NEW prompt
  PROVE  BuiltFor(prompt) =
           AppendFold!Fold(prompt, [ok |-> TRUE, cache |-> EmptyCache], Turns)[Turns]
BY TurnsInOrder
   DEF BuiltFor, FoldLeft, MapThenFoldSet, AppendFold!Fold, AppendFold!Iteration, AppendOp

(* The cache prepared for a prompt has the prompt's tokens in every slot.  *)
LEMMA PromptBuilt ==
  ASSUME NEW prompt, \A s \in Slots : Len(prompt[s]) \in Nat
  PROVE  LET built == BuiltFor(prompt)
         IN  /\ built.cache \in CacheType
             /\ built.ok => PromptHeld(built.cache, prompt, Turns)
<1> DEFINE G == [X \in FirstTurns |->
                  {built \in StepRecords : built.ok => PromptHeld(built.cache, prompt, X)}]
           base == [ok |-> TRUE, cache |-> EmptyCache]
           result == AppendFold!Fold(prompt, base, Turns)[Turns]
<1>1. base \in G[{}]
  <2>1. base \in StepRecords
    BY EmptyCacheSound DEF Sound, StepRecords
  <2>2. PromptHeld(EmptyCache, prompt, {})
    <3>1. NoneAhead(EmptyCache)
      BY DEF NoneAhead, EmptyCache, EmptyMap
    <3> QED
      BY <3>1, EmptyCacheSound
         DEF PromptHeld, EmptyCache, Open, NoReservation, LiveKeys, NoPrefix
  <2> QED
    BY <2>1, <2>2, TurnsInOrder
<1>2. ASSUME NEW X \in FirstTurns, X # {}
      PROVE  /\ X \ {Max(X)} \in FirstTurns
             /\ \A built \in G[X \ {Max(X)}] : AppendOp(prompt, Max(X), built) \in G[X]
  <2>1. PICK i \in Turns : Max(X) = i /\ X = 1 .. i /\ X \ {i} = 1 .. i - 1 /\ X \ {i} \in FirstTurns
    BY <1>2, TurnsInOrder
  <2>2. ASSUME NEW built \in G[X \ {i}]
        PROVE  AppendOp(prompt, i, built) \in G[X]
    <3> DEFINE s == SlotOrder[i]
               c == built.cache
               next == AppendPrompt(prompt, built, s)
    <3>1. s \in Slots /\ s + 1 = i /\ i \in X
      BY <2>1, TurnsInOrder, Sizes DEF Turns
    <3>2. built \in StepRecords /\ (built.ok => PromptHeld(c, prompt, X \ {i}))
      BY <2>1, <2>2
    <3> HIDE DEF s
    <3>3. next = IF built.ok /\ AppendOK(c, s, Len(prompt[s]))
                 THEN [ok |-> TRUE, cache |-> AppendTokens(c, s, Len(prompt[s]))]
                 ELSE [ok |-> FALSE, cache |-> c]
      BY DEF AppendPrompt
    <3>4. CASE built.ok /\ AppendOK(c, s, Len(prompt[s]))
      <4> DEFINE d == AppendTokens(c, s, Len(prompt[s]))
      <4>1. PromptHeld(d, prompt, X)
        <5>1. s + 1 \notin X \ {i} /\ X = (X \ {i}) \cup {s + 1} /\ Len(prompt[s]) \in Nat
          BY <3>1
        <5>2. PromptHeld(c, prompt, X \ {i})
          BY <3>2, <3>4
        <5> HIDE DEF c
        <5> QED
          BY <3>1, <3>4, <5>1, <5>2, AppendKeeps
      <4>2. d \in CacheType
        BY <4>1 DEF PromptHeld, Sound
      <4>3. next = [ok |-> TRUE, cache |-> d]
        BY <3>3, <3>4
      <4> HIDE DEF d, next
      <4>4. next \in G[X]
        BY <4>1, <4>2, <4>3 DEF StepRecords
      <4> QED
        BY <4>4 DEF next, s, AppendOp
    <3>5. CASE ~(built.ok /\ AppendOK(c, s, Len(prompt[s])))
      <4>1. next = [ok |-> FALSE, cache |-> c]
        BY <3>3, <3>5
      <4> HIDE DEF next
      <4>2. next \in G[X]
        BY <3>2, <4>1 DEF StepRecords
      <4> QED
        BY <4>2 DEF next, s, AppendOp
    <3> QED
      BY <3>4, <3>5
  <2> HIDE DEF G
  <2> QED
    BY <2>1, <2>2
<1> HIDE DEF G
<1>3. result \in G[Turns]
  <2>1. AppendFold!Grounded(Turns)
    BY MinimalTurns DEF AppendFold!Grounded
  <2>2. AppendFold!Chooses(Turns)
    BY LastTurn DEF AppendFold!Chooses
  <2> HIDE DEF base
  <2>3. FirstTurns \in SUBSET (SUBSET Turns) /\ Turns \in FirstTurns
    BY TurnsInOrder
  <2>4. \A X \in FirstTurns : X = {} => base \in G[X]
    BY <1>1
  <2> QED
    BY <1>2, <2>1, <2>2, <2>3, <2>4, AppendFold!Keeps
<1>4. BuiltFor(prompt) = result
  BY BuiltFolds
<1> HIDE DEF result
<1> QED
  BY <1>3, <1>4, TurnsInOrder DEF G, StepRecords

-----------------------------------------------------------------------------
(* The inductive invariant.  What a map shows is stated page by page, so   *)
(* that a step may be judged one page and one offset at a time.            *)

Offsets == 0 .. PageTokens - 1
RowIn(p, o) == p * PageTokens + o

(* The tokens stand in the pages of map m, and a page that begins at n or  *)
(* later is cleared.                                                       *)
Shows(data, m, tokens) ==
  \A l \in Logical, o \in Offsets : Start(l) + o < Len(tokens) =>
    m[l] # Unmapped /\ data[RowIn(m[l], o)] = tokens[Start(l) + o + 1]
AheadZero(data, m, n) ==
  \A l \in Logical, o \in Offsets : m[l] # Unmapped /\ Start(l) >= n =>
    data[RowIn(m[l], o)] = Zero

(* An initializing run: the cache of its prompt, every page held once.     *)
Prompted ==
  /\ Sound(prepared)
  /\ \A s \in Slots : prepared.kv_length[s] = Length(s) /\ ~Open(prepared, s)
  /\ LiveKeys(prepared) = {} /\ NoneAhead(prepared)
  /\ \A p \in Pages : prepared.ref_count[p] <= 1

(* A context that decodes: what is committed, with an open run or without, *)
(* is the map a rollback would restore.  No page to erase is in use.       *)
Lengths ==
  /\ \A s \in Slots : cache.kv_length[s] = Length(s)
  /\ \A k \in Keys : Len(saved[k]) = (IF cache.prefix[k].live THEN cache.prefix[k].tokens ELSE 0)
Shown ==
  /\ \A s \in Slots : Shows(rows, RestoredMap(cache, s), content[s])
  /\ \A k \in LiveKeys(cache) : Shows(rows, cache.prefix[k].pages, saved[k])
  /\ ClearOnRecycle => \A s \in Slots : AheadZero(rows, RestoredMap(cache, s), Length(s))
ErasesUnused ==
  \A p \in erase : /\ \A s \in Slots : p \notin PagesOf(RestoredMap(cache, s))
                   /\ \A k \in LiveKeys(cache) : p \notin PagesOf(cache.prefix[k].pages)
Serving == Sound(cache) /\ Lengths /\ Shown /\ ErasesUnused

(* An open run: the pages it took are its own; a step writes pages of its  *)
(* own too, and a generation follows a token of the only slot.             *)
FreshAlone(s) ==
  \A l \in cache.reservation[s].fresh :
    /\ cache.page_table[s][l] # Unmapped /\ cache.ref_count[cache.page_table[s][l]] = 1
    /\ ClearOnRecycle => cache.page_table[s][l] \in erase
TakenAlone == \A s \in Slots : FreshAlone(s)
Reserving ==
  /\ InStep # {} /\ TakenAlone
  /\ \A s \in InStep : Aimed(cache, s)
Generating ==
  /\ NumSlots = 1 /\ TakenAlone
  /\ Open(cache, Only) /\ Length(Only) >= 1

IInv ==
  /\ TypeOK
  /\ phase = "fresh" => prepared = NoCache
  /\ phase = "initializing" => Prompted
  /\ phase \in {"ready", "reserved", "generating"} => Serving
  /\ phase = "ready" => \A s \in Slots : ~Open(cache, s)
  /\ phase = "reserved" => Reserving
  /\ phase = "generating" => Generating

-----------------------------------------------------------------------------
(* Rows and tokens, page by page.                                          *)

(* A row is a page and an offset. *)
LEMMA RowParts ==
  /\ \A p \in Pages, o \in Offsets : /\ RowIn(p, o) \in Rows
                                     /\ RowIn(p, o) \div PageTokens = p
                                     /\ Offset(RowIn(p, o)) = o
  /\ \A r \in Rows : /\ r \div PageTokens \in Pages /\ Offset(r) \in Offsets
                     /\ r = RowIn(r \div PageTokens, Offset(r))
<1>1. \A b, p, o \in Nat : o < b => (p * b + o) \div b = p /\ (p * b + o) % b = o
  BY Z3
<1>2. \A b, p, n, o \in Nat : p < n /\ o < b => p * b + o \in Nat /\ p * b + o < n * b
  BY Z3
<1>3. \A b, r, n \in Nat : b > 0 /\ r < n * b => r \div b \in Nat /\ r \div b < n
  <2>1. \A b, r \in Nat : b > 0 => r \div b \in Nat /\ (r \div b) * b <= r
    BY Z3
  <2>2. \A b, q, n \in Nat : b > 0 /\ q * b < n * b => q < n
    BY Z3
  <2>3. \A b, n \in Nat : b * n \in Nat
    BY Z3
  <2> TAKE b, r, n \in Nat
  <2> HAVE b > 0 /\ r < n * b
  <2>4. r \div b \in Nat /\ (r \div b) * b <= r
    BY <2>1
  <2> DEFINE q == r \div b
             start == q * b
             end == n * b
  <2> HIDE DEF q
  <2>5. start \in Nat /\ end \in Nat /\ start <= r /\ r < end
    BY <2>3, <2>4 DEF q
  <2> HIDE DEF start, end
  <2>6. start < end
    BY <2>5
  <2>7. q < n
    BY <2>2, <2>4, <2>6 DEF q, start, end
  <2> QED
    BY <2>4, <2>7 DEF q
<1>4. \A b, r \in Nat : b > 0 => /\ r % b \in Nat /\ r % b < b
                                 /\ r = (r \div b) * b + (r % b)
  <2>1. \A b, r \in Nat : b > 0 => r = (r \div b) * b + (r % b)
    BY Z3
  <2>2. \A b, r \in Nat : b > 0 => r % b \in Nat /\ r % b < b
    BY SMT
  <2> QED
    BY <2>1, <2>2
<1>5. ASSUME NEW p \in Pages, NEW o \in Offsets
      PROVE  /\ RowIn(p, o) \in Rows /\ RowIn(p, o) \div PageTokens = p
             /\ Offset(RowIn(p, o)) = o
  <2>1. p \in Nat /\ p < MaxPages /\ o \in Nat /\ o < PageTokens
    BY Sizes DEF Pages, Offsets
  <2>2. RowIn(p, o) \in Nat /\ RowIn(p, o) < MaxPages * PageTokens
    BY <1>2, <2>1, Sizes DEF RowIn
  <2>3. MaxPages * PageTokens \in Nat
    <3>1. \A a, b \in Nat : a * b \in Nat
      BY Z3
    <3> QED
      BY <3>1, Sizes
  <2>4. RowIn(p, o) \in Rows
    <3> DEFINE r == RowIn(p, o)  top == MaxPages * PageTokens
    <3> HIDE DEF r, top
    <3>1. r \in Nat /\ r < top /\ top \in Nat
      BY <2>2, <2>3 DEF r, top
    <3>2. r \in 0 .. top - 1
      BY <3>1
    <3> QED
      BY <3>2 DEF r, top, Rows
  <2> QED
    BY <1>1, <2>1, <2>4, Sizes DEF RowIn, Offset
<1>6. ASSUME NEW r \in Rows
      PROVE  /\ r \div PageTokens \in Pages /\ Offset(r) \in Offsets
             /\ r = RowIn(r \div PageTokens, Offset(r))
  <2>1. MaxPages * PageTokens \in Nat
    <3>1. \A a, b \in Nat : a * b \in Nat
      BY Z3
    <3> QED
      BY <3>1, Sizes
  <2>2. r \in Nat /\ r < MaxPages * PageTokens
    BY <2>1 DEF Rows
  <2>3. r \div PageTokens \in Nat /\ r \div PageTokens < MaxPages
    BY <1>3, <2>2, Sizes
  <2>4. r % PageTokens \in Nat /\ r % PageTokens < PageTokens
        /\ r = (r \div PageTokens) * PageTokens + (r % PageTokens)
    BY <1>4, <2>2, Sizes
  <2>5. r \div PageTokens \in Pages
    BY <2>3, Sizes DEF Pages
  <2>6. r % PageTokens \in Offsets
    BY <2>4, Sizes DEF Offsets
  <2>7. r = (r \div PageTokens) * PageTokens + (r % PageTokens)
    BY <2>4
  <2> DEFINE p == r \div PageTokens
             o == r % PageTokens
  <2>8. p \in Pages /\ o \in Offsets /\ r = RowIn(p, o) /\ Offset(r) = o
    BY <2>5, <2>6, <2>7 DEF Offset, RowIn
  <2> QED
    BY <2>8, Zenon
<1> QED
  BY <1>5, <1>6

(* Two rows are one row only at one page and one offset. *)
LEMMA RowsApart ==
  ASSUME NEW p \in Pages, NEW q \in Pages, NEW o \in Offsets, NEW u \in Offsets,
         RowIn(p, o) = RowIn(q, u)
  PROVE  p = q /\ o = u
<1>1. /\ RowIn(p, o) \div PageTokens = p /\ Offset(RowIn(p, o)) = o
      /\ RowIn(q, u) \div PageTokens = q /\ Offset(RowIn(q, u)) = u
  BY RowParts
<1> QED
  BY <1>1

(* A token of a slot is a logical page and an offset. *)
LEMMA TokenParts ==
  /\ \A t \in 0 .. SlotTokenCapacity - 1 :
       /\ t \div PageTokens \in Logical /\ t % PageTokens \in Offsets
       /\ Start(t \div PageTokens) + (t % PageTokens) = t
  /\ \A l \in Logical, o \in Offsets :
       /\ Start(l) + o \in Nat
       /\ (Start(l) + o) \div PageTokens = l /\ (Start(l) + o) % PageTokens = o
<1>1. \A b, l, o \in Nat : o < b => /\ l * b + o \in Nat
                                    /\ (l * b + o) \div b = l /\ (l * b + o) % b = o
  <2>1. \A b, l, o \in Nat : o < b => (l * b + o) \div b = l /\ (l * b + o) % b = o
    BY Z3
  <2>2. \A b, l, o \in Nat : l * b + o \in Nat
    BY Z3
  <2> QED
    BY <2>1, <2>2
<1>2. \A b, t \in Nat : b > 0 => /\ t % b \in Nat /\ t % b < b
                                 /\ t = (t \div b) * b + (t % b)
  <2>1. \A b, t \in Nat : b > 0 => t = (t \div b) * b + (t % b)
    BY Z3
  <2>2. \A b, t \in Nat : b > 0 => t % b \in Nat /\ t % b < b
    BY SMT
  <2> QED
    BY <2>1, <2>2
<1>3. ASSUME NEW t \in 0 .. SlotTokenCapacity - 1
      PROVE  /\ t \div PageTokens \in Logical /\ t % PageTokens \in Offsets
             /\ Start(t \div PageTokens) + (t % PageTokens) = t
  <2>1. t \in Nat
    OBVIOUS
  <2>2. t % PageTokens \in Nat /\ t % PageTokens < PageTokens
        /\ t = (t \div PageTokens) * PageTokens + (t % PageTokens)
    BY <1>2, <2>1, Sizes
  <2>3. t \div PageTokens \in Logical
    BY PageOfPosition
  <2> QED
    BY <2>2, <2>3, Sizes DEF Offsets, Start
<1>4. ASSUME NEW l \in Logical, NEW o \in Offsets
      PROVE  /\ Start(l) + o \in Nat
             /\ (Start(l) + o) \div PageTokens = l /\ (Start(l) + o) % PageTokens = o
  <2>1. l \in Nat /\ o \in Nat /\ o < PageTokens
    BY Sizes DEF Offsets
  <2> QED
    BY <1>1, <2>1, Sizes DEF Start
<1> QED
  BY <1>3, <1>4

(* What a shown map reads at a token. *)
LEMMA ShownReads ==
  ASSUME NEW data, NEW m, NEW tokens, Len(tokens) \in 0 .. SlotTokenCapacity,
         Shows(data, m, tokens), NEW t \in 0 .. Len(tokens) - 1
  PROVE  /\ m[t \div PageTokens] # Unmapped
         /\ data[RowAt(m, t)] = tokens[t + 1]
<1> DEFINE l == t \div PageTokens
           o == t % PageTokens
<1>1. t \in 0 .. SlotTokenCapacity - 1 /\ t < Len(tokens)
  BY Sizes
<1>2. l \in Logical /\ o \in Offsets /\ Start(l) + o = t
  BY <1>1, TokenParts
<1>3. RowAt(m, t) = RowIn(m[l], o)
  BY DEF RowAt, RowIn
<1> HIDE DEF l, o
<1>4. m[l] # Unmapped /\ data[RowIn(m[l], o)] = tokens[t + 1]
  BY <1>1, <1>2 DEF Shows
<1> QED
  BY <1>3, <1>4 DEF l

(* The contents of a slot are the sequences of tokens that fit in it. *)
LEMMA ContentsFit ==
  \A x : x \in Contents <=> x \in Seq(Tokens) /\ Len(x) \in 0 .. SlotTokenCapacity
<1>1. ASSUME NEW x, x \in Contents
      PROVE  x \in Seq(Tokens) /\ Len(x) \in 0 .. SlotTokenCapacity
  <2>1. PICK n \in 0 .. SlotTokenCapacity : x \in [1 .. n -> Tokens]
    BY <1>1 DEF Contents, Sequence
  <2>2. n \in Nat
    BY <2>1, Sizes
  <2>3. x \in Seq(Tokens)
    BY <2>1, <2>2, SeqDef
  <2>4. Len(x) \in Nat /\ DOMAIN x = 1 .. Len(x)
    BY <2>3, LenProperties
  <2>5. Len(x) = n
    BY <2>1, <2>2, <2>4
  <2> QED
    BY <2>1, <2>3, <2>5
<1>2. ASSUME NEW x, x \in Seq(Tokens), Len(x) \in 0 .. SlotTokenCapacity
      PROVE  x \in Contents
  <2>1. x \in [1 .. Len(x) -> Tokens]
    BY <1>2, ElementOfSeq, LenProperties
  <2> QED
    BY <1>2, <2>1 DEF Contents, Sequence
<1> QED
  BY <1>1, <1>2

(* Whoever maps a page that is held once maps it at one place, and no      *)
(* live prefix does.                                                       *)
LEMMA OnePlace ==
  ASSUME NEW c, Sound(c), NEW p \in Pages, c.ref_count[p] <= 1,
         NEW s \in Slots, NEW i \in Logical, c.page_table[s][i] = p
  PROVE  /\ c.ref_count[p] = 1
         /\ \A t \in Slots, j \in Logical : c.page_table[t][j] = p => t = s /\ j = i
         /\ \A k \in LiveKeys(c) : p \notin PagesOf(c.prefix[k].pages)
<1>1. c \in CacheType /\ Counted(c)
  BY DEF Sound
<1>2. s \in SlotsOn(c, p)
  BY InMap DEF SlotsOn
<1>3. c.ref_count[p] # 0 /\ c.ref_count[p] \in Nat
  BY <1>1, <1>2, Unheld, Typed
<1>4. c.ref_count[p] = 1
  BY <1>3
<1>5. SlotsOn(c, p) = {s} /\ PrefixesOn(c, p) = {} /\ SourcesOn(c, p) = {}
  BY <1>1, <1>2, <1>4, SoleHolder
<1>6. ASSUME NEW t \in Slots, NEW j \in Logical, c.page_table[t][j] = p
      PROVE  t = s /\ j = i
  <2>1. t \in SlotsOn(c, p)
    BY <1>6, InMap DEF SlotsOn
  <2>2. t = s
    BY <1>5, <2>1
  <2>3. Distinct(c.page_table[s])
    BY DEF Sound, SlotsBacked, Backs
  <2> QED
    BY <1>6, <2>2, <2>3, Sizes DEF Distinct
<1>7. \A k \in LiveKeys(c) : p \notin PagesOf(c.prefix[k].pages)
  BY <1>5 DEF PrefixesOn
<1> QED
  BY <1>4, <1>6, <1>7

(* The map a rollback would restore is the map, where nothing is reserved. *)
LEMMA NothingToRestore ==
  ASSUME NEW c, Sound(c), NEW s \in Slots, ~Open(c, s)
  PROVE  /\ RestoredMap(c, s) = c.page_table[s]
         /\ c.reservation[s].fresh = {} /\ Extent(c, s) = c.kv_length[s]
<1>1. c \in CacheType
  BY DEF Sound
<1>2. c.reservation[s].fresh = {} /\ Extent(c, s) = c.kv_length[s]
  BY <1>1, Closed DEF Sound
<1>3. c.page_table[s] \in [Logical -> Pages \cup {Unmapped}]
  BY <1>1, Typed DEF PageMap
<1>4. RestoredMap(c, s) = c.page_table[s]
  BY <1>2, <1>3 DEF RestoredMap
<1> QED
  BY <1>2, <1>4

-----------------------------------------------------------------------------
(* The end of an initializing run.                                         *)

(* The lengths of a context are numbers that fit its slots. *)
LEMMA ContentsTyped ==
  ASSUME content \in [Slots -> Contents], NEW s \in Slots
  PROVE  /\ content[s] \in Contents /\ content[s] \in Seq(Tokens)
         /\ Length(s) \in 0 .. SlotTokenCapacity /\ Length(s) \in Nat
         /\ \A t \in 0 .. Length(s) - 1 : content[s][t + 1] \in Tokens
<1>1. content[s] \in Contents
  OBVIOUS
<1>2. content[s] \in Seq(Tokens) /\ Length(s) \in 0 .. SlotTokenCapacity
  BY <1>1, ContentsFit DEF Length
<1>3. Length(s) \in Nat
  BY <1>2, Sizes
<1>4. ASSUME NEW t \in 0 .. Length(s) - 1
      PROVE  content[s][t + 1] \in Tokens
  <2>1. t + 1 \in 1 .. Length(s)
    BY <1>3
  <2> QED
    BY <1>2, <2>1, ElementOfSeq DEF Length
<1> QED
  BY <1>1, <1>2, <1>3, <1>4

(* Each token of a prompt has its page. *)
LEMMA PromptMapped ==
  ASSUME content \in [Slots -> Contents], Prompted,
         NEW s \in Slots, NEW t \in 0 .. Length(s) - 1
  PROVE  /\ t \div PageTokens \in Logical /\ t % PageTokens \in Offsets
         /\ prepared.page_table[s][t \div PageTokens] \in Pages
         /\ Physical(prepared, s, t) =
              RowIn(prepared.page_table[s][t \div PageTokens], t % PageTokens)
<1>1. Length(s) \in 0 .. SlotTokenCapacity
  BY ContentsTyped
<1>2. t \in 0 .. SlotTokenCapacity - 1 /\ t \in Nat /\ t < Length(s)
  BY <1>1, Sizes
<1> DEFINE l == t \div PageTokens
<1>3. l \in Logical /\ t % PageTokens \in Offsets
  BY <1>2, TokenParts
<1>4. Start(l) < Length(s)
  <2>1. Start(l) + (t % PageTokens) = t
    BY <1>2, TokenParts
  <2>2. Start(l) \in Nat /\ t % PageTokens \in Nat
    BY <1>3, Starts, Sizes DEF Offsets
  <2> HIDE DEF l
  <2> QED
    BY <1>1, <1>2, <2>1, <2>2
<1>5. Sound(prepared) /\ ~Open(prepared, s) /\ prepared.kv_length[s] = Length(s)
  BY DEF Prompted
<1>6. Extent(prepared, s) = Length(s)
  BY <1>5, NothingToRestore
<1>7. prepared.page_table[s][l] # Unmapped
  BY <1>3, <1>4, <1>5, <1>6 DEF Sound, SlotsBacked, Backs
<1>8. prepared \in CacheType
  BY <1>5 DEF Sound
<1>9. prepared.page_table[s][l] \in Pages
  BY <1>3, <1>7, <1>8, Typed DEF PageMap
<1> QED
  BY <1>3, <1>9 DEF Physical, RowAt, RowIn

(* The rows of a prompt are apart: a row of a mapped page is the row of    *)
(* one token only.                                                         *)
LEMMA PromptApart ==
  ASSUME content \in [Slots -> Contents], Prompted,
         NEW s \in Slots, NEW l \in Logical, NEW o \in Offsets,
         prepared.page_table[s][l] # Unmapped,
         NEW q \in Slots, NEW t \in 0 .. Length(q) - 1,
         Physical(prepared, q, t) = RowIn(prepared.page_table[s][l], o)
  PROVE  q = s /\ t = Start(l) + o
<1>1. Sound(prepared) /\ prepared \in CacheType
  BY DEF Prompted, Sound
<1>2. PICK p \in Pages : p = prepared.page_table[s][l]
  BY <1>1, Typed DEF PageMap
<1>3. prepared.ref_count[p] <= 1
  BY DEF Prompted
<1> DEFINE j == t \div PageTokens
           u == t % PageTokens
<1>4. /\ j \in Logical /\ u \in Offsets /\ prepared.page_table[q][j] \in Pages
      /\ Physical(prepared, q, t) = RowIn(prepared.page_table[q][j], u)
  BY PromptMapped
<1>5. j \in Logical /\ Start(j) + u = t
  <2>1. Length(q) \in 0 .. SlotTokenCapacity
    BY ContentsTyped
  <2>2. t \in 0 .. SlotTokenCapacity - 1
    BY <2>1, Sizes
  <2> QED
    BY <2>2, TokenParts
<1> HIDE DEF j, u
<1>6. prepared.page_table[q][j] = p /\ u = o
  <2>1. PICK g \in Pages : g = prepared.page_table[q][j]
    BY <1>4
  <2>2. RowIn(g, u) = RowIn(p, o)
    BY <1>2, <1>4, <2>1
  <2> QED
    BY <1>4, <2>1, <2>2, RowsApart
<1>7. q = s /\ j = l
  BY <1>1, <1>2, <1>3, <1>4, <1>6, OnePlace
<1> QED
  BY <1>5, <1>6, <1>7

(* What is left of the prefill's layout is a token of some prompt, or what *)
(* the prefill computed past its end.                                      *)
LEMMA PrefillTyped ==
  ASSUME content \in [Slots -> Contents], NEW r \in Rows
  PROVE  PrefillRow(r) \in Tokens \cup {Zero, Leftover}
<1> DEFINE s == r \div SlotTokenCapacity
           t == r % SlotTokenCapacity
<1>1. \A b, n, k \in Nat : b > 0 /\ k < n * b => k \div b \in Nat /\ k \div b < n
  <2>1. \A b, k \in Nat : b > 0 => k \div b \in Nat /\ (k \div b) * b <= k
    BY Z3
  <2>2. \A b, q, n \in Nat : b > 0 /\ q * b < n * b => q < n
    BY Z3
  <2>3. \A b, n \in Nat : n * b \in Nat
    BY Z3
  <2> TAKE b, n, k \in Nat
  <2> HAVE b > 0 /\ k < n * b
  <2> DEFINE i == k \div b
             start == i * b
             end == n * b
  <2>4. i \in Nat /\ start <= k
    BY <2>1
  <2> HIDE DEF i
  <2>5. start \in Nat /\ end \in Nat /\ k < end
    BY <2>3, <2>4
  <2> HIDE DEF start, end
  <2>6. start < end
    BY <2>4, <2>5
  <2>7. i < n
    BY <2>2, <2>4, <2>6 DEF start, end
  <2> QED
    BY <2>4, <2>7 DEF i
<1>2. r \in Nat /\ r < NumSlots * SlotTokenCapacity
  <2>1. \A a, b \in Nat : a * b \in Nat
    BY Z3
  <2> DEFINE pool == MaxPages * PageTokens
             layout == NumSlots * SlotTokenCapacity
  <2>2. pool \in Nat /\ layout \in Nat
    BY <2>1, Sizes
  <2>3. pool <= layout
    BY DecodeConstants
  <2>4. r \in 0 .. pool - 1
    BY DEF Rows
  <2> HIDE DEF pool, layout
  <2>5. r \in Nat /\ r < layout
    BY <2>2, <2>3, <2>4
  <2> QED
    BY <2>5 DEF layout
<1>3. s \in Nat /\ s < NumSlots
  BY <1>1, <1>2, Sizes
<1>4. s \in Slots
  BY <1>3, Sizes DEF Slots
<1>5. t \in Nat
  <2>1. \A a, b \in Nat : b > 0 => a % b \in Nat
    BY SMT
  <2> QED
    BY <1>2, <2>1, Sizes
<1>6. PrefillRow(r) = IF t < Len(content[s]) THEN content[s][t + 1] ELSE Leftover
  BY DEF PrefillRow
<1> HIDE DEF s, t
<1>7. \A u \in 0 .. Length(s) - 1 : content[s][u + 1] \in Tokens
  BY <1>4, ContentsTyped
<1>8. Length(s) \in Nat
  BY <1>4, ContentsTyped
<1>9. t < Len(content[s]) => t \in 0 .. Length(s) - 1
  BY <1>5, <1>8 DEF Length
<1> QED
  BY <1>6, <1>7, <1>9

(* The prefill's rows, moved to the pages of the prompt, are the prompt's. *)
LEMMA PromptRepacked ==
  ASSUME content \in [Slots -> Contents], Prompted
  PROVE  /\ Repacked(prepared) \in [Rows -> Tokens \cup {Zero, Leftover}]
         /\ \A s \in Slots : Shows(Repacked(prepared), prepared.page_table[s], content[s])
<1> DEFINE Holds(r, v) == \E s \in Slots : \E t \in 0 .. Length(s) - 1 :
                            Physical(prepared, s, t) = r /\ content[s][t + 1] = v
           Taken1(r) == \E s \in Slots : \E t \in 0 .. Length(s) - 1 : Physical(prepared, s, t) = r
<1>1. \A r \in Rows : Repacked(prepared)[r] =
        IF Taken1(r) THEN CHOOSE v \in Tokens : Holds(r, v) ELSE PrefillRow(r)
  BY DEF Repacked
<1>2. \A r : Taken1(r) => \E v \in Tokens : Holds(r, v)
  BY ContentsTyped
<1>3. \A r : Taken1(r) => LET v == CHOOSE v \in Tokens : Holds(r, v) IN v \in Tokens /\ Holds(r, v)
  BY <1>2
<1>4. Repacked(prepared) \in [Rows -> Tokens \cup {Zero, Leftover}]
  <2>1. \A r \in Rows : Repacked(prepared)[r] \in Tokens \cup {Zero, Leftover}
    BY <1>1, <1>3, PrefillTyped
  <2> QED
    BY <2>1 DEF Repacked
<1>5. prepared \in CacheType
  BY DEF Prompted, Sound
<1>6. \A s \in Slots, l \in Logical, o \in Offsets :
        prepared.page_table[s][l] # Unmapped => RowIn(prepared.page_table[s][l], o) \in Rows
  BY <1>5, Typed, RowParts DEF PageMap
<1> HIDE DEF Holds, Taken1
<1>7. ASSUME NEW s \in Slots, NEW l \in Logical, NEW o \in Offsets, Start(l) + o < Length(s)
      PROVE  /\ prepared.page_table[s][l] # Unmapped
             /\ Repacked(prepared)[RowIn(prepared.page_table[s][l], o)] =
                  content[s][Start(l) + o + 1]
  <2> DEFINE t == Start(l) + o
             r == RowIn(prepared.page_table[s][l], o)
  <2>1. t \in 0 .. Length(s) - 1 /\ t \div PageTokens = l /\ t % PageTokens = o
    <3>1. Length(s) \in Nat /\ t \in Nat
      BY ContentsTyped, TokenParts
    <3>2. t \div PageTokens = l /\ t % PageTokens = o
      BY TokenParts
    <3> HIDE DEF t
    <3> QED
      BY <1>7, <3>1, <3>2 DEF t
  <2> HIDE DEF t
  <2>2. prepared.page_table[s][l] \in Pages /\ Physical(prepared, s, t) = r
    BY <2>1, PromptMapped
  <2>3. prepared.page_table[s][l] # Unmapped
    BY <2>2, Sizes
  <2>4. \A q \in Slots : \A u \in 0 .. Length(q) - 1 :
          Physical(prepared, q, u) = r => q = s /\ u = t
    BY <2>3, PromptApart DEF t
  <2> HIDE DEF r
  <2>5. Taken1(r) /\ \A v : Holds(r, v) => v = content[s][t + 1]
    BY <2>1, <2>2, <2>4 DEF Taken1, Holds
  <2>6. r \in Rows
    BY <1>6, <2>3 DEF r
  <2>7. Repacked(prepared)[r] = content[s][t + 1]
    BY <1>1, <1>3, <2>5, <2>6
  <2> QED
    BY <2>3, <2>7 DEF r, t
<1>8. ASSUME NEW s \in Slots
      PROVE  Shows(Repacked(prepared), prepared.page_table[s], content[s])
  BY <1>7 DEF Shows, Length
<1> QED
  BY <1>4, <1>8

-----------------------------------------------------------------------------
(* Every step keeps the invariant: one lemma for each action.              *)

(* Nothing cached is a value of each variable's type. *)
LEMMA NothingCached ==
  <<>> \in Contents /\ EmptyCache \in CacheType /\ NoCache \in CacheType
<1>1. <<>> \in Seq(Tokens) /\ Len(<<>>) = 0
  BY EmptySeq
<1>2. PICK x \in Seq(Tokens) : Len(x) = 0 /\ x = <<>>
  BY <1>1
<1>3. 0 \in 0 .. SlotTokenCapacity
  BY Sizes
<1>4. x \in Contents
  BY <1>2, <1>3, ContentsFit
<1> QED
  BY <1>2, <1>4, EmptyCacheSound DEF Sound, NoCache

(* A context that was created has nothing cached.                         *)
LEMMA InitKeeps == Init => IInv
<1> SUFFICES ASSUME Init PROVE IInv
  OBVIOUS
<1>1. EmptyCache \in CacheType
  BY NothingCached
<1>2. <<>> \in Contents
  BY NothingCached
<1>3. content \in [Slots -> Contents] /\ saved \in [Keys -> Contents]
  BY <1>2 DEF Init, Blank, NotSaved
<1>4. rows \in [Rows -> Tokens \cup {Zero, Leftover}]
  BY DEF Init
<1>5. TypeOK
  BY <1>1, <1>3, <1>4 DEF Init, TypeOK, NoCache
<1> QED
  BY <1>5 DEF Init, IInv

(* Clearing the tracking leaves the types and the phase it ends in.        *)
LEMMA ClearKeeps ==
  ASSUME TypeOK, ClearTracking, phase' = "closed"
  PROVE  IInv'
<1>1. EmptyCache \in CacheType
  BY NothingCached
<1>2. <<>> \in Contents
  BY NothingCached
<1>3. content' \in [Slots -> Contents] /\ saved' \in [Keys -> Contents]
  BY <1>2 DEF ClearTracking, Blank, NotSaved
<1>4. TypeOK'
  BY <1>1, <1>3 DEF ClearTracking, TypeOK, NoCache
<1> QED
  BY <1>4 DEF IInv

(* Preparing a prompt: one append per slot leaves each slot its prompt,    *)
(* on pages no other slot has.                                             *)
LEMMA InitializeOpenKeeps ==
  ASSUME IInv, InitializeOpen
  PROVE  IInv'
<1>1. prepared = NoCache /\ phase' = "initializing" /\ UNCHANGED <<cache, rows, erase, saved>>
  BY DEF InitializeOpen, IInv
<1>2. PICK prompt \in Prompts : /\ content' = prompt
                                /\ BuiltFor(prompt).ok /\ prepared' = BuiltFor(prompt).cache
  BY <1>1 DEF InitializeOpen
<1>3. prompt \in [Slots -> Contents]
  BY DEF Prompts
<1>4. \A s \in Slots : Len(prompt[s]) \in Nat
  BY <1>3, ContentsFit, Sizes
<1>5. prepared' \in CacheType /\ PromptHeld(prepared', prompt, Turns)
  BY <1>2, <1>4, PromptBuilt
<1>6. \A s \in Slots : s + 1 \in Turns
  BY Sizes DEF Slots, Turns
<1>7. Prompted'
  BY <1>2, <1>5, <1>6 DEF Prompted, PromptHeld, Length
<1>8. TypeOK'
  BY <1>1, <1>2, <1>3, <1>5 DEF IInv, TypeOK
<1> QED
  BY <1>1, <1>7, <1>8 DEF IInv

(* A refused preparation leaves the context as it was created.             *)
LEMMA InitializeRefusedKeeps ==
  ASSUME IInv, InitializeRefused
  PROVE  IInv'
<1>1. NoCache \in CacheType
  BY NothingCached
<1>2. <<>> \in Contents
  BY NothingCached
<1>3. TypeOK'
  BY <1>1, <1>2 DEF IInv, TypeOK, InitializeRefused, SettledPreparation, Blank
<1> QED
  BY <1>3 DEF IInv, InitializeRefused, SettledPreparation

(* Activating the prepared cache moves every row to the page it is mapped  *)
(* to.                                                                     *)
LEMMA InitializeCommitKeeps ==
  ASSUME IInv, InitializeCommit
  PROVE  IInv'
<1>1. Prompted /\ TypeOK /\ content \in [Slots -> Contents]
  BY DEF IInv, InitializeCommit, TypeOK
<1>2. /\ phase' = "ready" /\ cache' = prepared /\ prepared' = NoCache
      /\ rows' = Repacked(prepared) /\ erase' = {} /\ saved' = NotSaved /\ content' = content
  BY DEF InitializeCommit
<1>3. /\ Sound(prepared) /\ LiveKeys(prepared) = {} /\ NoneAhead(prepared)
      /\ \A s \in Slots : prepared.kv_length[s] = Length(s) /\ ~Open(prepared, s)
  BY <1>1 DEF Prompted
<1>4. /\ Repacked(prepared) \in [Rows -> Tokens \cup {Zero, Leftover}]
      /\ \A s \in Slots : Shows(Repacked(prepared), prepared.page_table[s], content[s])
  BY <1>1, PromptRepacked
<1>5. <<>> \in Contents
  BY NothingCached
<1>6. TypeOK'
  <2>1. NoCache \in CacheType
    BY NothingCached
  <2> QED
    BY <1>1, <1>2, <1>4, <1>5, <2>1 DEF TypeOK, NotSaved
<1>7. \A s \in Slots : RestoredMap(prepared, s) = prepared.page_table[s]
  BY <1>3, NothingToRestore
<1>8. Lengths'
  <2>1. \A k \in Keys : ~prepared.prefix[k].live
    BY <1>3 DEF LiveKeys
  <2> QED
    BY <1>2, <1>3, <2>1 DEF Lengths, Length, NotSaved
<1>9. Shown'
  <2>1. ASSUME NEW s \in Slots
        PROVE  AheadZero(Repacked(prepared), prepared.page_table[s], Length(s))
    <3>1. \A l \in Logical : prepared.page_table[s][l] # Unmapped => Start(l) < Length(s)
      BY <1>3 DEF NoneAhead
    <3>2. Length(s) \in Nat /\ \A l \in Logical : Start(l) \in Nat
      BY <1>1, ContentsTyped, Starts, Sizes
    <3> QED
      BY <3>1, <3>2 DEF AheadZero
  <2> QED
    BY <1>2, <1>3, <1>4, <1>7, <2>1 DEF Shown, Length
<1>10. Serving'
  BY <1>2, <1>3, <1>8, <1>9 DEF Serving, ErasesUnused
<1> QED
  BY <1>2, <1>3, <1>6, <1>10 DEF IInv

(* A page that is free is in nobody's restored map and in no live prefix,  *)
(* where nothing is reserved.                                              *)
LEMMA FreeUnused ==
  ASSUME NEW c, Sound(c), \A s \in Slots : ~Open(c, s), NEW p \in c.free
  PROVE  /\ p \in Pages
         /\ \A s \in Slots : p \notin PagesOf(RestoredMap(c, s))
         /\ \A k \in LiveKeys(c) : p \notin PagesOf(c.prefix[k].pages)
<1>1. c \in CacheType /\ Counted(c)
  BY DEF Sound
<1>2. p \in Pages
  BY <1>1, Typed
<1>3. SlotsOn(c, p) = {} /\ PrefixesOn(c, p) = {}
  BY <1>1, <1>2, Unheld
<1>4. \A s \in Slots : p \notin PagesOf(RestoredMap(c, s))
  BY <1>3, NothingToRestore DEF SlotsOn
<1>5. \A k \in LiveKeys(c) : p \notin PagesOf(c.prefix[k].pages)
  BY <1>3 DEF PrefixesOn
<1> QED
  BY <1>2, <1>4, <1>5

(* A step with reservations is ahead of a cache without any: the slots it  *)
(* did not reserve for are as they were.                                   *)
LEMMA GrantExtends ==
  ASSUME NEW c, Sound(c), \A t \in Slots : ~Open(c, t), NEW d, NEW s \in Slots, NEW n,
         Granted(c, d, s, n)
  PROVE  Extends(c, d)
<1>1. c \in CacheType
  BY DEF Sound
<1>2. ASSUME NEW t \in Slots, t # s
      PROVE  RestoredMap(d, t) = c.page_table[t] /\ FreshOwn(c, d, t)
  <2>1. d.page_table[t] = c.page_table[t] /\ d.reservation[t] = c.reservation[t]
    BY <1>2 DEF Granted
  <2>2. RestoredMap(c, t) = c.page_table[t] /\ c.reservation[t].fresh = {}
    BY NothingToRestore
  <2> QED
    BY <2>1, <2>2 DEF RestoredMap, FreshOwn
<1>3. RestoredMap(d, s) = c.page_table[s] /\ FreshOwn(c, d, s)
  BY DEF Granted, FreshOwn
<1> QED
  BY <1>2, <1>3 DEF Granted, Extends

(* Admitting a run: the reservations are granted, or the refused ones are  *)
(* undone; either way the pages taken are to be cleared.                   *)
LEMMA AdmittedServes ==
  ASSUME IInv, phase = "ready", UNCHANGED <<prepared, content, rows, saved>>,
         NEW step \in StepRecords, Sound(step.cache), Extends(cache, step.cache),
         NEW run \in {"reserved", "generating"}, Admitted(step, run)
  PROVE  /\ TypeOK' /\ Serving'
         /\ step.ok => phase' = run /\ cache' = step.cache /\ TakenAlone'
         /\ ~step.ok => IInv'
<1>1. /\ TypeOK /\ Serving /\ \A s \in Slots : ~Open(cache, s)
  BY DEF IInv
<1>2. Sound(cache) /\ Lengths /\ Shown /\ ErasesUnused
  BY <1>1 DEF Serving
<1>3. UNCHANGED <<prepared, content, rows, saved>> /\ phase = "ready"
  OBVIOUS
<1> DEFINE d == step.cache
<1>4. IF step.ok
      THEN cache' = d /\ erase' = Recycled(cache.free \ d.free) /\ phase' = run
      ELSE erase' = Recycled(cache.free) /\ UNCHANGED <<cache, phase>>
  BY DEF Admitted
<1>5. d \in CacheType
  BY DEF Sound
<1>6. ASSUME NEW S, S \subseteq cache.free
      PROVE  /\ Recycled(S) \subseteq Pages
             /\ \A p \in Recycled(S) :
                  /\ \A s \in Slots : p \notin PagesOf(RestoredMap(cache, s))
                  /\ \A k \in LiveKeys(cache) : p \notin PagesOf(cache.prefix[k].pages)
  <2> SUFFICES ASSUME NEW p \in Recycled(S)
               PROVE  /\ p \in Pages
                      /\ \A s \in Slots : p \notin PagesOf(RestoredMap(cache, s))
                      /\ \A k \in LiveKeys(cache) : p \notin PagesOf(cache.prefix[k].pages)
    OBVIOUS
  <2>1. CASE p \in erase
    BY <1>1, <1>2, <2>1 DEF ErasesUnused, TypeOK
  <2>2. CASE p \in cache.free
    BY <1>1, <1>2, <2>2, FreeUnused
  <2> QED
    BY <1>6, <2>1, <2>2 DEF Recycled
<1>7. CASE ~step.ok
  <2>1. erase' = Recycled(cache.free) /\ cache' = cache /\ phase' = phase
    BY <1>4, <1>7
  <2>2. TypeOK'
    BY <1>1, <1>3, <1>6, <2>1 DEF TypeOK
  <2>3. ErasesUnused'
    BY <1>6, <2>1 DEF ErasesUnused
  <2>4. Lengths' /\ Shown' /\ Sound(cache')
    BY <1>2, <1>3, <2>1 DEF Lengths, Shown, Length
  <2>5. Serving'
    BY <2>3, <2>4 DEF Serving
  <2>6. IInv'
    BY <1>1, <1>3, <2>1, <2>2, <2>5 DEF IInv
  <2> QED
    BY <1>7, <2>2, <2>5, <2>6
<1>8. CASE step.ok
  <2>1. cache' = d /\ erase' = Recycled(cache.free \ d.free) /\ phase' = run
    BY <1>4, <1>8
  <2>2. /\ d.kv_length = cache.kv_length /\ d.prefix = cache.prefix
        /\ d.free \subseteq cache.free
        /\ \A t \in Slots : RestoredMap(d, t) = cache.page_table[t] /\ FreshOwn(cache, d, t)
    BY DEF Extends
  <2>3. cache.free \subseteq Pages
    BY <1>1, Typed DEF TypeOK
  <2>4. Sound(d)
    OBVIOUS
  <2> HIDE DEF d
  <2>5. \A t \in Slots : RestoredMap(d, t) = RestoredMap(cache, t)
    BY <1>1, <1>2, <2>2, NothingToRestore
  <2>6. TypeOK'
    BY <1>1, <1>3, <1>5, <1>6, <2>1 DEF TypeOK
  <2>7. ErasesUnused'
    BY <1>6, <2>1, <2>2, <2>5 DEF ErasesUnused, LiveKeys
  <2>8. Lengths' /\ Shown'
    BY <1>2, <1>3, <2>1, <2>2, <2>5 DEF Lengths, Shown, Length, LiveKeys
  <2>9. Serving'
    BY <2>1, <2>4, <2>7, <2>8 DEF Serving
  <2>10. TakenAlone'
    <3> SUFFICES ASSUME NEW t \in Slots, NEW l \in d.reservation[t].fresh
                 PROVE  /\ d.page_table[t][l] # Unmapped
                        /\ d.ref_count[d.page_table[t][l]] = 1
                        /\ ClearOnRecycle => d.page_table[t][l] \in erase'
      BY <2>1 DEF TakenAlone, FreshAlone
    <3>1. /\ d.page_table[t][l] \in cache.free /\ d.page_table[t][l] \notin d.free
          /\ d.ref_count[d.page_table[t][l]] = 1
      BY <2>2 DEF FreshOwn
    <3> QED
      BY <2>1, <2>3, <3>1, Sizes DEF Recycled
  <2> QED
    BY <1>8, <2>1, <2>6, <2>9, <2>10 DEF d
<1> QED
  BY <1>7, <1>8 DEF StepRecords

(* The run of a step.                                                      *)
LEMMA StepOpenKeeps ==
  ASSUME IInv, StepOpen
  PROVE  IInv'
<1>1. /\ TypeOK /\ Serving /\ \A s \in Slots : ~Open(cache, s)
  BY DEF IInv, StepOpen
<1>2. Sound(cache) /\ Lengths
  BY <1>1 DEF Serving
<1>3. UNCHANGED <<prepared, content, rows, saved>> /\ phase = "ready"
  BY DEF StepOpen
<1>4. PICK actions \in [Slots -> {"empty", "advance", "recompute"}] :
        /\ \A s \in Slots : actions[s] \in StepActions(s)
        /\ \E s \in Slots : actions[s] # "empty"
        /\ Admitted(Reserved(actions), "reserved")
  BY DEF StepOpen
<1>5. Quiet
  <2>1. content \in [Slots -> Contents]
    BY <1>1 DEF TypeOK
  <2> QED
    BY <1>1, <1>2, <2>1, ContentsTyped DEF Quiet, Lengths
<1> DEFINE step == Reserved(actions)
           d == step.cache
<1>6. /\ step \in StepRecords /\ Sound(d) /\ Ahead(cache, d)
      /\ step.ok => \A s \in Slots : actions[s] # "empty" => Open(d, s)
  BY <1>4, <1>5, ReservedAhead
<1>7. Admitted(step, "reserved")
  BY <1>4
<1> HIDE DEF step
<1>8. /\ TypeOK' /\ Serving'
      /\ step.ok => phase' = "reserved" /\ cache' = d /\ TakenAlone'
      /\ ~step.ok => IInv'
  BY <1>3, <1>6, <1>7, AdmittedServes DEF Ahead
<1>9. CASE step.ok
  <2>1. cache' = d /\ phase' = "reserved" /\ TakenAlone'
    BY <1>8, <1>9
  <2>2. PICK s \in Slots : Open(d, s)
    BY <1>4, <1>6, <1>9
  <2>3. InStep' # {}
    BY <2>1, <2>2 DEF InStep
  <2>4. \A t \in Slots : Open(d, t) => Aimed(d, t)
    BY <1>6 DEF Ahead
  <2>5. Reserving'
    BY <2>1, <2>3, <2>4 DEF Reserving, InStep
  <2> QED
    BY <1>8, <2>1, <2>5 DEF IInv
<1> QED
  BY <1>6, <1>8, <1>9 DEF StepRecords

(* The only slot of a context that generates. *)
LEMMA OneSlot ==
  ASSUME NumSlots = 1
  PROVE  Slots = {Only} /\ Only \in Slots
BY DEF Slots, Only

(* The run of a generation: its pages are taken from the free ones, and    *)
(* its one slot has a token to follow.                                     *)
LEMMA GenerateOpenKeeps ==
  ASSUME IInv, GenerateOpen
  PROVE  IInv'
<1>1. /\ TypeOK /\ Serving /\ \A s \in Slots : ~Open(cache, s)
  BY DEF IInv, GenerateOpen
<1>2. Sound(cache) /\ Lengths /\ content \in [Slots -> Contents]
  BY <1>1 DEF Serving, TypeOK
<1>3. /\ UNCHANGED <<prepared, content, rows, saved>> /\ phase = "ready"
      /\ NumSlots = 1 /\ Length(Only) >= 1
  BY DEF GenerateOpen
<1>4. Only \in Slots
  BY <1>3, OneSlot
<1>5. cache.kv_length[Only] = Length(Only) /\ Length(Only) \in Nat
  BY <1>2, <1>4, ContentsTyped DEF Lengths
<1>6. PICK n \in 1 .. SlotTokenCapacity - Length(Only) :
        LET tokens == Length(Only) + n - cache.kv_length[Only]
        IN  IF tokens >= 0 /\ ReserveWriteOK(cache, Only, tokens, Length(Only))
            THEN Admitted([ok |-> TRUE, cache |-> ReserveWrite(cache, Only, tokens, Length(Only))],
                          "generating")
            ELSE Admitted([ok |-> FALSE, cache |-> cache], "generating")
  BY DEF GenerateOpen
<1>7. /\ n \in Nat /\ n >= 0 /\ Length(Only) + n - cache.kv_length[Only] = n
      /\ Length(Only) \in 0 .. SlotTokenCapacity - 1
  <2>1. SlotTokenCapacity \in Nat
    BY Sizes
  <2> QED
    BY <1>5, <1>6, <2>1
<1>8. IF ReserveWriteOK(cache, Only, n, Length(Only))
      THEN Admitted([ok |-> TRUE, cache |-> ReserveWrite(cache, Only, n, Length(Only))],
                    "generating")
      ELSE Admitted([ok |-> FALSE, cache |-> cache], "generating")
  BY <1>6, <1>7
<1>9. CASE ~ReserveWriteOK(cache, Only, n, Length(Only))
  <2> DEFINE step == [ok |-> FALSE, cache |-> cache]
  <2>1. step \in StepRecords /\ step.cache = cache /\ step.ok = FALSE
    BY <1>1 DEF StepRecords, TypeOK
  <2>2. Admitted(step, "generating")
    BY <1>8, <1>9
  <2> HIDE DEF step
  <2>3. Extends(cache, cache)
    BY <1>1, <1>2, NothingAhead DEF Ahead
  <2> QED
    BY <1>2, <1>3, <2>1, <2>2, <2>3, AdmittedServes
<1>10. CASE ReserveWriteOK(cache, Only, n, Length(Only))
  <2> DEFINE d == ReserveWrite(cache, Only, n, Length(Only))
             step == [ok |-> TRUE, cache |-> d]
  <2>1. Sound(d)
    BY <1>2, <1>4, <1>7, <1>10, ReserveWriteSound
  <2>2. Granted(cache, d, Only, n)
    BY <1>2, <1>4, <1>7, <1>10, ReserveWriteGrants
  <2>3. Admitted(step, "generating")
    BY <1>8, <1>10
  <2> HIDE DEF d
  <2>4. Extends(cache, d)
    BY <1>1, <1>2, <1>4, <2>2, GrantExtends
  <2>5. step \in StepRecords /\ step.cache = d /\ step.ok
    BY <2>1 DEF StepRecords, Sound
  <2> HIDE DEF step
  <2>6. TypeOK' /\ Serving' /\ phase' = "generating" /\ cache' = d /\ TakenAlone'
    BY <1>3, <2>1, <2>3, <2>4, <2>5, AdmittedServes
  <2>7. Open(d, Only)
    BY <2>2 DEF Granted
  <2>8. Generating'
    BY <1>3, <2>6, <2>7 DEF Generating, Length
  <2> QED
    BY <2>6, <2>8 DEF IInv
<1> QED
  BY <1>9, <1>10

(* A run that is refused after it reserved leaves every slot its map and   *)
(* its length.                                                             *)
LEMMA StepRefusedKeeps ==
  ASSUME IInv, StepRefused
  PROVE  IInv'
<1>1. /\ TypeOK /\ Sound(cache) /\ Lengths /\ Shown /\ ErasesUnused
  BY DEF IInv, StepRefused, Serving
<1>2. UNCHANGED <<prepared, content, rows, erase, saved>> /\ phase' = "ready"
  BY DEF StepRefused
<1> DEFINE d == Rollback(cache, InStep)
<1>3. cache' = d
  BY DEF StepRefused
<1>4. InStep \in SUBSET Slots
  BY DEF InStep
<1>5. Sound(d)
  BY <1>1, <1>4, RollbackSound
<1>6. /\ d.kv_length = cache.kv_length /\ d.prefix = cache.prefix
      /\ d.page_table = [s \in Slots |->
           IF s \in InStep THEN RestoredMap(cache, s) ELSE cache.page_table[s]]
      /\ d.reservation = [s \in Slots |->
           IF s \in InStep THEN NoReservation ELSE cache.reservation[s]]
  <2>1. cache \in CacheType
    BY <1>1 DEF Sound
  <2> DEFINE r == ReleaseMaps(cache, InStep, [s \in InStep |-> FreshMap(cache, s)])
  <2>2. /\ d.ref_count = r.ref_count /\ d.free = r.free /\ d.kv_length = cache.kv_length
        /\ d.slot_generation = cache.slot_generation /\ d.slot_prefix = cache.slot_prefix
        /\ d.prefix = cache.prefix /\ d.older = cache.older
        /\ d.page_table = [s \in Slots |->
             IF s \in InStep THEN RestoredMap(cache, s) ELSE cache.page_table[s]]
        /\ d.reserved_pages = cache.reserved_pages - ReservedBy(cache, InStep)
        /\ d.reservation = [s \in Slots |->
             IF s \in InStep THEN NoReservation ELSE cache.reservation[s]]
    BY <1>4, <2>1, RollbackFields
  <2> QED
    BY <2>2
<1>7. d \in CacheType
  BY <1>5 DEF Sound
<1> HIDE DEF d
<1>8. \A s \in Slots : ~Open(d, s)
  BY <1>6, NothingReserved DEF InStep, Open
<1>9. ASSUME NEW s \in Slots
      PROVE  RestoredMap(d, s) = RestoredMap(cache, s)
  <2>1. RestoredMap(d, s) = d.page_table[s]
    BY <1>5, <1>8, NothingToRestore
  <2>2. CASE s \in InStep
    BY <1>6, <2>1, <2>2
  <2>3. CASE s \notin InStep
    <3>1. RestoredMap(cache, s) = cache.page_table[s]
      BY <1>1, <2>3, NothingToRestore DEF InStep
    <3> QED
      BY <1>6, <2>1, <2>3, <3>1
  <2> QED
    BY <2>2, <2>3
<1>10. TypeOK'
  BY <1>1, <1>2, <1>3, <1>7 DEF TypeOK
<1>11. Lengths' /\ Shown' /\ ErasesUnused'
  BY <1>1, <1>2, <1>3, <1>6, <1>9 DEF Lengths, Shown, ErasesUnused, Length, LiveKeys
<1>12. Serving'
  BY <1>3, <1>5, <1>11 DEF Serving
<1> QED
  BY <1>2, <1>3, <1>8, <1>10, <1>12 DEF IInv

-----------------------------------------------------------------------------
(* The commit of a run: what every row holds once the pages are prepared   *)
(* and the inputs written.                                                 *)

(* The pages that are copied to are those an open run took; a page that is *)
(* held once is copied from where its reservation says, if from anywhere.  *)
LEMMA CopiesExplained ==
  ASSUME Sound(cache), TakenAlone, NEW p \in Pages
  PROVE  /\ \A s \in Slots, l \in Logical :
              cache.page_table[s][l] = p =>
                CopySource(p) = IF l \in cache.reservation[s].fresh
                                   /\ cache.reservation[s].prior[l] # Unmapped
                                THEN {cache.reservation[s].prior[l]} ELSE {}
         /\ (\E k \in LiveKeys(cache) : p \in PagesOf(cache.prefix[k].pages)) =>
              CopySource(p) = {}
<1>1. cache \in CacheType
  BY DEF Sound
<1>2. ASSUME NEW q \in Pages, NEW s \in InStep, NEW l \in Logical,
             cache.page_table[s][l] = p, cache.reservation[s].prior[l] = q
      PROVE  l \in cache.reservation[s].fresh /\ cache.ref_count[p] = 1
  <2>1. s \in Slots /\ cache.reservation[s].prior[l] # Unmapped
    BY <1>2, Sizes DEF InStep
  <2>2. l \in cache.reservation[s].fresh
    BY <2>1 DEF Sound, ReservationsExplained, SourcesKept
  <2> QED
    BY <1>2, <2>1, <2>2 DEF TakenAlone, FreshAlone
<1>3. ASSUME NEW s \in Slots, NEW l \in Logical, cache.page_table[s][l] = p,
             NEW q \in CopySource(p)
      PROVE  /\ q \in Pages /\ l \in cache.reservation[s].fresh
             /\ cache.reservation[s].prior[l] = q
  <2>1. PICK t \in InStep, j \in Logical :
          q \in Pages /\ cache.page_table[t][j] = p /\ cache.reservation[t].prior[j] = q
    BY DEF CopySource
  <2>2. j \in cache.reservation[t].fresh /\ cache.ref_count[p] = 1 /\ t \in Slots
    BY <1>2, <2>1 DEF InStep
  <2>3. cache.ref_count[p] <= 1
    BY <2>2
  <2>4. t = s /\ j = l
    BY <1>3, <2>1, <2>2, <2>3, OnePlace
  <2> QED
    BY <2>1, <2>2, <2>4
<1>4. ASSUME NEW s \in Slots, NEW l \in Logical, cache.page_table[s][l] = p
      PROVE  CopySource(p) = IF l \in cache.reservation[s].fresh
                                /\ cache.reservation[s].prior[l] # Unmapped
                             THEN {cache.reservation[s].prior[l]} ELSE {}
  <2>1. CASE l \in cache.reservation[s].fresh /\ cache.reservation[s].prior[l] # Unmapped
    <3>1. PICK q \in Pages : q = cache.reservation[s].prior[l]
      BY <1>1, <2>1, Typed DEF PageMap
    <3>2. Open(cache, s)
      <4>1. CASE ~Open(cache, s)
        BY <1>1, <2>1, <4>1, Closed DEF Sound
      <4> QED
        BY <4>1
    <3>3. s \in InStep
      BY <3>2 DEF InStep
    <3>4. q \in CopySource(p)
      BY <1>4, <3>1, <3>3 DEF CopySource
    <3>5. CopySource(p) = {q}
      BY <1>3, <1>4, <3>1, <3>4
    <3> QED
      BY <2>1, <3>1, <3>5
  <2>2. CASE ~(l \in cache.reservation[s].fresh /\ cache.reservation[s].prior[l] # Unmapped)
    <3>1. \A q \in CopySource(p) : FALSE
      BY <1>3, <1>4, <2>2, Sizes
    <3> QED
      BY <2>2, <3>1
  <2> QED
    BY <2>1, <2>2
<1>5. ASSUME NEW k \in LiveKeys(cache), p \in PagesOf(cache.prefix[k].pages)
      PROVE  CopySource(p) = {}
  <2>1. SUFFICES ASSUME NEW q \in CopySource(p) PROVE FALSE
    OBVIOUS
  <2>2. PICK t \in InStep, j \in Logical :
          q \in Pages /\ cache.page_table[t][j] = p /\ cache.reservation[t].prior[j] = q
    BY <2>1 DEF CopySource
  <2>3. cache.ref_count[p] = 1 /\ t \in Slots
    BY <1>2, <2>2 DEF InStep
  <2>4. cache.ref_count[p] <= 1
    BY <2>3
  <2> QED
    BY <1>5, <2>2, <2>3, <2>4, OnePlace
<1> QED
  BY <1>4, <1>5

(* Prepared, every page shows what its slot had there before, and a page   *)
(* that is new to its slot nothing, if pages are cleared at all.           *)
LEMMA PreparedShows ==
  ASSUME Sound(cache), ErasesUnused, TakenAlone, NEW o \in Offsets
  PROVE  /\ \A s \in Slots, l \in Logical : cache.page_table[s][l] # Unmapped =>
              /\ RestoredMap(cache, s)[l] # Unmapped =>
                   PreparedRows[RowIn(cache.page_table[s][l], o)] =
                     rows[RowIn(RestoredMap(cache, s)[l], o)]
              /\ RestoredMap(cache, s)[l] = Unmapped /\ ClearOnRecycle =>
                   PreparedRows[RowIn(cache.page_table[s][l], o)] = Zero
         /\ \A k \in LiveKeys(cache), l \in Logical : cache.prefix[k].pages[l] # Unmapped =>
              PreparedRows[RowIn(cache.prefix[k].pages[l], o)] =
                rows[RowIn(cache.prefix[k].pages[l], o)]
<1>1. cache \in CacheType
  BY DEF Sound
<1>2. \A p \in Pages : RowIn(p, o) \in Rows /\ RowIn(p, o) \div PageTokens = p
                       /\ Offset(RowIn(p, o)) = o
  BY RowParts
<1>3. \A p \in Pages : Flushed(rows)[RowIn(p, o)] = IF p \in erase THEN Zero ELSE rows[RowIn(p, o)]
  BY <1>2 DEF Flushed
<1>4. \A p \in Pages : PreparedRows[RowIn(p, o)] =
        IF CopySource(p) = {} THEN Flushed(rows)[RowIn(p, o)]
        ELSE Flushed(rows)[RowIn(CHOOSE q \in CopySource(p) : TRUE, o)]
  BY <1>2 DEF PreparedRows, Copied, RowIn
<1>5. \A s \in Slots, l \in Logical : RestoredMap(cache, s)[l] =
        IF l \in cache.reservation[s].fresh THEN cache.reservation[s].prior[l]
        ELSE cache.page_table[s][l]
  BY DEF RestoredMap
<1>6. \A s \in Slots, l \in Logical, q \in Pages :
        RestoredMap(cache, s)[l] = q => q \notin erase
  BY InMap DEF ErasesUnused
<1>7. ASSUME NEW s \in Slots, NEW l \in Logical, cache.page_table[s][l] # Unmapped
      PROVE  /\ RestoredMap(cache, s)[l] # Unmapped =>
                  PreparedRows[RowIn(cache.page_table[s][l], o)] =
                    rows[RowIn(RestoredMap(cache, s)[l], o)]
             /\ RestoredMap(cache, s)[l] = Unmapped /\ ClearOnRecycle =>
                  PreparedRows[RowIn(cache.page_table[s][l], o)] = Zero
  <2>1. PICK p \in Pages : p = cache.page_table[s][l]
    BY <1>1, <1>7, Typed DEF PageMap
  <2>2. CopySource(p) = IF l \in cache.reservation[s].fresh
                           /\ cache.reservation[s].prior[l] # Unmapped
                        THEN {cache.reservation[s].prior[l]} ELSE {}
    BY <2>1, CopiesExplained
  <2>3. CASE l \notin cache.reservation[s].fresh
    <3>1. RestoredMap(cache, s)[l] = p /\ p \notin erase /\ CopySource(p) = {}
      BY <1>5, <1>6, <2>1, <2>2, <2>3
    <3>2. PreparedRows[RowIn(p, o)] = rows[RowIn(p, o)]
      BY <1>3, <1>4, <3>1
    <3> QED
      BY <1>7, <2>1, <3>1, <3>2
  <2>4. CASE l \in cache.reservation[s].fresh /\ cache.reservation[s].prior[l] # Unmapped
    <3>1. PICK q \in Pages : q = cache.reservation[s].prior[l]
      BY <1>1, <2>4, Typed DEF PageMap
    <3>2. RestoredMap(cache, s)[l] = q /\ q \notin erase /\ CopySource(p) = {q}
      BY <1>5, <1>6, <2>2, <2>4, <3>1
    <3>3. (CHOOSE x \in CopySource(p) : TRUE) = q
      BY <3>2
    <3>4. PreparedRows[RowIn(p, o)] = Flushed(rows)[RowIn(q, o)]
      BY <1>4, <3>2, <3>3
    <3>5. PreparedRows[RowIn(p, o)] = rows[RowIn(q, o)]
      BY <1>3, <3>2, <3>4
    <3> QED
      BY <2>1, <2>4, <3>1, <3>2, <3>5
  <2>5. CASE l \in cache.reservation[s].fresh /\ cache.reservation[s].prior[l] = Unmapped
    <3>1. RestoredMap(cache, s)[l] = Unmapped /\ CopySource(p) = {}
      BY <1>5, <2>2, <2>5
    <3>2. ClearOnRecycle => p \in erase
      BY <2>1, <2>5 DEF TakenAlone, FreshAlone
    <3>3. ClearOnRecycle => PreparedRows[RowIn(p, o)] = Zero
      BY <1>3, <1>4, <3>1, <3>2
    <3> QED
      BY <2>1, <3>1, <3>3
  <2> QED
    BY <2>3, <2>4, <2>5
<1>8. ASSUME NEW k \in LiveKeys(cache), NEW l \in Logical, cache.prefix[k].pages[l] # Unmapped
      PROVE  PreparedRows[RowIn(cache.prefix[k].pages[l], o)] =
               rows[RowIn(cache.prefix[k].pages[l], o)]
  <2>1. k \in Keys
    BY DEF LiveKeys
  <2>2. PICK p \in Pages : p = cache.prefix[k].pages[l]
    BY <1>1, <1>8, <2>1, Typed DEF PageMap
  <2>3. p \in PagesOf(cache.prefix[k].pages)
    BY <2>2, InMap
  <2>4. p \notin erase /\ CopySource(p) = {}
    BY <2>3, CopiesExplained DEF ErasesUnused
  <2>5. PreparedRows[RowIn(p, o)] = rows[RowIn(p, o)]
    BY <1>3, <1>4, <2>4
  <2> QED
    BY <2>2, <2>5
<1> QED
  BY <1>7, <1>8

(* The rows after the inputs of a step were written. *)
Written(input) ==
  [r \in Rows |->
    IF \E s \in InStep : Physical(cache, s, Position(s)) = r
    THEN input[CHOOSE s \in InStep : Physical(cache, s, Position(s)) = r]
    ELSE PreparedRows[r]]

(* A step writes one row for each of its slots, in a page of its own. *)
LEMMA WritesOwn ==
  ASSUME Sound(cache), Reserving, NEW input, NEW o \in Offsets
  PROVE  /\ \A s \in Slots, l \in Logical : cache.page_table[s][l] # Unmapped =>
              Written(input)[RowIn(cache.page_table[s][l], o)] =
                IF s \in InStep /\ Start(l) + o = Position(s) THEN input[s]
                ELSE PreparedRows[RowIn(cache.page_table[s][l], o)]
         /\ \A k \in LiveKeys(cache), l \in Logical : cache.prefix[k].pages[l] # Unmapped =>
              Written(input)[RowIn(cache.prefix[k].pages[l], o)] =
                PreparedRows[RowIn(cache.prefix[k].pages[l], o)]
<1>1. cache \in CacheType
  BY DEF Sound
<1> DEFINE L(t) == Position(t) \div PageTokens
           U(t) == Position(t) % PageTokens
<1>2. ASSUME NEW t \in InStep
      PROVE  /\ t \in Slots /\ L(t) \in Logical /\ U(t) \in Offsets
             /\ Start(L(t)) + U(t) = Position(t)
             /\ cache.page_table[t][L(t)] \in Pages
             /\ cache.ref_count[cache.page_table[t][L(t)]] = 1
             /\ Physical(cache, t, Position(t)) = RowIn(cache.page_table[t][L(t)], U(t))
  <2>1. t \in Slots /\ Aimed(cache, t) /\ Position(t) = Aim(cache, t)
    BY DEF InStep, Reserving, Position, Aim
  <2>2. Position(t) \in 0 .. SlotTokenCapacity - 1
    BY <2>1 DEF Aimed
  <2>3. L(t) \in Logical /\ U(t) \in Offsets /\ Start(L(t)) + U(t) = Position(t)
    BY <2>2, TokenParts
  <2>4. /\ cache.page_table[t][L(t)] # Unmapped
        /\ cache.ref_count[cache.page_table[t][L(t)]] = 1
    BY <2>1 DEF Aimed
  <2>5. Physical(cache, t, Position(t)) = RowIn(cache.page_table[t][L(t)], U(t))
    BY DEF Physical, RowAt, RowIn
  <2> HIDE DEF L, U
  <2>6. cache.page_table[t][L(t)] \in Pages
    BY <1>1, <2>1, <2>3, <2>4, Typed DEF PageMap
  <2> QED
    BY <2>1, <2>3, <2>4, <2>5, <2>6
<1> HIDE DEF L, U
<1>3. \A p \in Pages : RowIn(p, o) \in Rows
  BY RowParts
<1>4. ASSUME NEW p \in Pages, NEW t \in InStep, Physical(cache, t, Position(t)) = RowIn(p, o)
      PROVE  cache.page_table[t][L(t)] = p /\ U(t) = o /\ cache.ref_count[p] = 1
  <2>1. PICK q \in Pages : q = cache.page_table[t][L(t)]
    BY <1>2
  <2>2. RowIn(q, U(t)) = RowIn(p, o) /\ U(t) \in Offsets
    BY <1>2, <1>4, <2>1
  <2>3. q = p /\ U(t) = o
    BY <2>2, RowsApart
  <2> QED
    BY <1>2, <2>1, <2>3
<1>5. ASSUME NEW s \in Slots, NEW l \in Logical, cache.page_table[s][l] # Unmapped
      PROVE  Written(input)[RowIn(cache.page_table[s][l], o)] =
               IF s \in InStep /\ Start(l) + o = Position(s) THEN input[s]
               ELSE PreparedRows[RowIn(cache.page_table[s][l], o)]
  <2>1. PICK p \in Pages : p = cache.page_table[s][l]
    BY <1>1, <1>5, Typed DEF PageMap
  <2>2. ASSUME NEW t \in InStep, Physical(cache, t, Position(t)) = RowIn(p, o)
        PROVE  t = s /\ Start(l) + o = Position(s)
    <3>1. cache.page_table[t][L(t)] = p /\ U(t) = o /\ cache.ref_count[p] = 1
      BY <1>4, <2>2
    <3>2. cache.ref_count[p] <= 1 /\ t \in Slots /\ L(t) \in Logical
      BY <1>2, <3>1
    <3>3. t = s /\ L(t) = l
      BY <2>1, <3>1, <3>2, OnePlace
    <3> QED
      BY <1>2, <3>1, <3>3
  <2>3. ASSUME s \in InStep, Start(l) + o = Position(s)
        PROVE  Physical(cache, s, Position(s)) = RowIn(p, o)
    <3>1. L(s) = l /\ U(s) = o
      BY <2>3, TokenParts DEF L, U
    <3> QED
      BY <1>2, <2>1, <2>3, <3>1
  <2>4. RowIn(p, o) \in Rows
    BY <1>3
  <2> DEFINE r == RowIn(p, o)
  <2> HIDE DEF r
  <2>5. CASE s \in InStep /\ Start(l) + o = Position(s)
    <3>1. Physical(cache, s, Position(s)) = r
      BY <2>3, <2>5 DEF r
    <3>2. (CHOOSE t \in InStep : Physical(cache, t, Position(t)) = r) = s
      BY <2>2, <2>5, <3>1 DEF r
    <3>3. Written(input)[r] = input[s]
      BY <2>4, <2>5, <3>1, <3>2 DEF Written, r
    <3> QED
      BY <2>1, <2>5, <3>3 DEF r
  <2>6. CASE ~(s \in InStep /\ Start(l) + o = Position(s))
    <3>1. ~ \E t \in InStep : Physical(cache, t, Position(t)) = r
      BY <2>2, <2>6 DEF r
    <3>2. Written(input)[r] = PreparedRows[r]
      BY <2>4, <3>1 DEF Written, r
    <3> QED
      BY <2>1, <2>6, <3>2 DEF r
  <2> QED
    BY <2>5, <2>6
<1>6. ASSUME NEW k \in LiveKeys(cache), NEW l \in Logical, cache.prefix[k].pages[l] # Unmapped
      PROVE  Written(input)[RowIn(cache.prefix[k].pages[l], o)] =
               PreparedRows[RowIn(cache.prefix[k].pages[l], o)]
  <2>1. k \in Keys
    BY DEF LiveKeys
  <2>2. PICK p \in Pages : p = cache.prefix[k].pages[l]
    BY <1>1, <1>6, <2>1, Typed DEF PageMap
  <2>3. p \in PagesOf(cache.prefix[k].pages)
    BY <2>2, InMap
  <2>4. ASSUME NEW t \in InStep, Physical(cache, t, Position(t)) = RowIn(p, o) PROVE FALSE
    <3>1. cache.page_table[t][L(t)] = p /\ cache.ref_count[p] = 1
      BY <1>4, <2>4
    <3>2. cache.ref_count[p] <= 1 /\ t \in Slots /\ L(t) \in Logical
      BY <1>2, <3>1
    <3> QED
      BY <2>3, <3>1, <3>2, OnePlace
  <2>5. RowIn(p, o) \in Rows
    BY <1>3
  <2>6. Written(input)[RowIn(p, o)] = PreparedRows[RowIn(p, o)]
    BY <2>4, <2>5 DEF Written
  <2> QED
    BY <2>2, <2>6
<1> QED
  BY <1>5, <1>6

(* The first tokens of a content, alone or before one more token. *)
LEMMA FirstTokens ==
  ASSUME NEW x \in Contents, NEW n \in 0 .. Len(x)
  PROVE  /\ SubSeq(x, 1, n) \in Contents /\ Len(SubSeq(x, 1, n)) = n
         /\ \A i \in 1 .. n : SubSeq(x, 1, n)[i] = x[i]
<1>1. x \in Seq(Tokens) /\ Len(x) \in 0 .. SlotTokenCapacity
  BY ContentsFit
<1>2. n \in Nat /\ 1 \in Int /\ n \in Int /\ n - 1 + 1 = n
  BY <1>1, Sizes
<1>3. \A i \in 1 .. n : x[i] \in Tokens
  <2> TAKE i \in 1 .. n
  <2>1. i \in 1 .. Len(x)
    BY <1>1, Sizes
  <2> QED
    BY <1>1, <2>1, ElementOfSeq
<1> DEFINE y == SubSeq(x, 1, n)
<1>4. /\ y \in Seq(Tokens)
      /\ Len(y) = IF 1 <= n THEN n - 1 + 1 ELSE 0
      /\ \A i \in 1 .. n - 1 + 1 : y[i] = x[1 + i - 1]
  BY <1>2, <1>3, SubSeqProperties
<1> HIDE DEF y
<1>5. Len(y) = n
  BY <1>2, <1>4
<1>6. \A i \in 1 .. n : y[i] = x[i]
  BY <1>2, <1>4
<1>7. n \in 0 .. SlotTokenCapacity
  BY <1>1, Sizes
<1>8. y \in Contents
  BY <1>4, <1>5, <1>7, ContentsFit
<1> QED
  BY <1>5, <1>6, <1>8 DEF y

(* A step keeps a head of a slot's tokens and appends one.                 *)
LEMMA OneMoreToken ==
  ASSUME NEW x \in Contents, NEW n \in 0 .. Len(x), n < SlotTokenCapacity, NEW v \in Tokens
  PROVE  LET y == SubSeq(x, 1, n) \o <<v>>
         IN  /\ y \in Contents /\ Len(y) = n + 1 /\ y[n + 1] = v
             /\ \A i \in 1 .. n : y[i] = x[i]
<1> DEFINE head == SubSeq(x, 1, n)
           last == <<v>>
           y == head \o last
<1>1. head \in Contents /\ Len(head) = n /\ \A i \in 1 .. n : head[i] = x[i]
  BY FirstTokens
<1>2. head \in Seq(Tokens) /\ last \in Seq(Tokens) /\ Len(last) = 1 /\ last[1] = v
  BY <1>1, ContentsFit
<1>3. n \in Nat
  BY ContentsFit, Sizes
<1> HIDE DEF head, last
<1>4. /\ y \in Seq(Tokens) /\ Len(y) = Len(head) + Len(last)
      /\ \A i \in 1 .. Len(head) + Len(last) :
           y[i] = IF i <= Len(head) THEN head[i] ELSE last[i - Len(head)]
  BY <1>2, ConcatProperties
<1> HIDE DEF y
<1>5. /\ Len(y) = n + 1 /\ \A i \in 1 .. n + 1 : y[i] = IF i <= n THEN head[i] ELSE last[i - n]
  BY <1>1, <1>2, <1>4
<1>6. y[n + 1] = v
  BY <1>2, <1>3, <1>5
<1>7. \A i \in 1 .. n : y[i] = x[i]
  BY <1>1, <1>3, <1>5
<1>8. n + 1 \in 0 .. SlotTokenCapacity
  BY <1>3, Sizes
<1>9. y \in Contents
  BY <1>4, <1>5, <1>8, ContentsFit
<1> QED
  BY <1>5, <1>6, <1>7, <1>9 DEF y, head, last

(* Rows hold what rows may hold, cleared, copied and written. *)
LEMMA RowsTyped ==
  ASSUME rows \in [Rows -> Tokens \cup {Zero, Leftover}]
  PROVE  /\ Flushed(rows) \in [Rows -> Tokens \cup {Zero, Leftover}]
         /\ PreparedRows \in [Rows -> Tokens \cup {Zero, Leftover}]
         /\ \A input \in [InStep -> Tokens] :
              Written(input) \in [Rows -> Tokens \cup {Zero, Leftover}]
<1>1. Flushed(rows) \in [Rows -> Tokens \cup {Zero, Leftover}]
  BY DEF Flushed
<1> DEFINE data == Flushed(rows)
<1> HIDE DEF data
<1>2. ASSUME NEW r \in Rows
      PROVE  Copied(data)[r] \in Tokens \cup {Zero, Leftover}
  <2> DEFINE source == CopySource(r \div PageTokens)
  <2>1. CASE source = {}
    BY <1>1, <2>1 DEF Copied, data
  <2>2. CASE source # {}
    <3>1. PICK q \in Pages : q = CHOOSE x \in source : TRUE
      <4>1. source \subseteq Pages
        BY DEF CopySource
      <4> HIDE DEF source
      <4> QED
        BY <2>2, <4>1
    <3>2. Offset(r) \in Offsets
      BY RowParts
    <3>3. q * PageTokens + Offset(r) \in Rows
      BY <3>2, RowParts DEF RowIn
    <3>4. Copied(data)[r] = data[q * PageTokens + Offset(r)]
      BY <2>2, <3>1 DEF Copied
    <3> QED
      BY <1>1, <3>3, <3>4 DEF data
  <2> QED
    BY <2>1, <2>2
<1>3. \A r \in Rows : PreparedRows[r] \in Tokens \cup {Zero, Leftover}
  BY <1>2 DEF PreparedRows, data
<1>4. ASSUME NEW input \in [InStep -> Tokens]
      PROVE  Written(input) \in [Rows -> Tokens \cup {Zero, Leftover}]
  <2>1. \A r \in Rows : Written(input)[r] \in Tokens \cup {Zero, Leftover}
    BY <1>3 DEF Written
  <2> QED
    BY <2>1 DEF Written
<1>5. PreparedRows \in [Rows -> Tokens \cup {Zero, Leftover}]
  BY <1>3 DEF PreparedRows, Copied
<1> QED
  BY <1>1, <1>4, <1>5

(* Where an open run writes: behind or at the end of what is committed.    *)
LEMMA WritesNext ==
  ASSUME content \in [Slots -> Contents], Sound(cache), Lengths, Reserving, NEW s \in InStep
  PROVE  /\ s \in Slots /\ Position(s) \in 0 .. Length(s) /\ Position(s) < SlotTokenCapacity
         /\ Position(s) + 1 = Extent(cache, s)
<1>1. s \in Slots /\ Aimed(cache, s) /\ Position(s) = Aim(cache, s)
  BY DEF InStep, Reserving, Position, Aim
<1>2. cache.reservation[s].tokens \in {0, 1} /\ Position(s) \in 0 .. SlotTokenCapacity - 1
  BY <1>1 DEF Aimed
<1>3. cache.kv_length[s] = Length(s) /\ Length(s) \in Nat
  BY <1>1, ContentsTyped DEF Lengths
<1>4. Position(s) = cache.kv_length[s] + cache.reservation[s].tokens - 1
  BY DEF Position
<1>5. Position(s) \in 0 .. Length(s)
  BY <1>2, <1>3, <1>4, Sizes
<1>6. Position(s) < SlotTokenCapacity
  BY <1>2, Sizes
<1>7. Position(s) + 1 = Extent(cache, s)
  BY <1>2, <1>3, <1>4 DEF Extent
<1> QED
  BY <1>1, <1>5, <1>6, <1>7

(* The contents of a slot after a step: one more token, or the last one    *)
(* replaced, and nothing else changed.                                     *)
StepContent(input, s) ==
  IF s \in InStep THEN SubSeq(content[s], 1, Position(s)) \o <<input[s]>> ELSE content[s]
Stepped(x, input, s) ==
  /\ x \in Contents /\ Len(x) = Extent(cache, s) /\ Len(x) \in Nat
  /\ Len(content[s]) <= Len(x)
  /\ s \in InStep => Len(x) = Position(s) + 1 /\ x[Position(s) + 1] = input[s]
  /\ \A i \in 1 .. Len(x) : \/ s \in InStep /\ i - 1 = Position(s)
                            \/ i <= Len(content[s]) /\ x[i] = content[s][i]

(* What a committed step makes of the tokens of any slot.                  *)
LEMMA StepContents ==
  ASSUME content \in [Slots -> Contents], Sound(cache), Lengths, Reserving,
         NEW input \in [InStep -> Tokens], NEW s \in Slots
  PROVE  Stepped(StepContent(input, s), input, s)
<1>1. /\ cache.kv_length[s] = Length(s) /\ Length(s) \in Nat /\ content[s] \in Contents
      /\ Length(s) = Len(content[s])
  BY ContentsTyped DEF Lengths, Length
<1>2. CASE s \in InStep
  <2>1. /\ Position(s) \in 0 .. Len(content[s]) /\ Position(s) < SlotTokenCapacity
        /\ Position(s) + 1 = Extent(cache, s)
    BY <1>1, <1>2, WritesNext
  <2>2. input[s] \in Tokens
    BY <1>2
  <2>3. PICK n, v : n = Position(s) /\ v = input[s]
    OBVIOUS
  <2>4. /\ n \in 0 .. Len(content[s]) /\ n < SlotTokenCapacity /\ v \in Tokens
        /\ n + 1 = Extent(cache, s)
    BY <2>1, <2>2, <2>3
  <2> DEFINE x == SubSeq(content[s], 1, n) \o <<v>>
  <2>5. /\ x \in Contents /\ Len(x) = n + 1 /\ x[n + 1] = v
        /\ \A i \in 1 .. n : x[i] = content[s][i]
    BY <1>1, <2>4, OneMoreToken
  <2>6. StepContent(input, s) = x
    BY <1>2, <2>3 DEF StepContent
  <2> HIDE DEF x
  <2>7. n \in Nat /\ n <= Len(content[s]) /\ Len(content[s]) <= n + 1
    <3>1. cache.reservation[s].tokens \in Nat
      BY Typed DEF Sound
    <3> QED
      BY <1>1, <2>4, <3>1 DEF Extent
  <2>8. \A i \in 1 .. Len(x) : i - 1 = n \/ (i <= Len(content[s]) /\ x[i] = content[s][i])
    <3> TAKE i \in 1 .. Len(x)
    <3>1. i \in Nat /\ (i = n + 1 \/ i \in 1 .. n)
      BY <2>5, <2>7
    <3>2. CASE i = n + 1
      <4>1. i - 1 = n
        BY <2>7, <3>2
      <4> QED
        BY <4>1
    <3>3. CASE i \in 1 .. n
      <4>1. x[i] = content[s][i]
        BY <2>5, <3>3
      <4>2. i <= Len(content[s])
        BY <1>1, <2>7, <3>3
      <4> QED
        BY <4>1, <4>2
    <3> QED
      BY <3>1, <3>2, <3>3
  <2> QED
    BY <1>2, <2>3, <2>4, <2>5, <2>6, <2>7, <2>8 DEF Stepped
<1>3. CASE s \notin InStep
  <2>1. StepContent(input, s) = content[s] /\ Extent(cache, s) = cache.kv_length[s]
    BY <1>3, NothingToRestore DEF InStep, StepContent
  <2> QED
    BY <1>1, <1>3, <2>1 DEF Stepped
<1> QED
  BY <1>2, <1>3

(* What a slot shows once a step is written. *)
LEMMA StepShows ==
  ASSUME content \in [Slots -> Contents], Serving, Reserving, NEW input \in [InStep -> Tokens],
         NEW s \in Slots, NEW x, Stepped(x, input, s)
  PROVE  /\ Shows(Written(input), cache.page_table[s], x)
         /\ ClearOnRecycle => AheadZero(Written(input), cache.page_table[s], Len(x))
<1>1. Sound(cache) /\ Lengths /\ Shown /\ ErasesUnused /\ TakenAlone
  BY DEF Serving, Reserving
<1>2. /\ cache.kv_length[s] = Length(s) /\ Length(s) \in Nat /\ content[s] \in Contents
      /\ Length(s) = Len(content[s])
  BY <1>1, ContentsTyped DEF Lengths, Length
<1>3. Shows(rows, RestoredMap(cache, s), content[s])
  BY <1>1 DEF Shown
<1>4. ClearOnRecycle => AheadZero(rows, RestoredMap(cache, s), Length(s))
  BY <1>1 DEF Shown
<1>5. /\ x \in Contents /\ Len(x) = Extent(cache, s) /\ Len(x) \in Nat
      /\ Len(content[s]) <= Len(x)
      /\ s \in InStep => Len(x) = Position(s) + 1 /\ x[Position(s) + 1] = input[s]
      /\ \A i \in 1 .. Len(x) : \/ s \in InStep /\ i - 1 = Position(s)
                                \/ i <= Len(content[s]) /\ x[i] = content[s][i]
  BY DEF Stepped
<1>6. \A l \in Logical : Start(l) < Len(x) => cache.page_table[s][l] # Unmapped
  BY <1>1, <1>5 DEF Sound, SlotsBacked, Backs
<1>7. ASSUME NEW l \in Logical, NEW o \in Offsets, Start(l) + o < Len(x)
      PROVE  /\ cache.page_table[s][l] # Unmapped
             /\ Written(input)[RowIn(cache.page_table[s][l], o)] = x[Start(l) + o + 1]
  <2> DEFINE t == Start(l) + o
  <2>1. t \in Nat /\ t < Len(x) /\ Start(l) <= t
    <3>1. Start(l) \in Nat /\ o \in Nat
      BY Starts, Sizes DEF Offsets
    <3> QED
      BY <1>7, <3>1
  <2>2. cache.page_table[s][l] # Unmapped
    <3>1. Start(l) \in Nat
      BY Starts, Sizes
    <3> QED
      BY <1>5, <1>6, <2>1, <3>1
  <2>3. Written(input)[RowIn(cache.page_table[s][l], o)] =
          IF s \in InStep /\ t = Position(s) THEN input[s]
          ELSE PreparedRows[RowIn(cache.page_table[s][l], o)]
    BY <1>1, <2>2, WritesOwn
  <2>4. RestoredMap(cache, s)[l] # Unmapped =>
          PreparedRows[RowIn(cache.page_table[s][l], o)] = rows[RowIn(RestoredMap(cache, s)[l], o)]
    BY <1>1, <2>2, PreparedShows
  <2>5. t < Len(content[s]) =>
          RestoredMap(cache, s)[l] # Unmapped
          /\ rows[RowIn(RestoredMap(cache, s)[l], o)] = content[s][t + 1]
    BY <1>3 DEF Shows
  <2> HIDE DEF t
  <2>6. t + 1 \in 1 .. Len(x) /\ t + 1 - 1 = t
    BY <1>5, <2>1
  <2>7. CASE s \in InStep /\ t = Position(s)
    BY <1>5, <2>2, <2>3, <2>7 DEF t
  <2>8. CASE ~(s \in InStep /\ t = Position(s))
    <3>1. t + 1 <= Len(content[s]) /\ x[t + 1] = content[s][t + 1]
      <4>1. PICK i \in 1 .. Len(x) : i = t + 1
        BY <2>6
      <4>3. i - 1 = t
        BY <2>1, <4>1
      <4>2. \/ s \in InStep /\ i - 1 = Position(s)
            \/ i <= Len(content[s]) /\ x[i] = content[s][i]
        BY <1>5
      <4> QED
        BY <2>8, <4>1, <4>2, <4>3
    <3>2. t < Len(content[s])
      BY <1>2, <2>1, <3>1
    <3> QED
      BY <2>2, <2>3, <2>4, <2>5, <2>8, <3>1, <3>2 DEF t
  <2> QED
    BY <2>7, <2>8
<1>8. ASSUME ClearOnRecycle, NEW l \in Logical, NEW o \in Offsets,
             cache.page_table[s][l] # Unmapped, Start(l) >= Len(x)
      PROVE  Written(input)[RowIn(cache.page_table[s][l], o)] = Zero
  <2> DEFINE t == Start(l) + o
  <2>1. Start(l) \in Nat /\ t \in Nat /\ t >= Start(l)
    <3>1. Start(l) \in Nat /\ o \in Nat
      BY Starts, Sizes DEF Offsets
    <3> QED
      BY <3>1
  <2>2. Written(input)[RowIn(cache.page_table[s][l], o)] =
          IF s \in InStep /\ t = Position(s) THEN input[s]
          ELSE PreparedRows[RowIn(cache.page_table[s][l], o)]
    BY <1>1, <1>8, WritesOwn
  <2>3. /\ RestoredMap(cache, s)[l] # Unmapped =>
             PreparedRows[RowIn(cache.page_table[s][l], o)] =
               rows[RowIn(RestoredMap(cache, s)[l], o)]
        /\ RestoredMap(cache, s)[l] = Unmapped =>
             PreparedRows[RowIn(cache.page_table[s][l], o)] = Zero
    BY <1>1, <1>8, PreparedShows
  <2> HIDE DEF t
  <2>4. ~(s \in InStep /\ t = Position(s)) /\ Start(l) >= Length(s)
    <3>1. s \in InStep => Len(x) = Position(s) + 1 /\ Position(s) \in Nat
      BY <1>1, <1>2, <1>5, WritesNext
    <3> QED
      BY <1>2, <1>5, <1>8, <2>1, <3>1
  <2>5. RestoredMap(cache, s)[l] # Unmapped => rows[RowIn(RestoredMap(cache, s)[l], o)] = Zero
    BY <1>4, <1>8, <2>4 DEF AheadZero
  <2> QED
    BY <2>2, <2>3, <2>4, <2>5
<1>9. Shows(Written(input), cache.page_table[s], x)
  BY <1>7 DEF Shows
<1>10. ClearOnRecycle => AheadZero(Written(input), cache.page_table[s], Len(x))
  BY <1>8 DEF AheadZero
<1> QED
  BY <1>9, <1>10

(* A committed step: the pages are cleared and copied before the new row   *)
(* of each slot is written, and no other slot or prefix can see that row.  *)
LEMMA StepCommitKeeps ==
  ASSUME IInv, StepCommit
  PROVE  IInv'
<1>1. /\ TypeOK /\ Serving /\ Reserving /\ phase = "reserved"
  BY DEF IInv, StepCommit
<1>2. /\ Sound(cache) /\ Lengths /\ Shown /\ ErasesUnused /\ TakenAlone
      /\ content \in [Slots -> Contents] /\ rows \in [Rows -> Tokens \cup {Zero, Leftover}]
  BY <1>1 DEF Serving, TypeOK, Reserving
<1>3. UNCHANGED <<prepared, saved>> /\ erase' = {} /\ phase' = "ready"
  BY DEF StepCommit
<1> DEFINE d == Commit(cache, InStep)
<1>4. cache' = d
  BY DEF StepCommit
<1>5. PICK input \in [InStep -> Tokens] :
        /\ content' = [s \in Slots |-> StepContent(input, s)]
        /\ rows' = Written(input)
  BY DEF StepCommit, StepContent, Written
<1>6. InStep \in SUBSET Slots
  BY DEF InStep
<1>7. Sound(d) /\ Committed(cache, d, InStep)
  BY <1>2, <1>6, CommitSound, CommitEffect
<1>8. d \in CacheType
  BY <1>7 DEF Sound
<1> HIDE DEF d
<1>9. /\ d.page_table = cache.page_table /\ d.prefix = cache.prefix
      /\ \A s \in Slots :
           /\ d.kv_length[s] = IF s \in InStep THEN Extent(cache, s) ELSE cache.kv_length[s]
           /\ d.reservation[s] = IF s \in InStep THEN NoReservation ELSE cache.reservation[s]
  BY <1>7 DEF Committed
<1>10. \A s \in Slots : ~Open(d, s)
  BY <1>9, NothingReserved DEF InStep, Open
<1>11. \A s \in Slots : RestoredMap(d, s) = cache.page_table[s]
  BY <1>7, <1>9, <1>10, NothingToRestore
<1>12. \A s \in Slots : d.kv_length[s] = Extent(cache, s)
  BY <1>2, <1>9, NothingToRestore DEF InStep
<1>13. ASSUME NEW s \in Slots
       PROVE  /\ content'[s] \in Contents /\ Len(content'[s]) = Extent(cache, s)
              /\ Shows(rows', cache.page_table[s], content'[s])
              /\ ClearOnRecycle => AheadZero(rows', cache.page_table[s], Len(content'[s]))
  <2> DEFINE x == StepContent(input, s)
  <2>1. content'[s] = x
    BY <1>5
  <2>2. Stepped(x, input, s)
    BY <1>1, <1>2, StepContents
  <2> HIDE DEF x
  <2>3. /\ Shows(Written(input), cache.page_table[s], x)
        /\ ClearOnRecycle => AheadZero(Written(input), cache.page_table[s], Len(x))
    BY <1>1, <1>2, <2>2, StepShows
  <2>4. x \in Contents /\ Len(x) = Extent(cache, s)
    BY <2>2 DEF Stepped
  <2> QED
    BY <1>5, <2>1, <2>3, <2>4
<1>14. \A k \in LiveKeys(cache) : Shows(rows', cache.prefix[k].pages, saved[k])
  <2> SUFFICES ASSUME NEW k \in LiveKeys(cache), NEW l \in Logical, NEW o \in Offsets,
                      Start(l) + o < Len(saved[k])
               PROVE  /\ cache.prefix[k].pages[l] # Unmapped
                      /\ rows'[RowIn(cache.prefix[k].pages[l], o)] = saved[k][Start(l) + o + 1]
    BY DEF Shows
  <2>1. /\ cache.prefix[k].pages[l] # Unmapped
        /\ rows[RowIn(cache.prefix[k].pages[l], o)] = saved[k][Start(l) + o + 1]
    BY <1>2 DEF Shown, Shows
  <2>2. Written(input)[RowIn(cache.prefix[k].pages[l], o)] =
          PreparedRows[RowIn(cache.prefix[k].pages[l], o)]
    BY <1>1, <1>2, <2>1, WritesOwn
  <2>3. PreparedRows[RowIn(cache.prefix[k].pages[l], o)] =
          rows[RowIn(cache.prefix[k].pages[l], o)]
    BY <1>1, <1>2, <2>1, PreparedShows
  <2> QED
    BY <1>5, <2>1, <2>2, <2>3
<1>15. TypeOK'
  <2>1. content' \in [Slots -> Contents]
    BY <1>5, <1>13
  <2>2. rows' \in [Rows -> Tokens \cup {Zero, Leftover}]
    BY <1>2, <1>5, RowsTyped
  <2> QED
    BY <1>1, <1>3, <1>4, <1>8, <2>1, <2>2 DEF TypeOK
<1>16. Lengths'
  BY <1>2, <1>3, <1>4, <1>9, <1>12, <1>13 DEF Lengths, Length
<1>17. Shown'
  BY <1>3, <1>4, <1>9, <1>11, <1>13, <1>14 DEF Shown, Length, LiveKeys
<1>18. Serving'
  BY <1>3, <1>4, <1>7, <1>16, <1>17 DEF Serving, ErasesUnused
<1> QED
  BY <1>3, <1>4, <1>10, <1>15, <1>18 DEF IInv

-----------------------------------------------------------------------------
(* The commit of a generation, which may have stopped early.               *)

(* The rows after the inputs of a generation were written. *)
GenerateWritten(input, done) ==
  [r \in Rows |->
    IF GeneratedAt(r, done) # {} THEN input[CHOOSE i \in GeneratedAt(r, done) : TRUE]
    ELSE PreparedRows[r]]

(* Token t of the slot is one of those the generation computed, the i-th.  *)
Nth(t) == t - Length(Only) + 1
Generated(t, done) == Nth(t) \in 1 .. done

(* What a generation knows of its one slot: the tokens it may have         *)
(* computed fit in what it reserved.                                       *)
Generates(done) ==
  /\ Serving /\ Generating /\ content \in [Slots -> Contents]
  /\ done \in 0 .. Limit

(* The numbers of a generation. *)
LEMMA GenerateSizes ==
  ASSUME NEW done, Generates(done)
  PROVE  /\ Slots = {Only} /\ Only \in Slots /\ done \in Nat /\ Sound(cache)
         /\ cache.kv_length[Only] = Length(Only) /\ Length(Only) \in Nat /\ Length(Only) > 0
         /\ content[Only] \in Contents /\ Length(Only) = Len(content[Only])
         /\ Extent(cache, Only) \in Nat /\ Length(Only) + done <= Extent(cache, Only)
         /\ Extent(cache, Only) <= SlotTokenCapacity
         /\ cache.reservation[Only].tokens \in Nat
         /\ Limit = cache.reservation[Only].tokens
<1>1. /\ Sound(cache) /\ Lengths /\ content \in [Slots -> Contents]
      /\ done \in 0 .. Limit /\ NumSlots = 1 /\ Length(Only) >= 1
  BY DEF Generates, Serving, Generating
<1>2. Slots = {Only} /\ Only \in Slots
  BY <1>1, OneSlot
<1>3. /\ cache.kv_length[Only] = Length(Only) /\ Length(Only) \in Nat
      /\ content[Only] \in Contents /\ Length(Only) = Len(content[Only])
  BY <1>1, <1>2, ContentsTyped DEF Lengths, Length
<1>4. cache.reservation[Only].tokens \in Nat
  BY <1>1, <1>2, Typed DEF Sound
<1>5. Extent(cache, Only) = Length(Only) + cache.reservation[Only].tokens
  BY <1>3 DEF Extent
<1>6. Limit = cache.reservation[Only].tokens
  BY <1>3, <1>4 DEF Limit
<1>7. Extent(cache, Only) <= SlotTokenCapacity
  BY <1>1, <1>2 DEF Sound, SlotsBacked, Backs
<1> QED
  BY <1>1, <1>2, <1>3, <1>4, <1>5, <1>6, <1>7

(* Where token i of a generation goes: into a page of its slot alone, that *)
(* the reservation mapped or an earlier one left.                          *)
LEMMA GeneratedRow ==
  ASSUME NEW done, Generates(done), NEW i \in 1 .. done
  PROVE  LET t == Length(Only) + i - 1
             l == t \div PageTokens
         IN  /\ t \in Nat /\ l \in Logical /\ t % PageTokens \in Offsets
             /\ Start(l) + (t % PageTokens) = t
             /\ cache.page_table[Only][l] \in Pages
             /\ cache.ref_count[cache.page_table[Only][l]] = 1
             /\ Physical(cache, Only, t) = RowIn(cache.page_table[Only][l], t % PageTokens)
<1> DEFINE t == Length(Only) + i - 1
           l == t \div PageTokens
           o == t % PageTokens
<1>1. /\ Only \in Slots /\ done \in Nat /\ Sound(cache) /\ cache \in CacheType
      /\ cache.kv_length[Only] = Length(Only) /\ Length(Only) \in Nat
      /\ Extent(cache, Only) \in Nat /\ Length(Only) + done <= Extent(cache, Only)
      /\ Extent(cache, Only) <= SlotTokenCapacity
  BY GenerateSizes DEF Sound
<1>2. /\ t \in Nat /\ t >= Length(Only) /\ t < Extent(cache, Only)
      /\ t \in 0 .. SlotTokenCapacity - 1
  BY <1>1, Sizes
<1>3. Physical(cache, Only, t) = RowIn(cache.page_table[Only][l], o)
  BY DEF Physical, RowAt, RowIn
<1>4. l \in Logical /\ o \in Offsets /\ Start(l) + o = t
  BY <1>2, TokenParts
<1> HIDE DEF t, l, o
<1>5. Start(l) \in Nat /\ o \in Nat /\ o < PageTokens
  BY <1>4, Starts, Sizes DEF Offsets
<1>6. Start(l) < Extent(cache, Only) /\ Start(l) + PageTokens > cache.kv_length[Only]
  BY <1>1, <1>2, <1>4, <1>5, Sizes
<1>7. cache.page_table[Only][l] # Unmapped
  BY <1>1, <1>4, <1>6 DEF Sound, SlotsBacked, Backs
<1>8. cache.ref_count[cache.page_table[Only][l]] = 1
  BY <1>1, <1>4, <1>6, <1>7 DEF Sound, AppendsPrivate
<1>9. cache.page_table[Only][l] \in Pages
  BY <1>1, <1>4, <1>7, Typed DEF PageMap
<1> QED
  BY <1>2, <1>3, <1>4, <1>8, <1>9 DEF t, l, o

(* A generation writes the rows behind its slot's tokens and no others.    *)
LEMMA GenerateWritesOwn ==
  ASSUME NEW done, Generates(done), NEW input, NEW o \in Offsets
  PROVE  /\ \A l \in Logical : cache.page_table[Only][l] # Unmapped =>
              GenerateWritten(input, done)[RowIn(cache.page_table[Only][l], o)] =
                IF Generated(Start(l) + o, done) THEN input[Nth(Start(l) + o)]
                ELSE PreparedRows[RowIn(cache.page_table[Only][l], o)]
         /\ \A k \in LiveKeys(cache), l \in Logical : cache.prefix[k].pages[l] # Unmapped =>
              GenerateWritten(input, done)[RowIn(cache.prefix[k].pages[l], o)] =
                PreparedRows[RowIn(cache.prefix[k].pages[l], o)]
<1>1. Sound(cache) /\ cache \in CacheType /\ Only \in Slots /\ Length(Only) \in Nat
      /\ done \in Nat
  BY GenerateSizes DEF Sound
<1> DEFINE T(i) == Length(Only) + i - 1
           L(i) == T(i) \div PageTokens
           U(i) == T(i) % PageTokens
<1>2. ASSUME NEW i \in 1 .. done
      PROVE  /\ T(i) \in Nat /\ L(i) \in Logical /\ U(i) \in Offsets
             /\ Start(L(i)) + U(i) = T(i)
             /\ cache.page_table[Only][L(i)] \in Pages
             /\ cache.ref_count[cache.page_table[Only][L(i)]] = 1
             /\ Physical(cache, Only, T(i)) = RowIn(cache.page_table[Only][L(i)], U(i))
  BY GeneratedRow
<1>3. \A p \in Pages : RowIn(p, o) \in Rows
  BY RowParts
<1>4. \A r : GeneratedAt(r, done) = {i \in 1 .. done : Physical(cache, Only, T(i)) = r}
  BY DEF GeneratedAt
<1> HIDE DEF L, U
<1>5. ASSUME NEW p \in Pages, NEW i \in GeneratedAt(RowIn(p, o), done)
      PROVE  /\ i \in 1 .. done /\ cache.page_table[Only][L(i)] = p /\ U(i) = o
             /\ cache.ref_count[p] = 1
  <2>1. i \in 1 .. done /\ Physical(cache, Only, T(i)) = RowIn(p, o)
    BY <1>4
  <2>2. PICK q \in Pages : q = cache.page_table[Only][L(i)]
    BY <1>2, <2>1
  <2>3. RowIn(q, U(i)) = RowIn(p, o) /\ U(i) \in Offsets
    BY <1>2, <2>1, <2>2
  <2>4. q = p /\ U(i) = o
    BY <2>3, RowsApart
  <2> QED
    BY <1>2, <2>1, <2>2, <2>4
<1>6. ASSUME NEW l \in Logical, cache.page_table[Only][l] # Unmapped
      PROVE  GenerateWritten(input, done)[RowIn(cache.page_table[Only][l], o)] =
                IF Generated(Start(l) + o, done) THEN input[Nth(Start(l) + o)]
                ELSE PreparedRows[RowIn(cache.page_table[Only][l], o)]
  <2>1. PICK p \in Pages : p = cache.page_table[Only][l]
    BY <1>1, <1>6, Typed DEF PageMap
  <2> DEFINE r == RowIn(p, o)
             G == GeneratedAt(r, done)
             j == Nth(Start(l) + o)
  <2>2. Start(l) + o \in Nat /\ (Start(l) + o) \div PageTokens = l
        /\ (Start(l) + o) % PageTokens = o
    BY TokenParts
  <2>3. /\ j \in Int /\ T(j) = Start(l) + o
        /\ \A i \in 1 .. done : T(i) = Start(l) + o => i = j
    <3> DEFINE t == Start(l) + o
    <3>1. t \in Nat
      BY <2>2
    <3> HIDE DEF t
    <3>2. /\ Nth(t) \in Int /\ T(Nth(t)) = t
          /\ \A i \in 1 .. done : T(i) = t => i = Nth(t)
      BY <1>1, <3>1 DEF Nth
    <3> QED
      BY <3>2 DEF t
  <2>4. r \in Rows
    BY <1>3
  <2>5. ASSUME NEW i \in G PROVE i = j /\ i \in 1 .. done
    <3>1. i \in 1 .. done /\ cache.page_table[Only][L(i)] = p /\ U(i) = o
          /\ cache.ref_count[p] = 1
      BY <1>5
    <3>2. cache.ref_count[p] <= 1 /\ L(i) \in Logical /\ Start(L(i)) + U(i) = T(i)
      BY <1>2, <3>1
    <3>3. L(i) = l
      BY <1>1, <2>1, <3>1, <3>2, OnePlace
    <3>4. T(i) = Start(l) + o
      BY <3>1, <3>2, <3>3
    <3> QED
      BY <2>3, <3>1, <3>4
  <2>6. ASSUME j \in 1 .. done PROVE j \in G
    <3>1. L(j) = l /\ U(j) = o
      BY <2>2, <2>3 DEF L, U
    <3>2. Physical(cache, Only, T(j)) = r
      BY <1>2, <2>1, <2>6, <3>1
    <3> HIDE DEF j, T
    <3> QED
      BY <1>4, <2>6, <3>2
  <2>9. Generated(Start(l) + o, done) <=> j \in 1 .. done
    BY DEF Generated
  <2> HIDE DEF r, G, j
  <2>7. CASE j \in 1 .. done
    <3>1. G # {} /\ (CHOOSE i \in G : TRUE) = j
      BY <2>5, <2>6, <2>7
    <3>2. GenerateWritten(input, done)[r] = input[j]
      BY <2>4, <3>1 DEF GenerateWritten, G
    <3> QED
      BY <2>1, <2>7, <2>9, <3>2 DEF r, j
  <2>8. CASE j \notin 1 .. done
    <3>1. G = {}
      BY <2>5, <2>8
    <3>2. GenerateWritten(input, done)[r] = PreparedRows[r]
      BY <2>4, <3>1 DEF GenerateWritten, G
    <3> QED
      BY <2>1, <2>8, <2>9, <3>2 DEF r, j
  <2> QED
    BY <2>7, <2>8
<1>7. ASSUME NEW k \in LiveKeys(cache), NEW l \in Logical, cache.prefix[k].pages[l] # Unmapped
      PROVE  GenerateWritten(input, done)[RowIn(cache.prefix[k].pages[l], o)] =
               PreparedRows[RowIn(cache.prefix[k].pages[l], o)]
  <2>1. k \in Keys
    BY DEF LiveKeys
  <2>2. PICK p \in Pages : p = cache.prefix[k].pages[l]
    BY <1>1, <1>7, <2>1, Typed DEF PageMap
  <2>3. p \in PagesOf(cache.prefix[k].pages)
    BY <2>2, InMap
  <2>4. ASSUME NEW i \in GeneratedAt(RowIn(p, o), done) PROVE FALSE
    <3>1. i \in 1 .. done /\ cache.page_table[Only][L(i)] = p /\ cache.ref_count[p] = 1
      BY <1>5, <2>4
    <3>2. cache.ref_count[p] <= 1 /\ L(i) \in Logical
      BY <1>2, <3>1
    <3> QED
      BY <1>1, <2>3, <3>1, <3>2, OnePlace
  <2>5. RowIn(p, o) \in Rows
    BY <1>3
  <2>6. GenerateWritten(input, done)[RowIn(p, o)] = PreparedRows[RowIn(p, o)]
    BY <2>4, <2>5 DEF GenerateWritten
  <2> QED
    BY <2>2, <2>6
<1> QED
  BY <1>6, <1>7

(* The tokens of a slot and those generated behind them. *)
Joined(y, x, input, n) ==
  /\ y \in Contents /\ Len(y) = Len(x) + n
  /\ \A i \in 1 .. Len(x) + n : y[i] = IF i <= Len(x) THEN x[i] ELSE input[i - Len(x)]

(* Appending them gives just that. *)
LEMMA JoinedTokens ==
  ASSUME NEW x \in Contents, NEW n \in Nat, Len(x) + n <= SlotTokenCapacity,
         NEW input \in Sequence(n)
  PROVE  Joined(x \o input, x, input, n)
<1> DEFINE y == x \o input
<1>1. x \in Seq(Tokens) /\ Len(x) \in Nat
  BY ContentsFit, Sizes
<1>2. input \in Seq(Tokens) /\ Len(input) = n
  <2>1. input \in Seq(Tokens)
    BY SeqDef DEF Sequence
  <2>2. Len(input) \in Nat /\ DOMAIN input = 1 .. Len(input)
    BY <2>1, LenProperties
  <2>3. DOMAIN input = 1 .. n
    BY DEF Sequence
  <2> DEFINE m == Len(input)
  <2> HIDE DEF m
  <2>4. m \in Nat /\ 1 .. m = 1 .. n
    BY <2>2, <2>3 DEF m
  <2>5. m = n
    BY <2>4
  <2> QED
    BY <2>1, <2>5 DEF m
<1>3. /\ y \in Seq(Tokens) /\ Len(y) = Len(x) + Len(input)
      /\ \A i \in 1 .. Len(x) + Len(input) :
           y[i] = IF i <= Len(x) THEN x[i] ELSE input[i - Len(x)]
  BY <1>1, <1>2, ConcatProperties
<1> HIDE DEF y
<1>4. Len(y) \in 0 .. SlotTokenCapacity
  BY <1>1, <1>2, <1>3, Sizes
<1>5. y \in Contents
  BY <1>3, <1>4, ContentsFit
<1> QED
  BY <1>2, <1>3, <1>5 DEF y, Joined

(* What the slot shows once a generation is written. *)
LEMMA GenerateShows ==
  ASSUME NEW done, Generates(done), NEW input, NEW x,
         Joined(x, content[Only], input, done)
  PROVE  /\ Shows(GenerateWritten(input, done), cache.page_table[Only], x)
         /\ ClearOnRecycle =>
              AheadZero(GenerateWritten(input, done), cache.page_table[Only], Len(x))
<1>1. Sound(cache) /\ Shown /\ ErasesUnused /\ TakenAlone
  BY DEF Generates, Serving, Generating
<1>2. /\ Only \in Slots /\ done \in Nat /\ Length(Only) \in Nat
      /\ Length(Only) = Len(content[Only])
      /\ Extent(cache, Only) \in Nat /\ Length(Only) + done <= Extent(cache, Only)
      /\ Len(x) = Length(Only) + done
  BY GenerateSizes DEF Joined
<1>3. /\ Shows(rows, RestoredMap(cache, Only), content[Only])
      /\ ClearOnRecycle => AheadZero(rows, RestoredMap(cache, Only), Length(Only))
  BY <1>1, <1>2 DEF Shown
<1>4. ASSUME NEW l \in Logical, NEW o \in Offsets
      PROVE  Start(l) \in Nat /\ o \in Nat /\ Start(l) + o \in Nat /\ Start(l) <= Start(l) + o
  <2>1. Start(l) \in Nat /\ o \in Nat
    BY Starts, Sizes DEF Offsets
  <2> QED
    BY <2>1
<1>5. ASSUME NEW l \in Logical, NEW o \in Offsets, Start(l) + o < Len(x)
      PROVE  /\ cache.page_table[Only][l] # Unmapped
             /\ GenerateWritten(input, done)[RowIn(cache.page_table[Only][l], o)] =
                  x[Start(l) + o + 1]
  <2> DEFINE t == Start(l) + o
             row == RowIn(cache.page_table[Only][l], o)
             before == RowIn(RestoredMap(cache, Only)[l], o)
  <2>1. t \in Nat /\ Start(l) \in Nat /\ Start(l) <= t /\ t < Length(Only) + done
    BY <1>2, <1>4, <1>5
  <2>2. Start(l) < Extent(cache, Only)
    <3> HIDE DEF t
    <3> QED
      BY <1>2, <2>1
  <2>3. cache.page_table[Only][l] # Unmapped
    BY <1>1, <1>2, <2>2 DEF Sound, SlotsBacked, Backs
  <2>4. GenerateWritten(input, done)[row] =
          IF Generated(t, done) THEN input[Nth(t)] ELSE PreparedRows[row]
    BY <2>3, GenerateWritesOwn
  <2>5. RestoredMap(cache, Only)[l] # Unmapped => PreparedRows[row] = rows[before]
    BY <1>1, <1>2, <2>3, PreparedShows
  <2>6. t < Len(content[Only]) =>
          RestoredMap(cache, Only)[l] # Unmapped /\ rows[before] = content[Only][t + 1]
    BY <1>3 DEF Shows
  <2> HIDE DEF t, row, before
  <2>8. CASE t < Length(Only)
    <3>1. ~Generated(t, done) /\ t + 1 <= Len(content[Only])
          /\ t + 1 \in 1 .. Len(content[Only]) + done
      BY <1>2, <2>1, <2>8 DEF Generated, Nth
    <3>2. x[t + 1] = content[Only][t + 1]
      BY <3>1 DEF Joined
    <3>3. GenerateWritten(input, done)[row] = content[Only][t + 1]
      BY <1>2, <2>4, <2>5, <2>6, <2>8, <3>1
    <3> QED
      BY <2>3, <3>2, <3>3 DEF t, row
  <2>9. CASE ~(t < Length(Only))
    <3>1. /\ Generated(t, done) /\ ~(t + 1 <= Len(content[Only]))
          /\ t + 1 \in 1 .. Len(content[Only]) + done
          /\ t + 1 - Len(content[Only]) = Nth(t)
      BY <1>2, <2>1, <2>9 DEF Generated, Nth
    <3> DEFINE i == t + 1
    <3>2. x[i] = input[Nth(t)]
      <4>1. i \in 1 .. Len(content[Only]) + done /\ ~(i <= Len(content[Only]))
        BY <3>1
      <4>2. i - Len(content[Only]) = Nth(t)
        BY <1>2, <2>1, <3>1 DEF Nth
      <4> HIDE DEF i
      <4>3. x[i] = input[i - Len(content[Only])]
        BY <4>1 DEF Joined
      <4> QED
        BY <4>2, <4>3
    <3>3. GenerateWritten(input, done)[row] = input[Nth(t)]
      BY <2>4, <3>1
    <3> QED
      BY <2>3, <3>2, <3>3 DEF t, row
  <2> QED
    BY <2>8, <2>9
<1>6. ASSUME ClearOnRecycle, NEW l \in Logical, NEW o \in Offsets,
             cache.page_table[Only][l] # Unmapped, Start(l) >= Len(x)
      PROVE  GenerateWritten(input, done)[RowIn(cache.page_table[Only][l], o)] = Zero
  <2> DEFINE t == Start(l) + o
             row == RowIn(cache.page_table[Only][l], o)
             before == RowIn(RestoredMap(cache, Only)[l], o)
  <2>1. /\ t \in Nat /\ Start(l) \in Nat /\ Start(l) <= t
        /\ Start(l) >= Length(Only) + done
    BY <1>2, <1>4, <1>6
  <2>2. GenerateWritten(input, done)[row] =
          IF Generated(t, done) THEN input[Nth(t)] ELSE PreparedRows[row]
    BY <1>6, GenerateWritesOwn
  <2>3. /\ RestoredMap(cache, Only)[l] # Unmapped => PreparedRows[row] = rows[before]
        /\ RestoredMap(cache, Only)[l] = Unmapped => PreparedRows[row] = Zero
    BY <1>1, <1>2, <1>6, PreparedShows
  <2>4. Start(l) >= Length(Only)
    <3> HIDE DEF t
    <3> QED
      BY <1>2, <2>1
  <2>5. RestoredMap(cache, Only)[l] # Unmapped => rows[before] = Zero
    BY <1>3, <1>6, <2>4 DEF AheadZero
  <2> HIDE DEF t, row, before
  <2>6. ~Generated(t, done)
    BY <1>2, <2>1 DEF Generated, Nth
  <2>7. GenerateWritten(input, done)[row] = Zero
    BY <2>2, <2>3, <2>5, <2>6
  <2> QED
    BY <2>7 DEF row
<1>7. Shows(GenerateWritten(input, done), cache.page_table[Only], x)
  BY <1>5 DEF Shows
<1>8. ClearOnRecycle =>
        AheadZero(GenerateWritten(input, done), cache.page_table[Only], Len(x))
  BY <1>6 DEF AheadZero
<1> QED
  BY <1>7, <1>8

(* Lowering the reservation to what was computed leaves the pages, and     *)
(* makes the tokens to commit those that were computed.                    *)
LEMMA CompletedSound ==
  ASSUME NEW done, Generates(done)
  PROVE  LET c == Completed(done)
         IN  /\ Sound(c) /\ Extent(c, Only) = Length(Only) + done
             /\ c.page_table = cache.page_table /\ c.prefix = cache.prefix
<1> DEFINE c == Completed(done)
           n == Computed(done)
<1>1. /\ Only \in Slots /\ done \in Nat /\ Sound(cache) /\ cache \in CacheType
      /\ cache.kv_length[Only] = Length(Only) /\ Length(Only) \in Nat /\ Length(Only) > 0
      /\ cache.reservation[Only].tokens \in Nat /\ Limit = cache.reservation[Only].tokens
  BY GenerateSizes DEF Sound
<1>2. Open(cache, Only) /\ done \in 0 .. Limit
  BY DEF Generates, Generating
<1>3. n = done
  BY <1>1 DEF Computed
<1>4. c = IF n >= 0 /\ n < cache.reservation[Only].tokens THEN Shorten(cache, Only, n) ELSE cache
  BY DEF Completed
<1> HIDE DEF c, n
<1>5. CASE done < cache.reservation[Only].tokens
  <2>1. c = Shorten(cache, Only, done)
    BY <1>1, <1>3, <1>4, <1>5
  <2>2. ShortenOK(cache, Only, done)
    BY <1>1, <1>2, <1>5 DEF ShortenOK
  <2>3. Sound(c)
    BY <1>1, <2>1, <2>2, ShortenSound
  <2>4. /\ c.page_table = cache.page_table /\ c.prefix = cache.prefix
        /\ c.kv_length = cache.kv_length /\ c.reservation[Only].tokens = done
    <3>1. c.reservation = Put(cache.reservation, Only, [cache.reservation[Only] EXCEPT !.tokens = done])
          /\ c.page_table = cache.page_table /\ c.prefix = cache.prefix
          /\ c.kv_length = cache.kv_length
      BY <1>1, <2>1 DEF Shorten, CacheType
    <3>2. cache.reservation \in [Slots -> Reservation]
      BY <1>1 DEF CacheType
    <3> QED
      BY <1>1, <3>1, <3>2 DEF Put, Reservation
  <2> QED
    BY <1>1, <2>3, <2>4 DEF Extent, c
<1>6. CASE ~(done < cache.reservation[Only].tokens)
  <2>1. c = cache /\ done = cache.reservation[Only].tokens
    BY <1>1, <1>2, <1>3, <1>4, <1>6
  <2> QED
    BY <1>1, <2>1 DEF Extent, c
<1> QED
  BY <1>5, <1>6

(* A committed generation: its tokens follow the slot's, the pages it no   *)
(* longer needs stay mapped ahead of them, cleared, and no prefix changed. *)
LEMMA GenerateCommitKeeps ==
  ASSUME IInv, GenerateCommit
  PROVE  IInv'
<1>1. /\ TypeOK /\ Serving /\ Generating
      /\ content \in [Slots -> Contents] /\ rows \in [Rows -> Tokens \cup {Zero, Leftover}]
  BY DEF IInv, GenerateCommit, TypeOK
<1>2. Sound(cache) /\ Lengths /\ Shown /\ ErasesUnused /\ TakenAlone
  BY <1>1 DEF Serving, Generating
<1>3. UNCHANGED <<prepared, saved>> /\ erase' = {} /\ phase' = "ready"
  BY DEF GenerateCommit
<1>22. PICK done \in 0 .. Limit : \E input \in Sequence(done) :
         /\ content' = [content EXCEPT ![Only] = @ \o input]
         /\ rows' = GenerateWritten(input, done)
         /\ cache' = Commit(Completed(done), InStep)
  BY DEF GenerateCommit, GenerateWritten
<1>4. PICK input \in Sequence(done) :
        /\ content' = [content EXCEPT ![Only] = @ \o input]
        /\ rows' = GenerateWritten(input, done)
        /\ cache' = Commit(Completed(done), InStep)
  BY <1>22
<1>5. Generates(done)
  BY <1>1 DEF Generates
<1>6. /\ Slots = {Only} /\ Only \in Slots /\ done \in Nat
      /\ Length(Only) \in Nat /\ Length(Only) = Len(content[Only])
      /\ content[Only] \in Contents
      /\ Extent(cache, Only) \in Nat /\ Length(Only) + done <= Extent(cache, Only)
      /\ Extent(cache, Only) <= SlotTokenCapacity
  BY <1>5, GenerateSizes
<1>7. InStep = {Only} /\ InStep \in SUBSET Slots
  BY <1>1, <1>6 DEF Generating, InStep
<1> DEFINE c == Completed(done)
           d == Commit(c, InStep)
<1>8. /\ Sound(c) /\ Extent(c, Only) = Length(Only) + done
      /\ c.page_table = cache.page_table /\ c.prefix = cache.prefix
  BY <1>5, CompletedSound
<1> HIDE DEF c
<1>9. Sound(d) /\ Committed(c, d, InStep)
  BY <1>7, <1>8, CommitSound, CommitEffect
<1>10. cache' = d
  BY <1>4 DEF c
<1> HIDE DEF d
<1>11. /\ d.page_table = cache.page_table /\ d.prefix = cache.prefix /\ d \in CacheType
       /\ d.kv_length[Only] = Length(Only) + done /\ d.reservation[Only] = NoReservation
  BY <1>6, <1>7, <1>8, <1>9 DEF Committed, Sound
<1>12. \A s \in Slots : ~Open(d, s)
  BY <1>6, <1>11, NothingReserved DEF Open
<1>13. \A s \in Slots : RestoredMap(d, s) = cache.page_table[s]
  BY <1>9, <1>11, <1>12, NothingToRestore
<1> DEFINE x == content[Only] \o input
<1>14. content'[Only] = x
  BY <1>1, <1>4, <1>6
<1>15. Joined(x, content[Only], input, done)
  <2>1. Len(content[Only]) + done <= SlotTokenCapacity
    BY <1>6, Sizes
  <2> QED
    BY <1>4, <1>6, <2>1, JoinedTokens
<1> HIDE DEF x
<1>23. x \in Contents /\ Len(x) = Length(Only) + done
  BY <1>6, <1>15 DEF Joined
<1>16. /\ Shows(rows', cache.page_table[Only], x)
       /\ ClearOnRecycle => AheadZero(rows', cache.page_table[Only], Len(x))
  BY <1>4, <1>5, <1>15, GenerateShows
<1>17. \A k \in LiveKeys(cache) : Shows(rows', cache.prefix[k].pages, saved[k])
  <2> SUFFICES ASSUME NEW k \in LiveKeys(cache), NEW l \in Logical, NEW o \in Offsets,
                      Start(l) + o < Len(saved[k])
               PROVE  /\ cache.prefix[k].pages[l] # Unmapped
                      /\ rows'[RowIn(cache.prefix[k].pages[l], o)] = saved[k][Start(l) + o + 1]
    BY DEF Shows
  <2>1. /\ cache.prefix[k].pages[l] # Unmapped
        /\ rows[RowIn(cache.prefix[k].pages[l], o)] = saved[k][Start(l) + o + 1]
    BY <1>2 DEF Shown, Shows
  <2>2. GenerateWritten(input, done)[RowIn(cache.prefix[k].pages[l], o)] =
          PreparedRows[RowIn(cache.prefix[k].pages[l], o)]
    BY <1>5, <2>1, GenerateWritesOwn
  <2>3. PreparedRows[RowIn(cache.prefix[k].pages[l], o)] =
          rows[RowIn(cache.prefix[k].pages[l], o)]
    BY <1>2, <2>1, PreparedShows
  <2> QED
    BY <1>4, <2>1, <2>2, <2>3
<1>18. TypeOK'
  <2>1. content' \in [Slots -> Contents]
    BY <1>1, <1>4, <1>23 DEF x
  <2>2. rows' \in [Rows -> Tokens \cup {Zero, Leftover}]
    <3>1. PreparedRows \in [Rows -> Tokens \cup {Zero, Leftover}]
      BY <1>1, RowsTyped
    <3>2. ASSUME NEW r \in Rows
          PROVE  GenerateWritten(input, done)[r] \in Tokens \cup {Zero, Leftover}
      <4>1. CASE GeneratedAt(r, done) = {}
        BY <3>1, <4>1 DEF GenerateWritten
      <4>2. CASE GeneratedAt(r, done) # {}
        <5>1. PICK i \in 1 .. done : i = CHOOSE j \in GeneratedAt(r, done) : TRUE
          <6>1. GeneratedAt(r, done) \subseteq 1 .. done
            BY DEF GeneratedAt
          <6> QED
            BY <4>2, <6>1
        <5>2. input[i] \in Tokens
          BY <1>4 DEF Sequence
        <5> QED
          BY <4>2, <5>1, <5>2 DEF GenerateWritten
      <4> QED
        BY <4>1, <4>2
    <3> QED
      BY <1>4, <3>2 DEF GenerateWritten
  <2> QED
    BY <1>1, <1>3, <1>10, <1>11, <2>1, <2>2 DEF TypeOK
<1>19. Lengths'
  <2>1. \A s \in Slots : d.kv_length[s] = Len(content'[s])
    BY <1>6, <1>11, <1>14, <1>23
  <2> QED
    BY <1>2, <1>3, <1>10, <1>11, <2>1 DEF Lengths, Length
<1>20. Shown'
  <2>1. \A s \in Slots : /\ Shows(rows', RestoredMap(d, s), content'[s])
                         /\ ClearOnRecycle => AheadZero(rows', RestoredMap(d, s), Len(content'[s]))
    BY <1>6, <1>13, <1>14, <1>16
  <2>2. \A k \in LiveKeys(d) : Shows(rows', d.prefix[k].pages, saved[k])
    BY <1>11, <1>17 DEF LiveKeys
  <2> QED
    BY <1>3, <1>10, <2>1, <2>2 DEF Shown, Length
<1>21. Serving'
  BY <1>3, <1>9, <1>10, <1>19, <1>20 DEF Serving, ErasesUnused
<1> QED
  BY <1>3, <1>10, <1>12, <1>18, <1>21 DEF IInv

-----------------------------------------------------------------------------
(* The commands on prefixes and slots, between two runs.                   *)

(* Between two runs every restored map is the slot's map. *)
LEMMA BetweenRuns ==
  ASSUME IInv, phase = "ready"
  PROVE  /\ TypeOK /\ Sound(cache) /\ Lengths /\ Shown /\ ErasesUnused
         /\ content \in [Slots -> Contents] /\ saved \in [Keys -> Contents]
         /\ \A s \in Slots : /\ ~Open(cache, s) /\ RestoredMap(cache, s) = cache.page_table[s]
                             /\ Extent(cache, s) = Length(s) /\ cache.kv_length[s] = Length(s)
                             /\ cache.reservation[s] = NoReservation
         /\ \A k \in Keys : saved[k] # <<>> <=> cache.prefix[k].live
<1>1. /\ TypeOK /\ Sound(cache) /\ Lengths /\ Shown /\ ErasesUnused
      /\ \A s \in Slots : ~Open(cache, s)
  BY DEF IInv, Serving
<1>2. content \in [Slots -> Contents] /\ saved \in [Keys -> Contents]
  BY <1>1 DEF TypeOK
<1>3. \A s \in Slots : /\ RestoredMap(cache, s) = cache.page_table[s]
                       /\ Extent(cache, s) = cache.kv_length[s]
  BY <1>1, NothingToRestore
<1>4. \A s \in Slots : cache.kv_length[s] = Length(s)
  BY <1>1 DEF Lengths
<1>5. \A s \in Slots : cache.reservation[s] = NoReservation
  BY <1>1 DEF Sound, ReservationsExplained
<1>6. ASSUME NEW k \in Keys
      PROVE  saved[k] # <<>> <=> cache.prefix[k].live
  <2>1. saved[k] \in Seq(Tokens)
    BY <1>2, ContentsFit
  <2>2. saved[k] # <<>> <=> Len(saved[k]) # 0
    BY <2>1, EmptySeq
  <2>3. CASE cache.prefix[k].live
    <3>1. cache.prefix[k].tokens > 0
      BY <1>1, <2>3 DEF Sound, PrefixesWhole, LiveKeys
    <3>2. Len(saved[k]) = cache.prefix[k].tokens /\ cache.prefix[k].tokens \in Nat
      BY <1>1, <2>3, Typed DEF Lengths, Sound
    <3> QED
      BY <2>2, <2>3, <3>1, <3>2
  <2>4. CASE ~cache.prefix[k].live
    BY <1>1, <2>2, <2>4 DEF Lengths
  <2> QED
    BY <2>3, <2>4
<1> QED
  BY <1>1, <1>2, <1>3, <1>4, <1>5, <1>6

(* Clearing the pages to erase changes nothing that is shown. *)
LEMMA FlushShows ==
  ASSUME NEW m \in PageMap, erase \subseteq Pages, \A p \in erase : p \notin PagesOf(m)
  PROVE  /\ \A tokens : Shows(rows, m, tokens) => Shows(Flushed(rows), m, tokens)
         /\ \A n : AheadZero(rows, m, n) => AheadZero(Flushed(rows), m, n)
<1>1. ASSUME NEW l \in Logical, NEW o \in Offsets, m[l] # Unmapped
      PROVE  Flushed(rows)[RowIn(m[l], o)] = rows[RowIn(m[l], o)]
  <2>1. PICK p \in Pages : p = m[l]
    BY <1>1 DEF PageMap
  <2>2. p \notin erase
    BY <2>1, InMap
  <2>3. RowIn(p, o) \in Rows /\ RowIn(p, o) \div PageTokens = p
    BY RowParts
  <2> QED
    BY <2>1, <2>2, <2>3 DEF Flushed
<1>2. \A tokens : Shows(rows, m, tokens) => Shows(Flushed(rows), m, tokens)
  BY <1>1 DEF Shows
<1>3. \A n : AheadZero(rows, m, n) => AheadZero(Flushed(rows), m, n)
  BY <1>1 DEF AheadZero
<1> QED
  BY <1>2, <1>3

(* An empty slot shows nothing. *)
LEMMA EmptyShows ==
  ASSUME NEW data
  PROVE  Shows(data, EmptyMap, <<>>) /\ \A n : AheadZero(data, EmptyMap, n)
<1>1. \A l \in Logical : EmptyMap[l] = Unmapped
  BY EmptySlot
<1>2. \A l \in Logical, o \in Offsets : ~(Start(l) + o < 0)
  BY TokenParts, Sizes
<1>3. Len(<<>>) = 0
  BY EmptySeq
<1> QED
  BY <1>1, <1>2, <1>3 DEF Shows, AheadZero

(* Publishing shares the pages and saves the rows they hold.               *)
LEMMA PublishPrefixKeeps ==
  ASSUME IInv, NEW k \in Keys, NEW s \in Slots, PublishPrefix(k, s)
  PROVE  IInv'
<1>1. phase = "ready" /\ UNCHANGED <<phase, prepared, content, rows, erase>>
  BY DEF PublishPrefix
<1>2. /\ TypeOK /\ Sound(cache) /\ Lengths /\ Shown /\ ErasesUnused
      /\ content \in [Slots -> Contents] /\ saved \in [Keys -> Contents]
      /\ \A t \in Slots : /\ ~Open(cache, t) /\ RestoredMap(cache, t) = cache.page_table[t]
                          /\ Extent(cache, t) = Length(t) /\ cache.kv_length[t] = Length(t)
                          /\ cache.reservation[t] = NoReservation
      /\ \A j \in Keys : saved[j] # <<>> <=> cache.prefix[j].live
  BY <1>1, BetweenRuns
<1>3. PICK n \in 1 .. Length(s) :
        /\ PublishOK(cache, k, s, n) /\ cache' = Publish(cache, k, s, n)
        /\ saved' = IF saved[k] # <<>> THEN saved
                    ELSE [saved EXCEPT ![k] = SubSeq(content[s], 1, n)]
  BY DEF PublishPrefix
<1>4. /\ n \in Nat /\ n > 0 /\ n \in 0 .. Len(content[s])
      /\ content[s] \in Contents /\ Length(s) \in Nat
  BY <1>2, ContentsTyped DEF Length
<1> DEFINE d == Publish(cache, k, s, n)
           m == PublishedPages(cache, s, n)
<1>5. Sound(d)
  BY <1>2, <1>3, <1>4, PublishSound
<1>6. cache \in CacheType
  BY <1>2 DEF Sound
<1>7. d \in CacheType
  BY <1>5 DEF Sound
<1>8. CASE cache.prefix[k].live
  <2>1. d = [cache EXCEPT !.older = Touch(cache, k)]
    BY <1>8 DEF Publish
  <2>2. saved' = saved
    BY <1>2, <1>3, <1>8
  <2> HIDE DEF d
  <2>3. /\ d.page_table = cache.page_table /\ d.kv_length = cache.kv_length
        /\ d.reservation = cache.reservation /\ d.prefix = cache.prefix
    BY <1>6, <2>1 DEF CacheType
  <2>4. cache' = d
    BY <1>3 DEF d
  <2>5. \A t \in Slots : RestoredMap(d, t) = RestoredMap(cache, t)
    BY <2>3 DEF RestoredMap
  <2>6. \A t \in Slots : ~Open(d, t)
    BY <1>2, <2>3 DEF Open
  <2>7. TypeOK'
    BY <1>1, <1>2, <1>7, <2>2, <2>4 DEF TypeOK
  <2>8. Lengths' /\ Shown' /\ ErasesUnused'
    BY <1>1, <1>2, <2>2, <2>3, <2>4, <2>5 DEF Lengths, Shown, ErasesUnused, Length, LiveKeys
  <2>9. Serving'
    BY <1>5, <2>4, <2>8 DEF Serving
  <2> QED
    BY <1>1, <2>4, <2>6, <2>7, <2>9 DEF IInv
<1>9. CASE ~cache.prefix[k].live
  <2> DEFINE x == SubSeq(content[s], 1, n)
  <2>1. saved' = [saved EXCEPT ![k] = x]
    BY <1>2, <1>3, <1>9
  <2>2. x \in Contents /\ Len(x) = n /\ \A i \in 1 .. n : x[i] = content[s][i]
    BY <1>4, FirstTokens
  <2> HIDE DEF x
  <2>3. /\ d.page_table = cache.page_table /\ d.kv_length = cache.kv_length
        /\ d.slot_generation = cache.slot_generation /\ d.slot_prefix = cache.slot_prefix
        /\ d.reservation = cache.reservation /\ d.reserved_pages = cache.reserved_pages
        /\ d.free = cache.free /\ d.older = Touch(cache, k)
        /\ d.ref_count = [p \in Pages |->
             IF p \in PagesOf(m) THEN cache.ref_count[p] + 1 ELSE cache.ref_count[p]]
        /\ d.prefix = [cache.prefix EXCEPT ![k] =
             [live |-> TRUE, tokens |-> n, slot_references |-> 0, pages |-> m]]
        /\ /\ d.ref_count \in [Pages -> Nat] /\ d.prefix \in [Keys -> Prefix]
           /\ d.older \in SUBSET (Keys \X Keys)
           => d \in CacheType
    BY <1>4, <1>6, <1>9, PublishFields
  <2> HIDE DEF d
  <2>4. cache' = d
    BY <1>3 DEF d
  <2>5. \A t \in Slots : RestoredMap(d, t) = RestoredMap(cache, t)
    BY <2>3 DEF RestoredMap
  <2>6. \A t \in Slots : ~Open(d, t)
    BY <1>2, <2>3 DEF Open
  <2>7. /\ d.prefix[k].live /\ d.prefix[k].tokens = n /\ d.prefix[k].pages = m
        /\ \A j \in Keys : j # k => d.prefix[j] = cache.prefix[j]
        /\ LiveKeys(d) = LiveKeys(cache) \cup {k}
    BY <1>6, <2>3 DEF CacheType, LiveKeys
  <2>8. /\ saved'[k] = x
        /\ \A j \in Keys : j # k => saved'[j] = saved[j]
        /\ saved' \in [Keys -> Contents]
    BY <1>2, <2>1, <2>2
  <2>9. \A l \in Logical : m[l] = IF Start(l) < n THEN cache.page_table[s][l] ELSE Unmapped
    <3>1. n % PageTokens = 0
      BY <1>3 DEF PublishOK
    <3>2. \A l \in Logical : l < n \div PageTokens <=> Start(l) < n
      BY <1>4, <3>1, WholePages
    <3> QED
      BY <3>2 DEF PublishedPages
  <2>10. Shows(rows, m, x)
    <3> SUFFICES ASSUME NEW l \in Logical, NEW o \in Offsets, Start(l) + o < n
                 PROVE  m[l] # Unmapped /\ rows[RowIn(m[l], o)] = x[Start(l) + o + 1]
      BY <2>2 DEF Shows
    <3>1. PICK t \in Nat : t = Start(l) + o /\ Start(l) <= t
      <4>1. Start(l) \in Nat /\ o \in Nat
        BY Starts, Sizes DEF Offsets
      <4>2. Start(l) + o \in Nat /\ Start(l) <= Start(l) + o
        BY <4>1
      <4> QED
        BY <4>2
    <3>2. Start(l) < n /\ t < Len(content[s]) /\ t + 1 \in 1 .. n
      <4>1. Start(l) \in Nat /\ Len(content[s]) \in Nat /\ n <= Len(content[s])
        <5>1. Start(l) \in Nat
          BY Starts, Sizes
        <5>2. Len(content[s]) \in Nat
          BY <1>4 DEF Length
        <5> QED
          BY <1>4, <5>1, <5>2
      <4>2. t < n
        BY <3>1
      <4> QED
        BY <1>4, <3>1, <4>1, <4>2
    <3>3. /\ cache.page_table[s][l] # Unmapped
          /\ rows[RowIn(cache.page_table[s][l], o)] = content[s][t + 1]
      BY <1>2, <3>1, <3>2 DEF Shown, Shows
    <3> QED
      BY <2>2, <2>9, <3>1, <3>2, <3>3
  <2>11. \A p \in erase : p \notin PagesOf(m)
    <3>1. erase \subseteq Pages
      BY <1>2 DEF TypeOK
    <3>2. \A p \in erase : p \notin PagesOf(cache.page_table[s])
      BY <1>2 DEF ErasesUnused
    <3> QED
      BY <2>9, <3>1, <3>2, InMap, Sizes
  <2> HIDE DEF m
  <2>12. TypeOK'
    BY <1>1, <1>2, <1>7, <2>4, <2>8 DEF TypeOK
  <2>13. Lengths'
    <3>1. \A j \in Keys : Len(saved'[j]) = (IF d.prefix[j].live THEN d.prefix[j].tokens ELSE 0)
      <4> TAKE j \in Keys
      <4>1. CASE j = k
        BY <2>2, <2>7, <2>8, <4>1
      <4>2. CASE j # k
        BY <1>2, <2>7, <2>8, <4>2 DEF Lengths
      <4> QED
        BY <4>1, <4>2
    <3>2. \A t \in Slots : d.kv_length[t] = Len(content[t])
      BY <1>2, <2>3 DEF Length
    <3> QED
      BY <1>1, <2>4, <3>1, <3>2 DEF Lengths, Length
  <2>14. Shown'
    <3>1. \A j \in LiveKeys(d) : Shows(rows, d.prefix[j].pages, saved'[j])
      <4> TAKE j \in LiveKeys(d)
      <4>1. CASE j = k
        BY <2>7, <2>8, <2>10, <4>1
      <4>2. CASE j # k
        <5>1. j \in LiveKeys(cache) /\ j \in Keys
          BY <2>7, <4>2 DEF LiveKeys
        <5> QED
          BY <1>2, <2>7, <2>8, <4>2, <5>1 DEF Shown
      <4> QED
        BY <4>1, <4>2
    <3> QED
      BY <1>1, <1>2, <2>4, <2>5, <3>1 DEF Shown, Length
  <2>15. ErasesUnused'
    <3>1. \A p \in erase : \A j \in LiveKeys(d) : p \notin PagesOf(d.prefix[j].pages)
      <4> TAKE p \in erase
      <4> TAKE j \in LiveKeys(d)
      <4>1. CASE j = k
        BY <2>7, <2>11, <4>1
      <4>2. CASE j # k
        <5>1. j \in LiveKeys(cache) /\ j \in Keys
          BY <2>7, <4>2 DEF LiveKeys
        <5> QED
          BY <1>2, <2>7, <4>2, <5>1 DEF ErasesUnused
      <4> QED
        BY <4>1, <4>2
    <3> QED
      BY <1>1, <1>2, <2>4, <2>5, <3>1 DEF ErasesUnused
  <2>16. Serving'
    BY <1>5, <2>4, <2>13, <2>14, <2>15 DEF Serving, d
  <2> QED
    BY <1>1, <2>4, <2>6, <2>12, <2>16 DEF IInv
<1> QED
  BY <1>8, <1>9

(* Reusing a prefix: its pages show its saved rows in the new slot too.    *)
LEMMA ReuseKeeps ==
  ASSUME IInv, NEW k \in Keys, NEW s \in Slots, Reuse(k, s)
  PROVE  IInv'
<1>1. /\ phase = "ready" /\ UNCHANGED <<phase, prepared, rows, erase, saved>>
      /\ content[s] = <<>> /\ AcquireOK(cache, k, s)
      /\ content' = [content EXCEPT ![s] = saved[k]]
  BY DEF Reuse
<1>2. /\ TypeOK /\ Sound(cache) /\ Lengths /\ Shown /\ ErasesUnused
      /\ content \in [Slots -> Contents] /\ saved \in [Keys -> Contents]
      /\ \A t \in Slots : /\ ~Open(cache, t) /\ RestoredMap(cache, t) = cache.page_table[t]
                          /\ Extent(cache, t) = Length(t) /\ cache.kv_length[t] = Length(t)
                          /\ cache.reservation[t] = NoReservation
      /\ \A j \in Keys : saved[j] # <<>> <=> cache.prefix[j].live
  BY <1>1, BetweenRuns
<1> DEFINE d == Acquire(cache, k, s)
<1>3. cache' = d
  BY DEF Reuse
<1>4. Sound(d)
  BY <1>1, <1>2, AcquireSound
<1>5. cache \in CacheType
  BY <1>2 DEF Sound
<1>23. d \in CacheType
  BY <1>4 DEF Sound
<1> DEFINE m == cache.prefix[k].pages
<1>6. m = cache.prefix[k].pages
  OBVIOUS
<1>7. /\ d.slot_generation = cache.slot_generation /\ d.free = cache.free
      /\ d.reservation = cache.reservation /\ d.reserved_pages = cache.reserved_pages
      /\ d.older = Touch(cache, k)
      /\ d.page_table = [cache.page_table EXCEPT ![s] =
           [l \in Logical |-> IF m[l] = Unmapped THEN cache.page_table[s][l] ELSE m[l]]]
      /\ d.ref_count = [p \in Pages |->
           IF p \in PagesOf(m) THEN cache.ref_count[p] + 1 ELSE cache.ref_count[p]]
      /\ d.prefix = [cache.prefix EXCEPT ![k].slot_references = @ + 1]
      /\ d.slot_prefix = [cache.slot_prefix EXCEPT ![s] = k]
      /\ d.kv_length = [cache.kv_length EXCEPT ![s] = cache.prefix[k].tokens]
      /\ /\ d.ref_count \in [Pages -> Nat] /\ d.prefix \in [Keys -> Prefix]
         /\ d.page_table \in [Slots -> PageMap] /\ d.kv_length \in [Slots -> Nat]
         /\ d.slot_prefix \in [Slots -> Keys \cup {NoKey}]
         /\ d.older \in SUBSET (Keys \X Keys)
         => d \in CacheType
  <2>1. PICK x : x = m
    OBVIOUS
  <2> HIDE DEF m
  <2> QED
    BY <1>5, <2>1, AcquireFields DEF m
<1> HIDE DEF d, m
<1>8. \A t \in Slots : ~Open(d, t)
  BY <1>2, <1>7 DEF Open
<1>9. \A t \in Slots : RestoredMap(d, t) = d.page_table[t]
  BY <1>4, <1>8, NothingToRestore
<1>10. /\ \A j \in Keys : /\ d.prefix[j].live = cache.prefix[j].live
                          /\ d.prefix[j].tokens = cache.prefix[j].tokens
                          /\ d.prefix[j].pages = cache.prefix[j].pages
  BY <1>5, <1>7 DEF CacheType, Prefix
<1>11. LiveKeys(d) = LiveKeys(cache) /\ k \in LiveKeys(cache)
  BY <1>1, <1>10 DEF LiveKeys, AcquireOK
<1>12. d.page_table[s] = m
  <2>1. m \in [Logical -> Pages \cup {Unmapped}]
    BY <1>5, <1>6, Typed DEF PageMap
  <2>2. \A l \in Logical : cache.page_table[s][l] = Unmapped
    <3>1. cache.kv_length[s] = 0
      BY <1>1, <1>2, EmptySeq DEF Length
    <3> QED
      BY <1>2, <3>1, EmptySlotMap, EmptySlot
  <2>3. d.page_table[s] =
          [l \in Logical |-> IF m[l] = Unmapped THEN cache.page_table[s][l] ELSE m[l]]
    BY <1>5, <1>7 DEF CacheType
  <2>4. \A l \in Logical : d.page_table[s][l] = m[l]
    BY <2>2, <2>3
  <2> QED
    BY <2>1, <2>3, <2>4
<1>13. \A t \in Slots : t # s => d.page_table[t] = cache.page_table[t]
  BY <1>5, <1>7 DEF CacheType
<1>14. /\ content'[s] = saved[k] /\ content' \in [Slots -> Contents]
       /\ \A t \in Slots : t # s => content'[t] = content[t]
  BY <1>1, <1>2
<1>15. Len(saved[k]) = cache.prefix[k].tokens
  BY <1>2, <1>11 DEF Lengths, LiveKeys
<1>16. Shows(rows, m, saved[k])
  BY <1>2, <1>6, <1>11 DEF Shown
<1>17. AheadZero(rows, m, Len(saved[k]))
  <2> DEFINE n == cache.prefix[k].tokens
  <2>1. n \in Nat /\ Covers(m, n)
    BY <1>2, <1>5, <1>6, <1>11, Typed DEF Sound, PrefixesWhole
  <2>2. \A l \in Logical : m[l] # Unmapped => Start(l) < n /\ Start(l) \in Nat
    BY <2>1, Starts, Sizes DEF Covers
  <2>3. Len(saved[k]) = n
    BY <1>15
  <2> HIDE DEF n
  <2> QED
    BY <2>1, <2>2, <2>3 DEF AheadZero
<1>18. TypeOK'
  BY <1>1, <1>2, <1>3, <1>14, <1>23 DEF TypeOK
<1>19. Lengths'
  <2>1. ASSUME NEW t \in Slots
        PROVE  d.kv_length[t] = Len(content'[t])
    <3>1. CASE t = s
      BY <1>5, <1>7, <1>14, <1>15, <3>1 DEF CacheType
    <3>2. CASE t # s
      BY <1>2, <1>5, <1>7, <1>14, <3>2 DEF CacheType, Length
    <3> QED
      BY <3>1, <3>2
  <2> QED
    BY <1>1, <1>2, <1>3, <1>10, <2>1 DEF Lengths, Length
<1>20. Shown'
  <2>1. ASSUME NEW t \in Slots
        PROVE  /\ Shows(rows, d.page_table[t], content'[t])
               /\ ClearOnRecycle => AheadZero(rows, d.page_table[t], Len(content'[t]))
    <3>1. CASE t = s
      BY <1>12, <1>14, <1>16, <1>17, <3>1
    <3>2. CASE t # s
      BY <1>2, <1>13, <1>14, <3>2 DEF Shown, Length
    <3> QED
      BY <3>1, <3>2
  <2>2. \A j \in LiveKeys(d) : Shows(rows, d.prefix[j].pages, saved[j])
    BY <1>2, <1>10, <1>11 DEF Shown, LiveKeys
  <2> QED
    BY <1>1, <1>3, <1>9, <2>1, <2>2 DEF Shown, Length
<1>21. ErasesUnused'
  <2>1. ASSUME NEW p \in erase, NEW t \in Slots
        PROVE  p \notin PagesOf(d.page_table[t])
    <3>1. CASE t = s
      BY <1>2, <1>6, <1>11, <1>12, <3>1 DEF ErasesUnused
    <3>2. CASE t # s
      BY <1>2, <1>13, <3>2 DEF ErasesUnused
    <3> QED
      BY <3>1, <3>2
  <2>2. \A p \in erase : \A j \in LiveKeys(d) : p \notin PagesOf(d.prefix[j].pages)
    BY <1>2, <1>10, <1>11 DEF ErasesUnused, LiveKeys
  <2> QED
    BY <1>1, <1>3, <1>9, <2>1, <2>2 DEF ErasesUnused
<1>22. Serving'
  BY <1>3, <1>4, <1>19, <1>20, <1>21 DEF Serving
<1> QED
  BY <1>1, <1>3, <1>8, <1>18, <1>22 DEF IInv

(* Releasing a slot clears what was to be cleared, and no page in use.     *)
LEMMA ReleaseKeeps ==
  ASSUME IInv, NEW s \in Slots, Release(s)
  PROVE  IInv'
<1>1. /\ phase = "ready" /\ UNCHANGED <<phase, prepared, saved>>
      /\ ReleaseSlotOK(cache, s) /\ content' = [content EXCEPT ![s] = <<>>]
      /\ rows' = Flushed(rows) /\ erase' = {}
  BY DEF Release
<1>2. /\ TypeOK /\ Sound(cache) /\ Lengths /\ Shown /\ ErasesUnused
      /\ content \in [Slots -> Contents] /\ saved \in [Keys -> Contents]
      /\ \A t \in Slots : /\ ~Open(cache, t) /\ RestoredMap(cache, t) = cache.page_table[t]
                          /\ Extent(cache, t) = Length(t) /\ cache.kv_length[t] = Length(t)
                          /\ cache.reservation[t] = NoReservation
      /\ \A j \in Keys : saved[j] # <<>> <=> cache.prefix[j].live
  BY <1>1, BetweenRuns
<1> DEFINE d == ReleaseSlot(cache, s)
<1>3. cache' = d
  BY DEF Release
<1>4. Sound(d)
  BY <1>1, <1>2, ReleaseSlotSound
<1>5. cache \in CacheType
  BY <1>2 DEF Sound
<1>6. d \in CacheType
  BY <1>4 DEF Sound
<1>7. /\ d.reservation = cache.reservation /\ d.prefix = DropPrefix(cache, s)
      /\ d.page_table = [cache.page_table EXCEPT ![s] = EmptyMap]
      /\ d.kv_length = [cache.kv_length EXCEPT ![s] = 0]
  <2> DEFINE r == ReleaseMaps(cache, {s}, cache.page_table)
  <2>1. /\ d.ref_count = r.ref_count /\ d.free = r.free
        /\ d.reservation = cache.reservation /\ d.reserved_pages = cache.reserved_pages
        /\ d.older = cache.older /\ d.prefix = DropPrefix(cache, s)
        /\ d.slot_prefix = [cache.slot_prefix EXCEPT ![s] = NoKey]
        /\ d.page_table = [cache.page_table EXCEPT ![s] = EmptyMap]
        /\ d.kv_length = [cache.kv_length EXCEPT ![s] = 0]
        /\ d.slot_generation =
             [cache.slot_generation EXCEPT ![s] = NextGeneration(cache.slot_generation[s])]
    BY <1>5, ReleaseSlotFields
  <2> QED
    BY <2>1
<1> HIDE DEF d
<1>8. \A t \in Slots : ~Open(d, t)
  BY <1>2, <1>7 DEF Open
<1>9. \A t \in Slots : RestoredMap(d, t) = d.page_table[t]
  BY <1>4, <1>8, NothingToRestore
<1>10. /\ d.page_table[s] = EmptyMap /\ d.kv_length[s] = 0
       /\ \A t \in Slots : t # s => /\ d.page_table[t] = cache.page_table[t]
                                    /\ d.kv_length[t] = cache.kv_length[t]
  BY <1>5, <1>7 DEF CacheType
<1>11. \A j \in Keys : /\ d.prefix[j].live = cache.prefix[j].live
                       /\ d.prefix[j].tokens = cache.prefix[j].tokens
                       /\ d.prefix[j].pages = cache.prefix[j].pages
  <2>1. CASE cache.slot_prefix[s] \in LiveKeys(cache)
    <3>1. PICK k \in Keys : k = cache.slot_prefix[s]
      BY <2>1 DEF LiveKeys
    <3>2. d.prefix = [cache.prefix EXCEPT ![k] =
                       [cache.prefix[k] EXCEPT !.slot_references = @ - 1]]
      BY <1>7, <2>1, <3>1, PutExcept DEF DropPrefix
    <3> QED
      BY <1>5, <3>2 DEF CacheType, Prefix
  <2>2. CASE cache.slot_prefix[s] \notin LiveKeys(cache)
    BY <1>7, <2>2 DEF DropPrefix
  <2> QED
    BY <2>1, <2>2
<1>12. LiveKeys(d) = LiveKeys(cache)
  BY <1>11 DEF LiveKeys
<1>13. content'[s] = <<>> /\ \A t \in Slots : t # s => content'[t] = content[t]
  BY <1>1, <1>2
<1>14. erase \subseteq Pages
  BY <1>2 DEF TypeOK
<1>15. TypeOK'
  <2>1. content' \in [Slots -> Contents]
    BY <1>1, <1>2, NothingCached
  <2>2. rows' \in [Rows -> Tokens \cup {Zero, Leftover}]
    BY <1>1, <1>2, RowsTyped DEF TypeOK
  <2> QED
    BY <1>1, <1>2, <1>3, <1>6, <2>1, <2>2 DEF TypeOK
<1>16. Lengths'
  <2>1. ASSUME NEW t \in Slots
        PROVE  d.kv_length[t] = Len(content'[t])
    <3>1. CASE t = s
      BY <1>10, <1>13, <3>1, EmptySeq
    <3>2. CASE t # s
      BY <1>2, <1>10, <1>13, <3>2 DEF Length
    <3> QED
      BY <3>1, <3>2
  <2> QED
    BY <1>1, <1>2, <1>3, <1>11, <2>1 DEF Lengths, Length
<1>17. Shown'
  <2>1. ASSUME NEW t \in Slots
        PROVE  /\ Shows(Flushed(rows), d.page_table[t], content'[t])
               /\ ClearOnRecycle => AheadZero(Flushed(rows), d.page_table[t], Len(content'[t]))
    <3>1. CASE t = s
      BY <1>10, <1>13, <3>1, EmptyShows
    <3>2. CASE t # s
      <4>1. cache.page_table[t] \in PageMap /\ \A p \in erase : p \notin PagesOf(cache.page_table[t])
        BY <1>2, <1>5, Typed DEF ErasesUnused
      <4>2. /\ Shows(rows, cache.page_table[t], content[t])
            /\ ClearOnRecycle => AheadZero(rows, cache.page_table[t], Len(content[t]))
        BY <1>2 DEF Shown, Length
      <4> QED
        BY <1>10, <1>13, <1>14, <3>2, <4>1, <4>2, FlushShows
    <3> QED
      BY <3>1, <3>2
  <2>2. ASSUME NEW j \in LiveKeys(d)
        PROVE  Shows(Flushed(rows), d.prefix[j].pages, saved[j])
    <3>1. j \in LiveKeys(cache) /\ j \in Keys
      BY <1>12 DEF LiveKeys
    <3>2. /\ cache.prefix[j].pages \in PageMap
          /\ \A p \in erase : p \notin PagesOf(cache.prefix[j].pages)
          /\ Shows(rows, cache.prefix[j].pages, saved[j])
      BY <1>2, <1>5, <3>1, Typed DEF ErasesUnused, Shown
    <3> QED
      BY <1>11, <1>14, <3>1, <3>2, FlushShows
  <2> QED
    BY <1>1, <1>3, <1>9, <2>1, <2>2 DEF Shown, Length
<1>18. Serving'
  BY <1>1, <1>3, <1>4, <1>16, <1>17 DEF Serving, ErasesUnused
<1> QED
  BY <1>1, <1>3, <1>8, <1>15, <1>18 DEF IInv

(* Removing idle prefixes from the pages, field by field. *)
LEMMA EvictFields ==
  ASSUME NEW c, Sound(c), NEW n
  PROVE  LET d == Evict(c, n)
         IN  /\ Sound(d)
             /\ d.page_table = c.page_table /\ d.kv_length = c.kv_length
             /\ d.reservation = c.reservation
             /\ \A k \in Keys : \/ d.prefix[k] = c.prefix[k]
                                \/ d.prefix[k] = NoPrefix
<1> DEFINE V == Victims(c, n)
           maps == [k \in Keys |-> c.prefix[k].pages]
           r == ReleaseMaps(c, V, maps)
           d == WithoutPrefixes(c, V)
<1>1. V \in SUBSET Idle(c) /\ V \in SUBSET Keys
  BY DEF Victims, Idle, LiveKeys
<1> HIDE DEF V
<1>2. Sound(d)
  BY <1>1, WithoutPrefixesSound
<1>3. c \in CacheType /\ c.free = {p \in Pages : c.ref_count[p] = 0}
  BY DEF Sound, Counted
<1>4. IsFiniteSet(V)
  BY <1>1, Sizes, Subsets
<1>5. r \in CacheType
  <2>1. MapsReleased(c, r, V, maps)
    BY <1>3, <1>4, ReleaseEffect
  <2> QED
    BY <2>1 DEF MapsReleased
<1>6. /\ d.ref_count = r.ref_count /\ d.free = r.free
      /\ d.page_table = c.page_table /\ d.kv_length = c.kv_length
      /\ d.slot_generation = c.slot_generation /\ d.slot_prefix = c.slot_prefix
      /\ d.reservation = c.reservation /\ d.reserved_pages = c.reserved_pages
      /\ d.prefix = [k \in Keys |-> IF k \in V THEN NoPrefix ELSE c.prefix[k]]
      /\ d.older = Forget(c.older, V)
      /\ d \in CacheType
  BY <1>3, <1>5, WithoutPrefixesFields
<1>7. d = Evict(c, n)
  BY DEF Evict, V
<1> HIDE DEF d, r
<1> QED
  BY <1>2, <1>6, <1>7

(* Evicting keeps the host copy of the prefixes that remain, and only of   *)
(* those.                                                                  *)
LEMMA EvictPrefixesKeeps ==
  ASSUME IInv, EvictPrefixes
  PROVE  IInv'
<1>1. /\ phase = "ready" /\ UNCHANGED <<phase, prepared, content>>
      /\ rows' = Flushed(rows) /\ erase' = {}
  BY DEF EvictPrefixes
<1>2. /\ TypeOK /\ Sound(cache) /\ Lengths /\ Shown /\ ErasesUnused
      /\ content \in [Slots -> Contents] /\ saved \in [Keys -> Contents]
      /\ \A t \in Slots : /\ ~Open(cache, t) /\ RestoredMap(cache, t) = cache.page_table[t]
                          /\ Extent(cache, t) = Length(t) /\ cache.kv_length[t] = Length(t)
                          /\ cache.reservation[t] = NoReservation
      /\ \A j \in Keys : saved[j] # <<>> <=> cache.prefix[j].live
  BY <1>1, BetweenRuns
<1>3. PICK n \in 0 .. MaxPages :
        /\ cache' = Evict(cache, n)
        /\ saved' = [k \in Keys |-> IF k \in Surviving(Evict(cache, n)) THEN saved[k] ELSE <<>>]
  BY DEF EvictPrefixes
<1> DEFINE d == Evict(cache, n)
<1>4. cache \in CacheType
  BY <1>2 DEF Sound
<1>5. /\ Sound(d)
      /\ d.page_table = cache.page_table /\ d.kv_length = cache.kv_length
      /\ d.reservation = cache.reservation
      /\ \A k \in Keys : \/ d.prefix[k] = cache.prefix[k]
                         \/ d.prefix[k] = NoPrefix
  BY <1>2, EvictFields
<1>6. cache' = d /\ saved' = [k \in Keys |-> IF k \in LiveKeys(d) THEN saved[k] ELSE <<>>]
  BY <1>3 DEF Surviving
<1>7. d \in CacheType
  BY <1>5 DEF Sound
<1> HIDE DEF d
<1>8. \A t \in Slots : ~Open(d, t)
  BY <1>2, <1>5 DEF Open
<1>9. \A t \in Slots : RestoredMap(d, t) = cache.page_table[t]
  BY <1>5, <1>8, NothingToRestore
<1>10. \A k \in LiveKeys(d) : k \in Keys /\ k \in LiveKeys(cache) /\ d.prefix[k] = cache.prefix[k]
  BY <1>5 DEF LiveKeys, NoPrefix
<1>11. erase \subseteq Pages
  BY <1>2 DEF TypeOK
<1>12. TypeOK'
  <2>1. rows' \in [Rows -> Tokens \cup {Zero, Leftover}]
    BY <1>1, <1>2, RowsTyped DEF TypeOK
  <2>2. saved' \in [Keys -> Contents]
    BY <1>2, <1>6, NothingCached
  <2> QED
    BY <1>1, <1>2, <1>6, <1>7, <2>1, <2>2 DEF TypeOK
<1>13. Lengths'
  <2>1. ASSUME NEW k \in Keys
        PROVE  Len(saved'[k]) = (IF d.prefix[k].live THEN d.prefix[k].tokens ELSE 0)
    <3>1. CASE k \in LiveKeys(d)
      BY <1>2, <1>6, <1>10, <3>1 DEF Lengths, LiveKeys
    <3>2. CASE k \notin LiveKeys(d)
      <4>1. saved'[k] = <<>> /\ ~d.prefix[k].live
        BY <1>6, <3>2 DEF LiveKeys
      <4> QED
        BY <4>1, EmptySeq
    <3> QED
      BY <3>1, <3>2
  <2>2. \A t \in Slots : d.kv_length[t] = Len(content[t])
    BY <1>2, <1>5 DEF Length
  <2> QED
    BY <1>1, <1>6, <2>1, <2>2 DEF Lengths, Length
<1>14. Shown'
  <2>1. ASSUME NEW t \in Slots
        PROVE  /\ Shows(Flushed(rows), cache.page_table[t], content[t])
               /\ ClearOnRecycle => AheadZero(Flushed(rows), cache.page_table[t], Len(content[t]))
    <3>1. cache.page_table[t] \in PageMap /\ \A p \in erase : p \notin PagesOf(cache.page_table[t])
      BY <1>2, <1>4, Typed DEF ErasesUnused
    <3>2. /\ Shows(rows, cache.page_table[t], content[t])
          /\ ClearOnRecycle => AheadZero(rows, cache.page_table[t], Len(content[t]))
      BY <1>2 DEF Shown, Length
    <3> QED
      BY <1>11, <3>1, <3>2, FlushShows
  <2>2. ASSUME NEW k \in LiveKeys(d)
        PROVE  Shows(Flushed(rows), d.prefix[k].pages, saved'[k])
    <3>1. k \in Keys /\ k \in LiveKeys(cache) /\ d.prefix[k] = cache.prefix[k]
      BY <1>10
    <3>2. /\ cache.prefix[k].pages \in PageMap
          /\ \A p \in erase : p \notin PagesOf(cache.prefix[k].pages)
          /\ Shows(rows, cache.prefix[k].pages, saved[k])
      BY <1>2, <1>4, <3>1, Typed DEF ErasesUnused, Shown
    <3>3. saved'[k] = saved[k]
      BY <1>6, <3>1
    <3> QED
      BY <1>11, <3>1, <3>2, <3>3, FlushShows
  <2> QED
    BY <1>1, <1>6, <1>9, <2>1, <2>2 DEF Shown, Length
<1>15. Serving'
  BY <1>1, <1>5, <1>6, <1>13, <1>14 DEF Serving, ErasesUnused
<1> QED
  BY <1>1, <1>6, <1>8, <1>12, <1>15 DEF IInv

-----------------------------------------------------------------------------
(* The theorems.                                                           *)

(* Every step, and the step that changes nothing, keeps the invariant.     *)
LEMMA NextKeeps == IInv /\ [Next]_vars => IInv'
<1> SUFFICES ASSUME IInv, [Next]_vars
             PROVE  IInv'
  OBVIOUS
<1>1. TypeOK
  BY DEF IInv
<1>2. CASE InitializeOpen
  BY <1>2, InitializeOpenKeeps
<1>3. CASE InitializeRefused
  BY <1>3, InitializeRefusedKeeps
<1>4. CASE InitializeCommit
  BY <1>4, InitializeCommitKeeps
<1>5. CASE InitializeFail
  BY <1>1, <1>5, ClearKeeps DEF InitializeFail
<1>6. CASE StepOpen
  BY <1>6, StepOpenKeeps
<1>7. CASE StepRefused
  BY <1>7, StepRefusedKeeps
<1>8. CASE StepCommit
  BY <1>8, StepCommitKeeps
<1>9. CASE StepFail
  BY <1>1, <1>9, ClearKeeps DEF StepFail
<1>16. CASE GenerateOpen
  BY <1>16, GenerateOpenKeeps
<1>17. CASE GenerateCommit
  BY <1>17, GenerateCommitKeeps
<1>10. ASSUME NEW s \in Slots, Release(s) PROVE IInv'
  BY <1>10, ReleaseKeeps
<1>11. ASSUME NEW s \in Slots, NEW k \in Keys, PublishPrefix(k, s) PROVE IInv'
  BY <1>11, PublishPrefixKeeps
<1>12. ASSUME NEW s \in Slots, NEW k \in Keys, Reuse(k, s) PROVE IInv'
  BY <1>12, ReuseKeeps
<1>13. CASE EvictPrefixes
  BY <1>13, EvictPrefixesKeeps
<1>14. CASE CommandFail
  BY <1>1, <1>14, ClearKeeps DEF CommandFail
<1>15. CASE UNCHANGED vars
  BY <1>15 DEF vars, IInv, TypeOK, Prompted, Serving, Lengths, Shown, ErasesUnused, Reserving,
               Generating, TakenAlone, FreshAlone, InStep, Length
<1> QED
  BY <1>2, <1>3, <1>4, <1>5, <1>6, <1>7, <1>8, <1>9, <1>10, <1>11, <1>12, <1>13, <1>14, <1>15,
     <1>16, <1>17
     DEF Next

(* The invariant holds in every state of a decode cache. *)
THEOREM DecodeInvariant == Spec => []IInv
<1>1. Init => IInv
  BY InitKeeps
<1>2. IInv /\ [Next]_vars => IInv'
  BY NextKeeps
<1> QED
  BY <1>1, <1>2, PTL DEF Spec

(* The variables have their types. *)
THEOREM DecodeTypeCorrect == Spec => []TypeOK
<1>1. IInv => TypeOK
  BY DEF IInv
<1> QED
  BY <1>1, DecodeInvariant, PTL

(* Attention reads what was decoded: whatever pages were shared, copied,   *)
(* cleared, reserved and given back, the row of each active token is the   *)
(* one computed from it, and a published prefix still holds its rows.      *)
THEOREM DecodedRowsFollowInputs == Spec => []RowsFollowInputs
<1>1. IInv => RowsFollowInputs
  <2> SUFFICES ASSUME IInv, phase \in {"ready", "reserved", "generating"}
               PROVE  /\ phase = "ready" => \A s \in Slots : \A t \in 0 .. Length(s) - 1 :
                           /\ Mapped(cache, s, t)
                           /\ rows[Physical(cache, s, t)] = content[s][t + 1]
                      /\ \A k \in LiveKeys(cache) : \A t \in 0 .. Len(saved[k]) - 1 :
                           rows[RowAt(cache.prefix[k].pages, t)] = saved[k][t + 1]
    BY DEF RowsFollowInputs
  <2>1. TypeOK /\ Serving
    BY DEF IInv
  <2>2. ASSUME phase = "ready", NEW s \in Slots, NEW t \in 0 .. Length(s) - 1
        PROVE  Mapped(cache, s, t) /\ rows[Physical(cache, s, t)] = content[s][t + 1]
    <3>1. /\ Sound(cache) /\ ~Open(cache, s) /\ content \in [Slots -> Contents]
          /\ Shows(rows, RestoredMap(cache, s), content[s])
      BY <2>1, <2>2 DEF IInv, Serving, Shown, TypeOK
    <3>2. Shows(rows, cache.page_table[s], content[s])
      BY <3>1, NothingToRestore
    <3>3. Len(content[s]) \in 0 .. SlotTokenCapacity /\ t \in 0 .. Len(content[s]) - 1
      BY <2>2, <3>1, ContentsTyped DEF Length
    <3> QED
      BY <3>2, <3>3, ShownReads DEF Mapped, Physical
  <2>3. ASSUME NEW k \in LiveKeys(cache), NEW t \in 0 .. Len(saved[k]) - 1
        PROVE  rows[RowAt(cache.prefix[k].pages, t)] = saved[k][t + 1]
    <3>1. Shows(rows, cache.prefix[k].pages, saved[k])
      BY <2>1 DEF Serving, Shown
    <3>2. saved[k] \in Contents
      BY <2>1 DEF TypeOK, LiveKeys
    <3>3. Len(saved[k]) \in 0 .. SlotTokenCapacity
      BY <3>2, ContentsFit
    <3> QED
      BY <3>1, <3>3, ShownReads
  <2> QED
    BY <2>2, <2>3
<1> QED
  BY <1>1, DecodeInvariant, PTL

(* The three records of what is cached agree between runs, and an open run *)
(* can always be settled.                                                  *)
THEOREM DecodeTrackingAgrees == Spec => []TrackingAgrees
<1>1. IInv => TrackingAgrees
  <2> SUFFICES ASSUME IInv
               PROVE  TrackingAgrees
    OBVIOUS
  <2>1. ASSUME phase \in {"reserved", "generating"}
        PROVE  InStep # {} /\ CommitOK(cache, InStep)
    <3>1. Sound(cache)
      BY <2>1 DEF IInv, Serving
    <3>3. InStep # {}
      <4>1. CASE phase = "reserved"
        BY <4>1 DEF IInv, Reserving
      <4>2. CASE phase = "generating"
        BY <4>2, OneSlot DEF IInv, Generating, InStep
      <4> QED
        BY <2>1, <4>1, <4>2
    <3>2. InStep \in SUBSET {s \in Slots : Open(cache, s)}
      BY DEF InStep
    <3> QED
      BY <3>1, <3>2, <3>3, OpenSettles
  <2>2. ASSUME phase = "ready"
        PROVE  /\ \A s \in Slots : cache.kv_length[s] = Length(s) /\ ~Open(cache, s)
               /\ cache.reserved_pages = 0
               /\ \A k \in Keys :
                    Len(saved[k]) = (IF cache.prefix[k].live THEN cache.prefix[k].tokens ELSE 0)
    <3>1. /\ Sound(cache) /\ Lengths
          /\ \A s \in Slots : ~Open(cache, s) /\ cache.reservation[s] = NoReservation
      BY <2>2, BetweenRuns
    <3>2. ReservedBy(cache, Slots) = 0
      <4>1. \A s \in Slots : cache.reservation[s].fresh = {}
        BY <3>1, NothingReserved
      <4>2. {x \in Slots \X Logical : x[2] \in cache.reservation[x[1]].fresh} = {}
        BY <4>1
      <4> QED
        BY <4>2, FS_EmptySet DEF ReservedBy
    <3> QED
      BY <3>1, <3>2 DEF Lengths, Sound, ReservedCounted
  <2> QED
    BY <2>1, <2>2 DEF TrackingAgrees
<1> QED
  BY <1>1, DecodeInvariant, PTL

(* With clear_on_recycle the pages ahead of a slot's tokens are cleared.   *)
THEOREM DecodePagesAheadClear == Spec => []PagesAheadClear
<1>1. IInv => PagesAheadClear
  <2> SUFFICES ASSUME IInv, ClearOnRecycle, phase = "ready",
                      NEW s \in Slots, NEW l \in Logical,
                      NEW r \in RowsOfPage(cache.page_table[s][l]),
                      cache.page_table[s][l] # Unmapped, l * PageTokens >= Length(s)
               PROVE  rows[r] = Zero
    BY DEF PagesAheadClear
  <2>1. /\ cache \in CacheType /\ Shown /\ RestoredMap(cache, s) = cache.page_table[s]
    BY BetweenRuns DEF Sound
  <2>2. AheadZero(rows, cache.page_table[s], Length(s))
    BY <2>1 DEF Shown
  <2>3. PICK p \in Pages : p = cache.page_table[s][l]
    BY <2>1, Typed DEF PageMap
  <2>4. PICK o \in Offsets : r = RowIn(p, o)
    <3>1. \A a, b \in Nat : a * b \in Nat
      BY Z3
    <3>2. p \in Nat
      BY Sizes DEF Pages
    <3>3. PICK start \in Nat : start = p * PageTokens
      BY <3>1, <3>2, Sizes
    <3>4. r \in start .. start + PageTokens - 1
      BY <2>3, <3>3 DEF RowsOfPage
    <3>5. r - start \in 0 .. PageTokens - 1 /\ r = start + (r - start)
      BY <3>3, <3>4, Sizes
    <3> QED
      BY <3>3, <3>5 DEF Offsets, RowIn
  <2> QED
    BY <2>2, <2>3, <2>4 DEF AheadZero, Start
<1> QED
  BY <1>1, DecodeInvariant, PTL
=============================================================================
