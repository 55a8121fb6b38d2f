--------------------------- MODULE ApiModuleProofs ---------------------------
(***************************************************************************)
(* Theorems about the module instance of ApiModule, for every number of    *)
(* ids, hash function, set of calls and set of budgets.  First the handle  *)
(* table: a table in which every id can be probed for (TableOK) stays one  *)
(* through insertion, growth, rehash and removal, and holds what was put   *)
(* in and not taken out.  Then the registry and the leases: IInv is the    *)
(* inductive invariant.                                                    *)
(***************************************************************************)
EXTENDS ApiModule, SequenceTheorems, FiniteSetTheorems, WellFoundedInduction, TLAPS

PlaceOp(ids, i, slots) == Place(slots, ids[i])
DoubleOp(live, i, capacity) == Doubled(live, capacity)
PlaceFold == INSTANCE Folding WITH Op <- PlaceOp, Choose <- Max
DoubleFold == INSTANCE Folding WITH Op <- DoubleOp, Choose <- Max

-----------------------------------------------------------------------------
(* Every family of parts of S has a minimal member, as of a finite set. *)
Grounded(S) ==
  \A C \in SUBSET (SUBSET S) : C # {} => \E X \in C : \A Y \in C : Y \subseteq X => Y = X

(* An interval is finite. *)
LEMMA IntervalGrounded == \A m, n \in Int : Grounded(m .. n)
<1> TAKE m, n \in Int
<1>1. IsFiniteSet(m .. n)
  BY FS_Interval
<1>2. FiniteSubsetsOf(m .. n) = SUBSET (m .. n)
  BY <1>1, FS_FiniteSubsetsOfFinite
<1>3. SUFFICES ASSUME NEW C \in SUBSET (SUBSET (m .. n)), C # {}
               PROVE  \E X \in C : \A Y \in C : Y \subseteq X => Y = X
  BY DEF Grounded
<1> DEFINE S == m .. n
<1> HIDE DEF S
<1>4. IsWellFoundedOn(StrictSubsetOrdering(S), FiniteSubsetsOf(S))
  BY FS_StrictSubsetOrderingWellFounded
<1>5. \E X \in C : \A Y \in C : ~ (<<Y, X>> \in StrictSubsetOrdering(S))
  BY <1>2, <1>3, <1>4, WFMin DEF S
<1> USE DEF S
<1> QED
  BY <1>3, <1>5 DEF StrictSubsetOrdering

-----------------------------------------------------------------------------
(* The slots of a table. *)

Content == Ids \cup {Empty, Tombstone}
Slots == UNION {[1 .. n -> Content] : n \in Nat}

(* No id is in two slots. *)
Single(slots) ==
  \A p, q \in DOMAIN slots : slots[p] = slots[q] /\ slots[p] \in Ids => p = q

(* A lookup gets to the slot of each id before an empty one. *)
Reaches(slots, id, p) ==
  \E d \in 0 .. Len(slots) - 1 :
    /\ p = SlotFor(slots, id, d)
    /\ \A e \in 0 .. d - 1 : slots[SlotFor(slots, id, e)] \notin {Empty, id}
Probed(slots) ==
  \A p \in DOMAIN slots : slots[p] \in Ids => Reaches(slots, slots[p], p)

Live(slots) == {p \in DOMAIN slots : slots[p] \in Ids}
Used(slots) == {p \in DOMAIN slots : slots[p] # Empty}
Stored(slots, id) == \E p \in DOMAIN slots : slots[p] = id

TableOK(t) ==
  /\ t.slots \in Slots /\ Single(t.slots) /\ Probed(t.slots)
  /\ t.live = Cardinality(Live(t.slots)) /\ t.occupied = Cardinality(Used(t.slots))
  /\ t.occupied * 2 <= Len(t.slots)

(* The assumptions in a form the provers use. *)
LEMMA Sizes ==
  /\ LastId \in Nat \ {0} /\ Ids = 1 .. LastId /\ Empty \notin Ids /\ Tombstone \notin Ids
  /\ Empty # Tombstone
  /\ \A i \in Ids : Hash[i] \in Nat
  /\ MinCapacity \in Nat /\ MinCapacity >= 2
BY MinCapacityAssumption, HashAssumption DEF Ids, Empty, Tombstone

(* What is a sequence of slots. *)
LEMMA SlotsTyped ==
  ASSUME NEW slots \in Slots
  PROVE  /\ Len(slots) \in Nat /\ DOMAIN slots = 1 .. Len(slots)
         /\ \A p \in 1 .. Len(slots) : slots[p] \in Content
         /\ slots \in Seq(Content)
         /\ slots \in [1 .. Len(slots) -> Content]
<1>1. PICK n \in Nat : slots \in [1 .. n -> Content]
  BY DEF Slots
<1>2. slots \in Seq(Content)
  BY <1>1, IsASeq
<1>3. Len(slots) = n /\ DOMAIN slots = 1 .. n
  BY <1>1, <1>2, LenProperties
<1> QED
  BY <1>1, <1>2, <1>3

(* A probe stays in the table, and comes past every slot of it. *)
LEMMA ProbeTotal ==
  ASSUME NEW slots \in Slots, NEW id \in Ids
  PROVE  /\ Len(slots) > 0 => \A d \in Nat : SlotFor(slots, id, d) \in 1 .. Len(slots)
         /\ \A p \in 1 .. Len(slots) : \E d \in 0 .. Len(slots) - 1 : SlotFor(slots, id, d) = p
<1> DEFINE n == Len(slots)
           h == Hash[id]
<1>1. n \in Nat /\ h \in Nat
  BY SlotsTyped, Sizes
<1>2. \A d : SlotFor(slots, id, d) = ((h + d) % n) + 1
  BY DEF SlotFor
<1> HIDE DEF n, h
<1>3. ASSUME n > 0, NEW d \in Nat
      PROVE  ((h + d) % n) + 1 \in 1 .. n
  <2>1. h + d \in Nat
    BY <1>1
  <2>2. (h + d) % n \in 0 .. n - 1
    BY <1>1, <1>3, <2>1, Z3
  <2> QED
    BY <1>1, <2>2
<1>4. ASSUME NEW p \in 1 .. n
      PROVE  \E d \in 0 .. n - 1 : ((h + d) % n) + 1 = p
  <2>1. \A a, b, m \in Nat : m > 0 /\ a < m => \E d \in 0 .. m - 1 : (b + d) % m = a
    <3> SUFFICES ASSUME NEW a \in Nat, NEW b \in Nat, NEW m \in Nat, m > 0, a < m
                 PROVE  \E d \in 0 .. m - 1 : (b + d) % m = a
      OBVIOUS
    <3> DEFINE r == b % m
               q == b \div m
    <3>1. r \in 0 .. m - 1 /\ q \in Nat /\ b = m * q + r
      BY Z3
    <3> HIDE DEF r, q
    <3>2. CASE r <= a
      <4>1. a - r \in 0 .. m - 1 /\ b + (a - r) = m * q + a
        BY <3>1, <3>2
      <4>2. (m * q + a) % m = a
        BY <3>1, Z3
      <4> QED
        BY <4>1, <4>2
    <3>3. CASE a < r
      <4>1. (m + a) - r \in 0 .. m - 1 /\ b + ((m + a) - r) = m * (q + 1) + a
        BY <3>1, <3>3
      <4>2. (m * (q + 1) + a) % m = a
        BY <3>1, Z3
      <4> QED
        BY <4>1, <4>2
    <3> QED
      BY <3>1, <3>2, <3>3
  <2>2. n > 0 /\ p - 1 \in Nat /\ p - 1 < n
    BY <1>1
  <2>3. PICK d \in 0 .. n - 1 : (h + d) % n = p - 1
    BY <1>1, <2>1, <2>2
  <2> QED
    BY <1>1, <2>3
<1> QED
  BY <1>2, <1>3, <1>4 DEF n

(* A lookup finds exactly what is stored. *)
LEMMA LookupFinds ==
  ASSUME NEW t, t.slots \in Slots, Probed(t.slots), NEW id \in Ids
  PROVE  /\ Found(t, id) = {p \in DOMAIN t.slots : t.slots[p] = id}
         /\ Found(t, id) # {} <=> Stored(t.slots, id)
<1>1. ASSUME NEW p \in DOMAIN t.slots, t.slots[p] = id
      PROVE  Reaches(t.slots, id, p)
  BY <1>1 DEF Probed
<1>2. Found(t, id) = {p \in DOMAIN t.slots : t.slots[p] = id /\ Reaches(t.slots, id, p)}
  BY DEF Found, Reaches
<1>3. Found(t, id) = {p \in DOMAIN t.slots : t.slots[p] = id}
  BY <1>1, <1>2
<1> QED
  BY <1>3 DEF Stored

(* The slots in use are finitely many. *)
LEMMA Counts ==
  ASSUME NEW slots \in Slots
  PROVE  /\ IsFiniteSet(Live(slots)) /\ IsFiniteSet(Used(slots))
         /\ Cardinality(Live(slots)) \in Nat /\ Cardinality(Used(slots)) \in Nat
         /\ Live(slots) \subseteq Used(slots)
         /\ Cardinality(Live(slots)) <= Cardinality(Used(slots))
<1>1. DOMAIN slots = 1 .. Len(slots) /\ Len(slots) \in Nat
  BY SlotsTyped
<1>2. IsFiniteSet(DOMAIN slots)
  BY <1>1, FS_Interval
<1>3. Used(slots) \subseteq DOMAIN slots /\ Live(slots) \subseteq Used(slots)
  BY Sizes DEF Used, Live
<1>4. IsFiniteSet(Used(slots))
  BY <1>2, <1>3, FS_Subset
<1>5. IsFiniteSet(Live(slots)) /\ Cardinality(Live(slots)) <= Cardinality(Used(slots))
  BY <1>3, <1>4, FS_Subset
<1> QED
  BY <1>3, <1>4, <1>5, FS_CardinalityType

(* The slot that an insertion takes: its probe passed over ids only. *)
LEMMA FreeSlotFound ==
  ASSUME NEW slots \in Slots, NEW id \in Ids, Cardinality(Used(slots)) < Len(slots)
  PROVE  LET f == FreeSlot(slots, id)
         IN  /\ f \in 1 .. Len(slots) /\ slots[f] \in {Empty, Tombstone}
             /\ \E d \in 0 .. Len(slots) - 1 :
                  /\ f = SlotFor(slots, id, d)
                  /\ \A e \in 0 .. d - 1 : slots[SlotFor(slots, id, e)] \in Ids
<1> DEFINE n == Len(slots)
           F == {d \in 0 .. n - 1 : slots[SlotFor(slots, id, d)] <= 0}
<1>1. n \in Nat /\ DOMAIN slots = 1 .. n /\ \A p \in 1 .. n : slots[p] \in Content
  BY SlotsTyped
<1>2. n > 0
  BY <1>1, Counts
<1>3. \A d \in 0 .. n - 1 : SlotFor(slots, id, d) \in 1 .. n
  <2>1. \A d \in Nat : SlotFor(slots, id, d) \in 1 .. n
    BY <1>2, ProbeTotal
  <2> QED
    BY <1>1, <2>1
<1>4. \A x \in Content : (x <= 0 <=> x \in {Empty, Tombstone}) /\ (x \in Ids <=> ~(x <= 0))
  BY Sizes DEF Content, Empty, Tombstone
<1>5. F # {}
  <2>1. PICK p \in 1 .. n : slots[p] = Empty
    <3>1. SUFFICES ASSUME \A p \in 1 .. n : slots[p] # Empty PROVE FALSE
      OBVIOUS
    <3>2. Used(slots) = 1 .. n
      BY <1>1, <3>1 DEF Used
    <3>3. Cardinality(1 .. n) = n
      BY <1>1, FS_Interval
    <3> HIDE DEF n
    <3> QED
      BY <1>1, <3>2, <3>3 DEF n
  <2>2. PICK d \in 0 .. n - 1 : SlotFor(slots, id, d) = p
    BY <1>1, ProbeTotal
  <2>3. slots[SlotFor(slots, id, d)] <= 0
    BY <1>4, <2>1, <2>2 DEF Content
  <2> QED
    BY <2>3
<1>6. F \in SUBSET (0 .. n - 1) /\ 0 \in Int /\ n - 1 \in Int
  BY <1>1
<1> HIDE DEF F
<1>7. PICK d \in F : d = Min(F) /\ \A e \in F : d <= e
  <2>1. PlaceFold!Min(F) = Min(F)
    BY DEF PlaceFold!Min, Min
  <2>2. PlaceFold!Grounded(0 .. n - 1)
    <3>1. Grounded(0 .. n - 1)
      BY <1>6, IntervalGrounded
    <3> QED
      BY <3>1 DEF Grounded, PlaceFold!Grounded
  <2>3. PlaceFold!Min(F) \in F /\ \A e \in F : PlaceFold!Min(F) <= e
    BY <1>5, <1>6, <2>2, PlaceFold!Ends
  <2> QED
    BY <2>1, <2>3
<1>8. d \in 0 .. n - 1 /\ slots[SlotFor(slots, id, d)] <= 0
  BY DEF F
<1>9. FreeSlot(slots, id) = SlotFor(slots, id, d)
  BY <1>7 DEF FreeSlot, F
<1>10. ASSUME NEW e \in 0 .. d - 1 PROVE slots[SlotFor(slots, id, e)] \in Ids
  <2>1. e \in 0 .. n - 1 /\ ~(d <= e)
    BY <1>1, <1>8
  <2>2. e \notin F
    BY <1>7, <2>1
  <2>3. ~(slots[SlotFor(slots, id, e)] <= 0)
    BY <2>1, <2>2 DEF F
  <2> QED
    BY <1>1, <1>3, <1>4, <2>1, <2>3
<1> QED
  BY <1>1, <1>3, <1>4, <1>8, <1>9, <1>10

(* Storing one id more in the slot its insertion takes. *)
Put(slots, id) == [slots EXCEPT ![FreeSlot(slots, id)] = id]

LEMMA PutStores ==
  ASSUME NEW slots \in Slots, Single(slots), Probed(slots), NEW id \in Ids,
         Cardinality(Used(slots)) < Len(slots), ~Stored(slots, id)
  PROVE  LET new == Put(slots, id)
             f == FreeSlot(slots, id)
         IN  /\ new \in Slots /\ Len(new) = Len(slots) /\ Single(new) /\ Probed(new)
             /\ f \in 1 .. Len(slots) /\ f \notin Live(slots)
             /\ Live(new) = Live(slots) \cup {f} /\ Used(new) = Used(slots) \cup {f}
             /\ \A j \in Ids : Stored(new, j) <=> Stored(slots, j) \/ j = id
<1> DEFINE f == FreeSlot(slots, id)
           new == Put(slots, id)
           n == Len(slots)
<1>1. n \in Nat /\ DOMAIN slots = 1 .. n /\ slots \in [1 .. n -> Content]
  BY SlotsTyped
<1>2. f \in 1 .. n /\ slots[f] \in {Empty, Tombstone}
  BY FreeSlotFound
<1>3. PICK d \in 0 .. n - 1 : /\ f = SlotFor(slots, id, d)
                              /\ \A e \in 0 .. d - 1 : slots[SlotFor(slots, id, e)] \in Ids
  BY FreeSlotFound
<1>4. slots[f] \notin Ids
  BY <1>2, Sizes
<1> HIDE DEF f
<1>5. new = [slots EXCEPT ![f] = id]
  BY DEF Put, f
<1> HIDE DEF n
<1>6. new \in [1 .. n -> Content] /\ DOMAIN new = 1 .. n
  BY <1>1, <1>2, <1>5 DEF Content
<1>7. \A p \in 1 .. n : new[p] = IF p = f THEN id ELSE slots[p]
  BY <1>1, <1>2, <1>5
<1> HIDE DEF new
<1>8. new \in Slots
  BY <1>1, <1>6 DEF Slots
<1>9. Len(new) = n
  <2>1. DOMAIN new = 1 .. Len(new) /\ Len(new) \in Nat
    BY <1>8, SlotsTyped
  <2> QED
    BY <1>1, <1>6, <2>1
<1>10. \A p \in 1 .. n : slots[p] # id
  BY <1>1 DEF Stored
<1>11. Single(new)
  BY <1>1, <1>6, <1>7, <1>10 DEF Single
<1>12. \A i, e : SlotFor(new, i, e) = SlotFor(slots, i, e)
  BY <1>9 DEF SlotFor, n
<1>13. \A i \in Ids : \A e \in 0 .. n - 1 : SlotFor(slots, i, e) \in 1 .. n
  <2> TAKE i \in Ids
  <2>1. n > 0
    BY <1>1, <1>2
  <2>2. \A e \in Nat : SlotFor(slots, i, e) \in 1 .. n
    BY <2>1, ProbeTotal DEF n
  <2> QED
    BY <1>1, <2>2
<1>14. ASSUME NEW p \in 1 .. n, new[p] \in Ids
       PROVE  Reaches(new, new[p], p)
  <2>1. CASE p = f
    <3>1. \A e \in 0 .. d - 1 : /\ e \in 0 .. n - 1 /\ SlotFor(slots, id, e) # f
                                /\ SlotFor(slots, id, e) \in 1 .. n
      BY <1>1, <1>3, <1>4, <1>13
    <3>2. \A e \in 0 .. d - 1 : new[SlotFor(slots, id, e)] = slots[SlotFor(slots, id, e)]
      BY <1>7, <3>1
    <3>3. \A e \in 0 .. d - 1 : new[SlotFor(slots, id, e)] \notin {Empty, id}
      BY <1>3, <1>10, <3>1, <3>2, Sizes
    <3>4. new[p] = id /\ p = SlotFor(slots, id, d)
      BY <1>3, <1>7, <2>1
    <3> QED
      BY <1>9, <1>12, <3>3, <3>4 DEF Reaches, n
  <2>2. CASE p # f
    <3> DEFINE i == slots[p]
    <3>1. new[p] = i /\ i \in Ids
      BY <1>7, <1>14, <2>2
    <3>2. Reaches(slots, i, p)
      BY <1>1, <3>1 DEF Probed
    <3> HIDE DEF i
    <3>3. PICK a \in 0 .. n - 1 :
            /\ p = SlotFor(slots, i, a)
            /\ \A e \in 0 .. a - 1 : slots[SlotFor(slots, i, e)] \notin {Empty, i}
      BY <3>2 DEF Reaches, n
    <3>4. id # i
      BY <1>10, <3>1 DEF i
    <3>5. \A e \in 0 .. a - 1 : new[SlotFor(slots, i, e)] \notin {Empty, i}
      <4> TAKE e \in 0 .. a - 1
      <4>1. SlotFor(slots, i, e) \in 1 .. n
        BY <1>1, <1>13, <3>1
      <4> QED
        BY <1>7, <3>3, <3>4, <4>1, Sizes
    <3> QED
      BY <1>9, <1>12, <3>1, <3>3, <3>5 DEF Reaches, n
  <2> QED
    BY <2>1, <2>2
<1>15. Probed(new)
  BY <1>6, <1>14 DEF Probed
<1>16. Live(new) = Live(slots) \cup {f} /\ f \notin Live(slots)
  BY <1>1, <1>2, <1>4, <1>6, <1>7 DEF Live
<1>17. Used(new) = Used(slots) \cup {f}
  BY <1>1, <1>2, <1>6, <1>7, Sizes DEF Used
<1>18. \A j \in Ids : Stored(new, j) <=> Stored(slots, j) \/ j = id
  <2> TAKE j \in Ids
  <2>1. Stored(new, j) => Stored(slots, j) \/ j = id
    BY <1>1, <1>6, <1>7 DEF Stored
  <2>2. Stored(slots, j) => Stored(new, j)
    BY <1>1, <1>4, <1>6, <1>7 DEF Stored
  <2>3. Stored(new, id)
    BY <1>2, <1>6, <1>7 DEF Stored
  <2> QED
    BY <2>1, <2>2, <2>3
<1> QED
  BY <1>2, <1>8, <1>9, <1>11, <1>15, <1>16, <1>17, <1>18 DEF new, f, n

-----------------------------------------------------------------------------
(* Growth. *)

(* Doubling stops at a capacity of which the live ids and one more fill at *)
(* most half.                                                              *)
LEMMA CapacityFits ==
  ASSUME NEW t, t.slots \in Slots, t.live \in Nat
  PROVE  TargetCapacity(t) \in Nat /\ (t.live + 1) * 2 <= TargetCapacity(t)
<1> DEFINE n == t.live + 1
           from == IF t.slots = <<>> THEN MinCapacity ELSE Len(t.slots)
           G == [X \in DoubleFold!Segments(n) |->
                  {c \in Nat : c >= 1 /\ (c >= n * 2 \/ \A i \in X : c >= i * 2)}]
<1>1. n \in Nat
  OBVIOUS
<1>2. from \in Nat /\ from >= 1
  <2>1. CASE t.slots = <<>>
    BY <2>1, Sizes
  <2>2. CASE t.slots # <<>>
    <3>1. Len(t.slots) \in Nat /\ t.slots \in Seq(Content)
      BY SlotsTyped
    <3>2. Len(t.slots) # 0
      BY <2>2, <3>1, EmptySeq
    <3> QED
      BY <2>2, <3>1, <3>2
  <2> QED
    BY <2>1, <2>2
<1>3. TargetCapacity(t) = DoubleFold!Fold(t.live, from, 1 .. n)[1 .. n]
  BY DEF TargetCapacity, FoldLeft, MapThenFoldSet, DoubleFold!Fold, DoubleFold!Iteration, DoubleOp
<1> HIDE DEF from
<1>4. DoubleFold!Grounded(1 .. n)
  <2>1. 1 \in Int /\ n \in Int
    BY <1>1
  <2> HIDE DEF n
  <2>2. Grounded(1 .. n)
    BY <2>1, IntervalGrounded
  <2> QED
    BY <2>2 DEF Grounded, DoubleFold!Grounded
<1>5. /\ DoubleFold!Segments(n) \in SUBSET (SUBSET (1 .. n)) /\ 1 .. n \in DoubleFold!Segments(n)
      /\ \A X \in DoubleFold!Segments(n) : X # {} =>
           \E i \in 1 .. n : /\ Max(X) = i /\ X = 1 .. i
                             /\ X \ {i} = 1 .. i - 1 /\ X \ {i} \in DoubleFold!Segments(n)
  <2>1. \A X : DoubleFold!Max(X) = Max(X)
    BY DEF DoubleFold!Max, Max
  <2> QED
    BY <1>1, <1>4, <2>1, DoubleFold!SegmentsInOrder
<1>6. DoubleFold!Chooses(1 .. n)
  <2>1. \A X \in SUBSET (1 .. n) : X # {} => Max(X) \in X
    <3> TAKE X \in SUBSET (1 .. n)
    <3> HAVE X # {}
    <3>1. DoubleFold!Max(X) = Max(X)
      BY DEF DoubleFold!Max, Max
    <3>2. 1 \in Int /\ n \in Int
      BY <1>1
    <3> HIDE DEF n
    <3>3. DoubleFold!Max(X) \in X
      BY <1>4, <3>2, DoubleFold!Ends
    <3> QED
      BY <3>1, <3>3
  <2> QED
    BY <2>1 DEF DoubleFold!Chooses
<1>7. \A X \in DoubleFold!Segments(n) : X = {} => from \in G[X]
  BY <1>2
<1>8. \A X \in DoubleFold!Segments(n) : X # {} =>
        /\ X \ {Max(X)} \in DoubleFold!Segments(n)
        /\ \A d \in G[X \ {Max(X)}] : DoubleOp(t.live, Max(X), d) \in G[X]
  <2> TAKE X \in DoubleFold!Segments(n)
  <2> HAVE X # {}
  <2>1. PICK i \in 1 .. n : /\ Max(X) = i /\ X = 1 .. i
                            /\ X \ {i} = 1 .. i - 1 /\ X \ {i} \in DoubleFold!Segments(n)
    BY <1>5
  <2>2. ASSUME NEW d \in G[X \ {i}]
        PROVE  DoubleOp(t.live, i, d) \in G[X]
    <3>1. d \in Nat /\ d >= 1 /\ (d >= n * 2 \/ \A j \in 1 .. i - 1 : d >= j * 2)
      BY <2>1, <2>2
    <3>2. DoubleOp(t.live, i, d) = IF n * 2 > d THEN d * 2 ELSE d
      BY DEF DoubleOp, Doubled
    <3>3. CASE d >= n * 2
      BY <1>1, <3>1, <3>2, <3>3
    <3>4. CASE ~(d >= n * 2)
      <4>1. d >= i
        BY <3>1, <3>4
      <4>2. d * 2 \in Nat /\ d * 2 >= 1 /\ \A j \in X : d * 2 >= j * 2
        BY <2>1, <3>1, <4>1
      <4>3. DoubleOp(t.live, i, d) = d * 2
        BY <1>1, <3>1, <3>2, <3>4
      <4> QED
        BY <4>2, <4>3
    <3> QED
      BY <3>3, <3>4
  <2> HIDE DEF G
  <2> QED
    BY <2>1, <2>2
<1>9. DoubleFold!Fold(t.live, from, 1 .. n)[1 .. n] \in G[1 .. n]
  <2> DEFINE S == 1 .. n
             P == DoubleFold!Segments(n)
  <2> HIDE DEF G, S, P
  <2>1. DoubleFold!Grounded(S) /\ DoubleFold!Chooses(S) /\ P \in SUBSET (SUBSET S) /\ S \in P
    BY <1>5, <1>4, <1>6 DEF S, P
  <2>2. \A X \in P : X = {} => from \in G[X]
    BY <1>7 DEF P
  <2>3. \A X \in P : X # {} =>
          /\ X \ {Max(X)} \in P
          /\ \A d \in G[X \ {Max(X)}] : DoubleOp(t.live, Max(X), d) \in G[X]
    BY <1>8 DEF P
  <2>4. DoubleFold!Fold(t.live, from, S)[S] \in G[S]
    BY <2>1, <2>2, <2>3, DoubleFold!Keeps
  <2> QED
    BY <2>4 DEF S
<1>10. TargetCapacity(t) \in G[1 .. n]
  BY <1>3, <1>9
<1>11. \A c \in G[1 .. n] : c \in Nat /\ n * 2 <= c
  <2> TAKE c \in G[1 .. n]
  <2>1. c \in Nat /\ (c >= n * 2 \/ \A i \in 1 .. n : c >= i * 2)
    BY <1>5
  <2> QED
    BY <1>1, <2>1
<1> QED
  BY <1>10, <1>11

(* Rehashing places the live ids, and nothing else, in the new slots. *)
Placed(slots, X) == {q \in X : slots[q] \in Ids}
Rehashed(slots, capacity) ==
  [X \in PlaceFold!Segments(Len(slots)) |->
    {s \in Slots : /\ Len(s) = capacity /\ Single(s) /\ Probed(s) /\ Live(s) = Used(s)
                   /\ Cardinality(Used(s)) = Cardinality(Placed(slots, X))
                   /\ \A j \in Ids : Stored(s, j) <=> \E q \in X : slots[q] = j}]

(* A table without ids. *)
LEMMA VacantOK ==
  ASSUME NEW n \in Nat
  PROVE  LET s == Vacant(n)
         IN  /\ s \in Slots /\ Len(s) = n /\ Single(s) /\ Probed(s)
             /\ Live(s) = {} /\ Used(s) = {} /\ \A j \in Ids : ~Stored(s, j)
<1> DEFINE s == Vacant(n)
<1>1. s \in [1 .. n -> Content] /\ DOMAIN s = 1 .. n /\ \A p \in 1 .. n : s[p] = Empty
  BY DEF Vacant, Content
<1> HIDE DEF s
<1>2. s \in Slots
  BY <1>1 DEF Slots
<1>3. Len(s) = n
  <2>1. DOMAIN s = 1 .. Len(s) /\ Len(s) \in Nat
    BY <1>2, SlotsTyped
  <2> QED
    BY <1>1, <2>1
<1>4. \A p \in DOMAIN s : s[p] = Empty /\ s[p] \notin Ids
  BY <1>1, Sizes
<1>5. Single(s) /\ Probed(s) /\ Live(s) = {} /\ Used(s) = {}
  BY <1>4 DEF Single, Probed, Live, Used
<1>6. \A j \in Ids : ~Stored(s, j)
  BY <1>4 DEF Stored
<1> QED
  BY <1>2, <1>3, <1>5, <1>6 DEF s

(* One slot of the old table. *)
LEMMA PlaceKeeps ==
  ASSUME NEW slots \in Slots, Single(slots), NEW capacity \in Nat,
         Cardinality(Live(slots)) < capacity,
         NEW i \in 1 .. Len(slots), NEW X \in PlaceFold!Segments(Len(slots)),
         X = 1 .. i, X \ {i} \in PlaceFold!Segments(Len(slots)),
         NEW s \in Rehashed(slots, capacity)[X \ {i}]
  PROVE  PlaceOp(slots, i, s) \in Rehashed(slots, capacity)[X]
<1> DEFINE id == slots[i]
           Y == X \ {i}
<1>1. DOMAIN slots = 1 .. Len(slots) /\ Len(slots) \in Nat /\ id \in Content /\ i \in X
  BY SlotsTyped
<1>2. /\ s \in Slots /\ Len(s) = capacity /\ Single(s) /\ Probed(s) /\ Live(s) = Used(s)
      /\ Cardinality(Used(s)) = Cardinality(Placed(slots, Y))
      /\ \A j \in Ids : Stored(s, j) <=> \E q \in Y : slots[q] = j
  BY DEF Rehashed
<1>3. X \in SUBSET (1 .. Len(slots))
  BY <1>1
<1>4. PlaceOp(slots, i, s) = IF id <= 0 THEN s ELSE Put(s, id)
  BY DEF PlaceOp, Place, Put
<1>5. id <= 0 <=> id \notin Ids
  BY <1>1, Sizes DEF Content, Empty, Tombstone
<1>6. \A z : /\ z \in Slots /\ Len(z) = capacity /\ Single(z) /\ Probed(z) /\ Live(z) = Used(z)
             /\ Cardinality(Used(z)) = Cardinality(Placed(slots, X))
             /\ \A j \in Ids : Stored(z, j) <=> \E q \in X : slots[q] = j
             => z \in Rehashed(slots, capacity)[X]
  BY DEF Rehashed
<1>7. CASE id \notin Ids
  <2>1. PlaceOp(slots, i, s) = s
    BY <1>4, <1>5, <1>7
  <2>2. Placed(slots, X) = Placed(slots, Y)
    BY <1>7 DEF Placed
  <2>3. \A j \in Ids : (\E q \in Y : slots[q] = j) <=> \E q \in X : slots[q] = j
    BY <1>7
  <2> HIDE DEF Y, id
  <2>4. s \in Rehashed(slots, capacity)[X]
    BY <1>2, <1>6, <2>2, <2>3
  <2> QED
    BY <2>1, <2>4
<1>8. CASE id \in Ids
  <2> DEFINE z == Put(s, id)
             f == FreeSlot(s, id)
  <2>1. PlaceOp(slots, i, s) = z
    BY <1>4, <1>5, <1>8
  <2>2. ~Stored(s, id)
    <3>1. \A q \in Y : slots[q] # id
      BY <1>1, <1>3, <1>8 DEF Single
    <3> HIDE DEF id, Y
    <3> QED
      BY <1>2, <1>8, <3>1
  <2>3. Cardinality(Used(s)) < Len(s)
    <3>1. Placed(slots, Y) \subseteq Live(slots) /\ IsFiniteSet(Live(slots))
      BY <1>1, <1>3, Counts DEF Placed, Live
    <3>2. /\ Cardinality(Placed(slots, Y)) <= Cardinality(Live(slots))
          /\ Cardinality(Placed(slots, Y)) \in Nat /\ Cardinality(Live(slots)) \in Nat
      BY <3>1, FS_Subset, FS_CardinalityType
    <3> HIDE DEF Y
    <3> QED
      BY <1>2, <3>2
  <2> HIDE DEF id
  <2>4. /\ z \in Slots /\ Len(z) = Len(s) /\ Single(z) /\ Probed(z)
        /\ f \in 1 .. Len(s) /\ f \notin Live(s)
        /\ Live(z) = Live(s) \cup {f} /\ Used(z) = Used(s) \cup {f}
        /\ \A j \in Ids : Stored(z, j) <=> Stored(s, j) \/ j = id
    BY <1>2, <1>8, <2>2, <2>3, PutStores
  <2> HIDE DEF z, f
  <2>5. Cardinality(Used(z)) = Cardinality(Used(s)) + 1
    <3>1. IsFiniteSet(Used(s)) /\ f \notin Used(s)
      BY <1>2, <2>4, Counts
    <3> QED
      BY <2>4, <3>1, FS_AddElement
  <2>6. Cardinality(Placed(slots, X)) = Cardinality(Placed(slots, Y)) + 1
    <3>1. Placed(slots, X) = Placed(slots, Y) \cup {i} /\ i \notin Placed(slots, Y)
      BY <1>1, <1>8 DEF Placed, id
    <3>2. IsFiniteSet(Placed(slots, Y))
      <4>1. Placed(slots, Y) \subseteq Live(slots) /\ IsFiniteSet(Live(slots))
        BY <1>1, <1>3, Counts DEF Placed, Live
      <4> QED
        BY <4>1, FS_Subset
    <3> QED
      BY <3>1, <3>2, FS_AddElement
  <2>7. \A j \in Ids : Stored(z, j) <=> \E q \in X : slots[q] = j
    <3>1. \A j : (\E q \in X : slots[q] = j) <=> (\E q \in Y : slots[q] = j) \/ j = id
      BY <1>1 DEF id
    <3> HIDE DEF Y
    <3> QED
      BY <1>2, <2>4, <3>1
  <2>8. Live(z) = Used(z)
    BY <1>2, <2>4
  <2>9. z \in Rehashed(slots, capacity)[X]
    BY <1>2, <1>6, <2>4, <2>5, <2>6, <2>7, <2>8
  <2> QED
    BY <2>1, <2>9
<1> QED
  BY <1>7, <1>8

(* A rehashed table holds the same ids, no tombstone, and has room. *)
LEMMA RehashKeeps ==
  ASSUME NEW t, TableOK(t), NEW capacity \in Nat, (t.live + 1) * 2 <= capacity
  PROVE  LET r == Rehash(t, capacity)
         IN  /\ TableOK(r) /\ r.live = t.live /\ (r.occupied + 1) * 2 <= Len(r.slots)
             /\ \A j \in Ids : Stored(r.slots, j) <=> Stored(t.slots, j)
<1> DEFINE slots == t.slots
           n == Len(slots)
           G == Rehashed(slots, capacity)
           placed == FoldLeft(Place, Vacant(capacity), slots)
<1>1. /\ slots \in Slots /\ Single(slots) /\ Probed(slots) /\ t.live = Cardinality(Live(slots))
  BY DEF TableOK
<1>2. n \in Nat /\ DOMAIN slots = 1 .. n /\ t.live \in Nat
  BY <1>1, SlotsTyped, Counts
<1>3. Rehash(t, capacity) = [slots |-> placed, live |-> t.live, occupied |-> t.live]
  BY DEF Rehash
<1>4. placed = PlaceFold!Fold(slots, Vacant(capacity), 1 .. n)[1 .. n]
  BY <1>2 DEF FoldLeft, MapThenFoldSet, PlaceFold!Fold, PlaceFold!Iteration, PlaceOp
<1> HIDE DEF placed, slots
<1> DEFINE S == 1 .. n
           P == PlaceFold!Segments(n)
<1>5. PlaceFold!Grounded(S)
  <2>1. 1 \in Int /\ n \in Int
    BY <1>2
  <2> HIDE DEF n
  <2>2. Grounded(1 .. n)
    BY <2>1, IntervalGrounded
  <2> QED
    BY <2>2 DEF Grounded, PlaceFold!Grounded
<1>6. /\ P \in SUBSET (SUBSET S) /\ S \in P
      /\ \A X \in P : X # {} =>
           \E i \in 1 .. n : /\ Max(X) = i /\ X = 1 .. i
                             /\ X \ {i} = 1 .. i - 1 /\ X \ {i} \in P
  <2>1. \A X : PlaceFold!Max(X) = Max(X)
    BY DEF PlaceFold!Max, Max
  <2> HIDE DEF n
  <2> QED
    BY <1>2, <1>5, <2>1, PlaceFold!SegmentsInOrder
<1>7. PlaceFold!Chooses(S)
  <2>1. \A X \in SUBSET (1 .. n) : X # {} => Max(X) \in X
    <3> TAKE X \in SUBSET (1 .. n)
    <3> HAVE X # {}
    <3>1. PlaceFold!Max(X) = Max(X)
      BY DEF PlaceFold!Max, Max
    <3>2. 1 \in Int /\ n \in Int
      BY <1>2
    <3> HIDE DEF n
    <3>3. PlaceFold!Max(X) \in X
      BY <1>5, <3>2, PlaceFold!Ends
    <3> QED
      BY <3>1, <3>3
  <2> QED
    BY <2>1 DEF PlaceFold!Chooses
<1>8. \A X \in P : X = {} => Vacant(capacity) \in G[X]
  <2> TAKE X \in P
  <2> HAVE X = {}
  <2>1. Placed(slots, X) = {}
    BY DEF Placed
  <2>2. \A z : /\ z \in Slots /\ Len(z) = capacity /\ Single(z) /\ Probed(z) /\ Live(z) = Used(z)
               /\ Cardinality(Used(z)) = Cardinality(Placed(slots, X))
               /\ \A j \in Ids : Stored(z, j) <=> \E q \in X : slots[q] = j
               => z \in G[X]
    BY DEF Rehashed
  <2> DEFINE z == Vacant(capacity)
  <2>3. /\ z \in Slots /\ Len(z) = capacity /\ Single(z) /\ Probed(z)
        /\ Live(z) = {} /\ Used(z) = {} /\ \A j \in Ids : ~Stored(z, j)
    BY VacantOK
  <2> HIDE DEF z, G
  <2>4. z \in G[X]
    BY <2>1, <2>2, <2>3
  <2> QED
    BY <2>4 DEF z
<1>9. \A X \in P : X # {} =>
        /\ X \ {Max(X)} \in P
        /\ \A d \in G[X \ {Max(X)}] : PlaceOp(slots, Max(X), d) \in G[X]
  <2> TAKE X \in P
  <2> HAVE X # {}
  <2>1. PICK i \in 1 .. n : /\ Max(X) = i /\ X = 1 .. i
                            /\ X \ {i} = 1 .. i - 1 /\ X \ {i} \in P
    BY <1>6
  <2>2. Cardinality(Live(slots)) < capacity
    BY <1>1, <1>2
  <2>3. \A d \in G[X \ {i}] : PlaceOp(slots, i, d) \in G[X]
    BY <1>1, <2>1, <2>2, PlaceKeeps
  <2> HIDE DEF G, P
  <2> QED
    BY <2>1, <2>3
<1>10. placed \in G[S]
  <2> HIDE DEF G, S, P
  <2> DEFINE base == Vacant(capacity)
  <2>1. \A X \in P : X = {} => base \in G[X]
    BY <1>8
  <2> HIDE DEF base
  <2>2. PlaceFold!Fold(slots, base, S)[S] \in G[S]
    BY <1>5, <1>6, <1>7, <1>9, <2>1, PlaceFold!Keeps
  <2> QED
    BY <1>4, <2>2 DEF S, base
<1>11. /\ placed \in Slots /\ Len(placed) = capacity /\ Single(placed) /\ Probed(placed)
       /\ Live(placed) = Used(placed)
       /\ Cardinality(Used(placed)) = Cardinality(Placed(slots, S))
       /\ \A j \in Ids : Stored(placed, j) <=> \E q \in S : slots[q] = j
  BY <1>6, <1>10 DEF Rehashed
<1>12. Placed(slots, S) = Live(slots)
  BY <1>2 DEF Placed, Live
<1> DEFINE r == Rehash(t, capacity)
<1>13. r.slots = placed /\ r.live = t.live /\ r.occupied = t.live
  BY <1>3
<1> HIDE DEF r
<1>14. TableOK(r)
  <2>1. t.live * 2 <= capacity
    BY <1>2
  <2>2. r.live = Cardinality(Live(r.slots)) /\ r.occupied = Cardinality(Used(r.slots))
    BY <1>1, <1>11, <1>12, <1>13
  <2> QED
    BY <1>11, <1>13, <2>1, <2>2 DEF TableOK
<1>15. \A j \in Ids : Stored(r.slots, j) <=> Stored(slots, j)
  BY <1>2, <1>11, <1>13 DEF Stored
<1>16. (r.occupied + 1) * 2 <= Len(r.slots)
  BY <1>11, <1>13
<1> QED
  BY <1>13, <1>14, <1>15, <1>16 DEF r, slots

-----------------------------------------------------------------------------
(* Insertion, removal and what a table answers. *)

Tables == [slots : Slots, live : Nat, occupied : Nat]

(* Insertion of an id that is not there, growing the table if it must.     *)
LEMMA InsertStores ==
  ASSUME NEW t, TableOK(t), NEW id \in Ids, ~Stored(t.slots, id)
  PROVE  LET r == Inserted(t, id)
         IN  /\ r \in Tables /\ TableOK(r)
             /\ \A j \in Ids : Stored(r.slots, j) <=> Stored(t.slots, j) \/ j = id
<1> DEFINE g == Grown(t)
           f == FreeSlot(g.slots, id)
           r == Inserted(t, id)
<1>1. t.slots \in Slots /\ t.live \in Nat /\ t.occupied \in Nat
  BY Counts DEF TableOK
<1>2. /\ TableOK(g) /\ (g.occupied + 1) * 2 <= Len(g.slots)
      /\ \A j \in Ids : Stored(g.slots, j) <=> Stored(t.slots, j)
  <2>1. CASE NeedsRehash(t)
    <3> DEFINE c == TargetCapacity(t)
    <3>1. g = Rehash(t, c)
      BY <2>1 DEF Grown
    <3>2. c \in Nat /\ (t.live + 1) * 2 <= c
      BY <1>1, CapacityFits
    <3> HIDE DEF g, c
    <3> QED
      BY <3>1, <3>2, RehashKeeps
  <2>2. CASE ~NeedsRehash(t)
    <3>1. g = t
      BY <2>2 DEF Grown
    <3>2. (t.occupied + 1) * 2 <= Len(t.slots)
      <4>1. Len(t.slots) \in Nat
        BY <1>1, SlotsTyped
      <4> QED
        BY <1>1, <2>2, <4>1 DEF NeedsRehash
    <3> HIDE DEF g
    <3> QED
      BY <3>1, <3>2
  <2> QED
    BY <2>1, <2>2
<1>3. r = [slots |-> Put(g.slots, id), live |-> g.live + 1,
           occupied |-> g.occupied + (IF g.slots[f] = Empty THEN 1 ELSE 0)]
  BY DEF Inserted, Put
<1> HIDE DEF g, r
<1> DEFINE s == g.slots
<1>4. /\ s \in Slots /\ Single(s) /\ Probed(s) /\ g.live = Cardinality(Live(s))
      /\ g.occupied = Cardinality(Used(s))
  BY <1>2 DEF TableOK
<1>5. Len(s) \in Nat /\ DOMAIN s = 1 .. Len(s) /\ g.live \in Nat /\ g.occupied \in Nat
  BY <1>4, SlotsTyped, Counts
<1>6. Cardinality(Used(s)) < Len(s) /\ ~Stored(s, id)
  BY <1>2, <1>4, <1>5
<1> DEFINE z == Put(s, id)
<1> HIDE DEF s
<1>7. /\ z \in Slots /\ Len(z) = Len(s) /\ Single(z) /\ Probed(z)
      /\ f \in 1 .. Len(s) /\ f \notin Live(s)
      /\ Live(z) = Live(s) \cup {f} /\ Used(z) = Used(s) \cup {f}
      /\ \A j \in Ids : Stored(z, j) <=> Stored(s, j) \/ j = id
  <2>1. f = FreeSlot(s, id)
    BY DEF s
  <2> HIDE DEF f
  <2> QED
    BY <1>4, <1>6, <2>1, PutStores
<1>8. r.slots = z /\ r.live = g.live + 1 /\ r.occupied = g.occupied + (IF s[f] = Empty THEN 1 ELSE 0)
      /\ r = [slots |-> r.slots, live |-> r.live, occupied |-> r.occupied]
  BY <1>3 DEF s
<1> HIDE DEF z, f
<1>9. Cardinality(Live(z)) = g.live + 1
  BY <1>4, <1>7, Counts, FS_AddElement
<1>10. Cardinality(Used(z)) = r.occupied
  <2>1. f \in Used(s) <=> s[f] # Empty
    BY <1>5, <1>7 DEF Used
  <2>2. IsFiniteSet(Used(s))
    BY <1>4, Counts
  <2>3. CASE s[f] = Empty
    <3>1. Cardinality(Used(z)) = Cardinality(Used(s)) + 1
      BY <1>7, <2>1, <2>2, <2>3, FS_AddElement
    <3> QED
      BY <1>4, <1>8, <2>3, <3>1
  <2>4. CASE s[f] # Empty
    <3>1. Used(z) = Used(s)
      BY <1>7, <2>1, <2>4
    <3> QED
      BY <1>4, <1>5, <1>8, <2>4, <3>1
  <2> QED
    BY <2>3, <2>4
<1>11. r.live \in Nat /\ r.occupied \in Nat /\ r.occupied * 2 <= Len(z)
  BY <1>2, <1>5, <1>7, <1>8 DEF s
<1>12. r \in Tables
  BY <1>7, <1>8, <1>11 DEF Tables
<1>13. TableOK(r)
  BY <1>7, <1>8, <1>9, <1>10, <1>11 DEF TableOK
<1>14. \A j \in Ids : Stored(r.slots, j) <=> Stored(t.slots, j) \/ j = id
  BY <1>2, <1>7, <1>8 DEF s
<1> QED
  BY <1>12, <1>13, <1>14 DEF r

(* Removal leaves a tombstone, over which every other probe passes. *)
LEMMA RemoveTakes ==
  ASSUME NEW t \in Tables, TableOK(t), NEW id \in Ids, Stored(t.slots, id)
  PROVE  LET r == Removed(t, id)
         IN  /\ r \in Tables /\ TableOK(r)
             /\ \A j \in Ids : Stored(r.slots, j) <=> Stored(t.slots, j) /\ j # id
<1> DEFINE s == t.slots
           n == Len(s)
           r == Removed(t, id)
           z == [p \in DOMAIN s |-> IF p \in Found(t, id) THEN Tombstone ELSE s[p]]
<1>1. /\ s \in Slots /\ Single(s) /\ Probed(s) /\ t.live = Cardinality(Live(s))
      /\ t.occupied = Cardinality(Used(s)) /\ t.occupied * 2 <= Len(s)
      /\ t = [slots |-> s, live |-> t.live, occupied |-> t.occupied]
  BY DEF TableOK, Tables
<1>2. n \in Nat /\ DOMAIN s = 1 .. n /\ t.live \in Nat /\ t.occupied \in Nat
      /\ \A p \in 1 .. n : s[p] \in Content
  BY <1>1, SlotsTyped, Counts
<1>3. Found(t, id) = {p \in DOMAIN s : s[p] = id}
  BY <1>1, LookupFinds
<1>4. r.slots = z /\ r.live = t.live - 1 /\ r.occupied = t.occupied
      /\ r = [slots |-> r.slots, live |-> r.live, occupied |-> r.occupied]
  BY <1>1 DEF Removed
<1> HIDE DEF s, r
<1>5. PICK f \in 1 .. n : s[f] = id
  BY <1>2 DEF Stored, s
<1>6. /\ z \in [1 .. n -> Content] /\ DOMAIN z = 1 .. n
      /\ \A p \in 1 .. n : z[p] = IF p = f THEN Tombstone ELSE s[p]
  <2>1. \A p \in 1 .. n : p \in Found(t, id) <=> p = f
    BY <1>1, <1>2, <1>3, <1>5 DEF Single
  <2> QED
    BY <1>2, <2>1 DEF Content
<1> HIDE DEF z, n
<1>7. z \in Slots
  BY <1>2, <1>6 DEF Slots
<1>8. Len(z) = n
  <2>1. DOMAIN z = 1 .. Len(z) /\ Len(z) \in Nat
    BY <1>7, SlotsTyped
  <2> QED
    BY <1>2, <1>6, <2>1
<1>9. Single(z)
  BY <1>1, <1>2, <1>6, Sizes DEF Single
<1>10. \A i, e : SlotFor(z, i, e) = SlotFor(s, i, e)
  BY <1>8 DEF SlotFor, n
<1>11. Probed(z)
  <2> SUFFICES ASSUME NEW p \in 1 .. n, z[p] \in Ids PROVE Reaches(z, z[p], p)
    BY <1>6 DEF Probed
  <2> DEFINE i == s[p]
  <2>1. p # f /\ z[p] = i /\ i \in Ids
    BY <1>6, Sizes
  <2>2. Reaches(s, i, p)
    BY <1>1, <1>2, <2>1 DEF Probed
  <2> HIDE DEF i
  <2>3. PICK a \in 0 .. n - 1 :
          /\ p = SlotFor(s, i, a)
          /\ \A e \in 0 .. a - 1 : s[SlotFor(s, i, e)] \notin {Empty, i}
    BY <2>2 DEF Reaches, n
  <2>4. \A e \in 0 .. a - 1 : z[SlotFor(s, i, e)] \notin {Empty, i}
    <3> TAKE e \in 0 .. a - 1
    <3>1. n > 0
      BY <1>2, <1>5
    <3>2. SlotFor(s, i, e) \in 1 .. n
      <4>1. \A d \in Nat : SlotFor(s, i, d) \in 1 .. n
        BY <1>1, <2>1, <3>1, ProbeTotal DEF n
      <4>2. e \in Nat
        BY <1>2, <2>3
      <4> QED
        BY <4>1, <4>2
    <3> QED
      BY <1>6, <2>1, <2>3, <3>2, Sizes
  <2> QED
    BY <1>8, <1>10, <2>1, <2>3, <2>4 DEF Reaches, n
<1>12. Live(z) = Live(s) \ {f} /\ f \in Live(s) /\ Used(z) = Used(s)
  BY <1>2, <1>5, <1>6, Sizes DEF Live, Used
<1>13. Cardinality(Live(z)) = t.live - 1 /\ t.live - 1 \in Nat
  <2>1. IsFiniteSet(Live(s)) /\ Cardinality(Live(z)) \in Nat
    BY <1>1, <1>7, Counts
  <2>2. Cardinality(Live(s) \ {f}) = Cardinality(Live(s)) - 1
    BY <1>12, <2>1, FS_RemoveElement
  <2> QED
    BY <1>1, <1>12, <2>1, <2>2
<1>14. r \in Tables
  BY <1>2, <1>4, <1>7, <1>13 DEF Tables
<1>15. TableOK(r)
  BY <1>1, <1>4, <1>7, <1>8, <1>9, <1>11, <1>12, <1>13 DEF TableOK, n
<1>16. \A j \in Ids : Stored(r.slots, j) <=> Stored(s, j) /\ j # id
  <2> TAKE j \in Ids
  <2>1. Stored(z, j) => Stored(s, j) /\ j # id
    BY <1>1, <1>2, <1>5, <1>6, Sizes DEF Stored, Single
  <2>2. Stored(s, j) /\ j # id => Stored(z, j)
    BY <1>2, <1>5, <1>6 DEF Stored
  <2> QED
    BY <1>4, <2>1, <2>2
<1> QED
  BY <1>14, <1>15, <1>16 DEF r, s

(* What LookupExact asks of each table. *)
LEMMA TableAnswers ==
  ASSUME NEW t, TableOK(t)
  PROVE  /\ \A i \in Ids : Found(t, i) # {} <=> Stored(t.slots, i)
         /\ t.slots # <<>> => \E p \in DOMAIN t.slots : t.slots[p] = Empty
         /\ t.live = Cardinality({i \in Ids : Found(t, i) # {}})
<1> DEFINE s == t.slots
<1>1. /\ s \in Slots /\ Single(s) /\ Probed(s) /\ t.live = Cardinality(Live(s))
      /\ t.occupied = Cardinality(Used(s)) /\ t.occupied * 2 <= Len(s)
  BY DEF TableOK
<1>2. \A i \in Ids : Found(t, i) # {} <=> Stored(s, i)
  BY <1>1, LookupFinds
<1>3. Len(s) \in Nat /\ DOMAIN s = 1 .. Len(s) /\ s \in Seq(Content) /\ t.occupied \in Nat
  BY <1>1, SlotsTyped, Counts
<1>4. ASSUME s # <<>> PROVE \E p \in DOMAIN s : s[p] = Empty
  <2>1. Len(s) # 0
    BY <1>3, <1>4, EmptySeq
  <2>2. SUFFICES ASSUME \A p \in DOMAIN s : s[p] # Empty PROVE FALSE
    OBVIOUS
  <2>3. Used(s) = 1 .. Len(s)
    BY <1>3, <2>2 DEF Used
  <2> DEFINE n == Len(s)
  <2>4. Cardinality(1 .. n) = n
    <3> HIDE DEF n
    <3>1. n \in Nat
      BY <1>3 DEF n
    <3> QED
      BY <3>1, FS_Interval
  <2> QED
    BY <1>1, <1>3, <2>1, <2>3, <2>4
<1>5. t.live = Cardinality({i \in Ids : Found(t, i) # {}})
  <2> DEFINE I == {i \in Ids : Found(t, i) # {}}
             L == Live(s)
             at == [p \in L |-> s[p]]
  <2>1. I = {i \in Ids : Stored(s, i)}
    BY <1>2
  <2>2. at \in Bijection(L, I)
    <3>1. at \in [L -> I]
      BY <2>1 DEF Live, Stored
    <3>2. \A p, q \in L : at[p] = at[q] => p = q
      BY <1>1 DEF Live, Single
    <3>3. \A i \in I : \E p \in L : at[p] = i
      BY <2>1 DEF Live, Stored
    <3> HIDE DEF at, L, I
    <3> QED
      BY <3>1, <3>2, <3>3 DEF Bijection, Injection, Surjection, IsInjective
  <2>3. IsFiniteSet(L)
    BY <1>1, Counts
  <2> HIDE DEF at, L, I
  <2>4. Cardinality(L) = Cardinality(I)
    BY <2>2, <2>3, FS_Bijection DEF ExistsBijection
  <2> QED
    BY <1>1, <2>4 DEF I, L
<1> QED
  BY <1>2, <1>4, <1>5

-----------------------------------------------------------------------------
(* Lists without repetition, for the retained calls. *)

Listing(s, A) ==
  /\ s \in Seq(A) /\ \A a \in A : \E i \in DOMAIN s : s[i] = a
  /\ \A i, j \in DOMAIN s : s[i] = s[j] => i = j

(* What is listed, and how many. *)
LEMMA ListingIs ==
  ASSUME NEW s, NEW A, Listing(s, A)
  PROVE  /\ ToSet(s) = A /\ Len(s) = Cardinality(A)
         /\ s # <<>> => Head(s) \in A
<1>1. s \in Seq(A) /\ Len(s) \in Nat /\ DOMAIN s = 1 .. Len(s) /\ \A i \in 1 .. Len(s) : s[i] \in A
  BY LenProperties, ElementOfSeq DEF Listing
<1>2. ToSet(s) = A
  BY <1>1 DEF Listing, ToSet
<1>3. Len(s) = Cardinality(A)
  <2> DEFINE D == 1 .. Len(s)
  <2>1. s \in Bijection(D, A)
    <3>1. s \in [D -> A]
      BY <1>1, LenProperties
    <3>2. \A i, j \in D : s[i] = s[j] => i = j
      BY <1>1 DEF Listing
    <3>3. \A a \in A : \E i \in D : s[i] = a
      BY <1>1 DEF Listing
    <3> HIDE DEF D
    <3> QED
      BY <3>1, <3>2, <3>3 DEF Bijection, Injection, Surjection, IsInjective
  <2>2. IsFiniteSet(D) /\ Cardinality(D) = Len(s)
    <3> DEFINE n == Len(s)
    <3>1. n \in Nat
      BY <1>1
    <3> HIDE DEF n
    <3>2. IsFiniteSet(1 .. n) /\ Cardinality(1 .. n) = n
      BY <3>1, FS_Interval
    <3> QED
      BY <3>2 DEF n
  <2> HIDE DEF D
  <2>3. Cardinality(D) = Cardinality(A)
    BY <2>1, <2>2, FS_Bijection DEF ExistsBijection
  <2> QED
    BY <2>2, <2>3
<1>4. s # <<>> => Head(s) \in A
  BY <1>1, HeadTailProperties
<1> QED
  BY <1>2, <1>3, <1>4

(* A new one goes in front. *)
LEMMA ListingPut ==
  ASSUME NEW s, NEW A, Listing(s, A), NEW c, c \notin A
  PROVE  Listing(<<c>> \o s, A \cup {c})
<1> DEFINE B == A \cup {c}
           one == <<c>>
           z == one \o s
<1>1. s \in Seq(A) /\ Len(s) \in Nat /\ DOMAIN s = 1 .. Len(s) /\ \A i \in 1 .. Len(s) : s[i] \in A
  BY LenProperties, ElementOfSeq DEF Listing
<1>2. s \in Seq(B)
  BY <1>1
<1>3. one \in Seq(B) /\ Len(one) = 1 /\ one[1] = c
  BY DEF B, one
<1> HIDE DEF one, B
<1>4. /\ z \in Seq(B) /\ Len(z) = Len(s) + 1
      /\ \A i \in 1 .. Len(s) + 1 : z[i] = IF i <= 1 THEN one[i] ELSE s[i - 1]
  <2>1. /\ z \in Seq(B) /\ Len(z) = Len(one) + Len(s)
        /\ \A i \in 1 .. Len(one) + Len(s) : z[i] = IF i <= Len(one) THEN one[i] ELSE s[i - Len(one)]
    BY <1>2, <1>3, ConcatProperties
  <2>2. Len(one) + Len(s) = Len(s) + 1
    BY <1>1, <1>3
  <2> QED
    BY <1>3, <2>1, <2>2
<1> HIDE DEF z
<1>5. DOMAIN z = 1 .. Len(s) + 1
  BY <1>4, LenProperties
<1>6. \A i \in 1 .. Len(s) + 1 : \/ i = 1 /\ z[i] = c
                                 \/ i - 1 \in 1 .. Len(s) /\ z[i] = s[i - 1]
  BY <1>1, <1>3, <1>4
<1>7. \A b \in B : \E i \in DOMAIN z : z[i] = b
  <2>1. 1 \in DOMAIN z /\ z[1] = c
    BY <1>1, <1>5, <1>6
  <2>2. ASSUME NEW b \in A PROVE \E i \in DOMAIN z : z[i] = b
    <3>1. PICK i \in 1 .. Len(s) : s[i] = b
      BY <1>1 DEF Listing
    <3>2. i + 1 \in DOMAIN z /\ z[i + 1] = s[i]
      BY <1>1, <1>4, <1>5, <3>1
    <3> QED
      BY <3>1, <3>2
  <2> QED
    BY <2>1, <2>2 DEF B
<1>8. \A i, j \in DOMAIN z : z[i] = z[j] => i = j
  <2> SUFFICES ASSUME NEW i \in 1 .. Len(s) + 1, NEW j \in 1 .. Len(s) + 1, z[i] = z[j]
               PROVE  i = j
    BY <1>5
  <2>1. \A h \in 1 .. Len(s) : s[h] # c
    BY <1>1
  <2>2. CASE i = 1
    BY <1>6, <2>1, <2>2
  <2>3. CASE i # 1
    <3>1. i - 1 \in 1 .. Len(s) /\ z[i] = s[i - 1]
      BY <1>6, <2>3
    <3>2. j - 1 \in 1 .. Len(s) /\ z[j] = s[j - 1]
      BY <1>6, <2>1, <3>1
    <3>3. i - 1 = j - 1
      BY <1>1, <3>1, <3>2 DEF Listing
    <3> QED
      BY <3>3
  <2> QED
    BY <2>2, <2>3
<1> QED
  BY <1>4, <1>7, <1>8 DEF Listing, z, B, one

(* One is taken out. *)
LEMMA ListingTake ==
  ASSUME NEW s, NEW A, Listing(s, A), NEW i \in DOMAIN s
  PROVE  /\ Listing(RemoveAt(s, i), A \ {s[i]})
         /\ i # Len(s) => s[i + 1] \in A \ {s[i]}
<1> DEFINE B == A \ {s[i]}
           n == Len(s)
           x == SubSeq(s, 1, i - 1)
           y == SubSeq(s, i + 1, n)
           z == RemoveAt(s, i)
<1>1. s \in Seq(A) /\ n \in Nat /\ DOMAIN s = 1 .. n /\ \A j \in 1 .. n : s[j] \in A
  BY LenProperties, ElementOfSeq DEF Listing
<1>2. \A j \in 1 .. n : j # i => s[j] \in B
  BY <1>1 DEF Listing
<1>3. i \in 1 .. n
  BY <1>1
<1>4. z = x \o y
  BY DEF RemoveAt
<1> HIDE DEF n, B
<1>5. x \in Seq(B) /\ Len(x) = i - 1 /\ \A j \in 1 .. i - 1 : x[j] = s[j]
  <2>1. \A j \in 1 .. i - 1 : s[j] \in B
    BY <1>1, <1>2, <1>3
  <2>2. 1 \in Int /\ i - 1 \in Int
    BY <1>1, <1>3
  <2>3. /\ x \in Seq(B) /\ Len(x) = IF 1 <= i - 1 THEN (i - 1) - 1 + 1 ELSE 0
        /\ \A j \in 1 .. (i - 1) - 1 + 1 : x[j] = s[1 + j - 1]
    BY <2>1, <2>2, SubSeqProperties
  <2> HIDE DEF x
  <2>4. Len(x) = i - 1
    BY <1>1, <1>3, <2>3
  <2>5. \A j \in 1 .. i - 1 : x[j] = s[j]
    <3> TAKE j \in 1 .. i - 1
    <3>1. j \in 1 .. (i - 1) - 1 + 1 /\ 1 + j - 1 = j
      BY <1>1, <1>3
    <3> QED
      BY <2>3, <3>1
  <2> QED
    BY <2>3, <2>4, <2>5
<1>6. y \in Seq(B) /\ Len(y) = n - i /\ \A j \in 1 .. n - i : y[j] = s[i + j]
  <2>1. \A j \in i + 1 .. n : s[j] \in B
    BY <1>1, <1>2, <1>3
  <2>2. i + 1 \in Int /\ n \in Int
    BY <1>1, <1>3
  <2>3. /\ y \in Seq(B) /\ Len(y) = IF i + 1 <= n THEN n - (i + 1) + 1 ELSE 0
        /\ \A j \in 1 .. n - (i + 1) + 1 : y[j] = s[(i + 1) + j - 1]
    BY <2>1, <2>2, SubSeqProperties
  <2> HIDE DEF y
  <2>4. Len(y) = n - i
    BY <1>1, <1>3, <2>3
  <2>5. \A j \in 1 .. n - i : y[j] = s[i + j]
    <3> TAKE j \in 1 .. n - i
    <3>1. j \in 1 .. n - (i + 1) + 1 /\ (i + 1) + j - 1 = i + j
      BY <1>1, <1>3
    <3> QED
      BY <2>3, <3>1
  <2> QED
    BY <2>3, <2>4, <2>5
<1> HIDE DEF x, y, z
<1>7. /\ z \in Seq(B) /\ Len(z) = n - 1
      /\ \A j \in 1 .. n - 1 : z[j] = IF j <= i - 1 THEN x[j] ELSE y[j - (i - 1)]
  <2>1. /\ z \in Seq(B) /\ Len(z) = Len(x) + Len(y)
        /\ \A j \in 1 .. Len(x) + Len(y) : z[j] = IF j <= Len(x) THEN x[j] ELSE y[j - Len(x)]
    BY <1>4, <1>5, <1>6, ConcatProperties
  <2>2. Len(x) + Len(y) = n - 1
    BY <1>1, <1>3, <1>5, <1>6
  <2> QED
    BY <1>5, <2>1, <2>2
<1>8. DOMAIN z = 1 .. n - 1
  BY <1>7, LenProperties
<1>9. \A j \in 1 .. n - 1 : z[j] = IF j < i THEN s[j] ELSE s[j + 1]
  <2> TAKE j \in 1 .. n - 1
  <2>1. CASE j < i
    <3>1. j \in 1 .. i - 1
      BY <1>3, <2>1
    <3> QED
      BY <1>5, <1>7, <2>1, <3>1
  <2>2. CASE ~(j < i)
    <3>1. j - (i - 1) \in 1 .. n - i /\ i + (j - (i - 1)) = j + 1 /\ ~(j <= i - 1)
      BY <1>1, <1>3, <2>2
    <3> QED
      BY <1>6, <1>7, <2>2, <3>1
  <2> QED
    BY <2>1, <2>2
<1>10. \A b \in B : \E j \in DOMAIN z : z[j] = b
  <2> TAKE b \in B
  <2>1. PICK k \in 1 .. n : s[k] = b /\ k # i
    BY <1>1 DEF Listing, B
  <2>2. CASE k < i
    BY <1>1, <1>3, <1>8, <1>9, <2>1, <2>2
  <2>3. CASE k > i
    <3>1. k - 1 \in 1 .. n - 1 /\ ~(k - 1 < i) /\ (k - 1) + 1 = k
      BY <1>1, <1>3, <2>1, <2>3
    <3>2. z[k - 1] = s[k]
      BY <1>9, <3>1
    <3> QED
      BY <1>8, <2>1, <3>1, <3>2
  <2> QED
    BY <1>1, <1>3, <2>1, <2>2, <2>3
<1>11. \A j, k \in DOMAIN z : z[j] = z[k] => j = k
  <2> SUFFICES ASSUME NEW j \in 1 .. n - 1, NEW k \in 1 .. n - 1, z[j] = z[k] PROVE j = k
    BY <1>8
  <2> DEFINE f(m) == IF m < i THEN m ELSE m + 1
  <2>1. f(j) \in 1 .. n /\ f(k) \in 1 .. n
    BY <1>1, <1>3
  <2>2. s[f(j)] = s[f(k)]
    BY <1>9
  <2>3. f(j) = f(k)
    <3> HIDE DEF f
    <3> QED
      BY <1>1, <2>1, <2>2 DEF Listing
  <2> QED
    BY <1>1, <1>3, <2>3
<1>12. i # n => s[i + 1] \in B
  <2> HAVE i # n
  <2>1. i + 1 \in 1 .. n /\ i + 1 # i
    BY <1>1, <1>3
  <2> QED
    BY <1>2, <2>1
<1>13. Listing(z, B)
  BY <1>7, <1>10, <1>11 DEF Listing
<1> QED
  BY <1>12, <1>13 DEF z, n, B

-----------------------------------------------------------------------------
(* The invariant.  TablesOK and Holding make the tables answer for the     *)
(* objects; Referenced counts who can reach one; the others say who may be *)
(* in the way of whom, which is what the counts need to stay right.        *)

Objects == [kind : Kinds \cup {"none"}, held : BOOLEAN, ended : BOOLEAN, refs : Nat]

TablesOK == tables \in [Kinds -> Tables] /\ \A k \in Kinds : TableOK(tables[k])

ObjectsOK ==
  /\ nextId \in 1 .. LastId + 1 /\ object \in [Ids -> Objects]
  /\ \A i \in Ids : i >= nextId => object[i] = Unissued
  /\ \A i \in Ids : object[i].held => object[i].kind # "none"

(* An id is stored in the table of its kind while its handle is held. *)
Holding ==
  \A k \in Kinds, i \in Ids :
    Stored(tables[k].slots, i) <=> object[i].held /\ object[i].kind = k

(* The references are those of the handle, of the coordinator or the       *)
(* worker that notifies, and of the calls.                                 *)
Leasing(f, i) == {c \in Calls : f[c] = i}
Holders(o, f, worker, i) ==
  (IF o[i].held THEN 1 ELSE 0)
  + (IF (o[i].kind = "request" /\ ~o[i].ended) \/ worker = i THEN 1 ELSE 0)
  + Cardinality(Leasing(f, i))
Referenced == \A i \in Ids : object[i].refs = Holders(object, on, notifying.id, i)

CommandsLease == \A c \in Commands : on[c] # NoId => object[on[c]].kind = "session"

(* A worker notifies the waits of a request that has ended, and none of    *)
(* them leaves meanwhile.                                                  *)
WorkerOK ==
  /\ notifying \in [id : Ids \cup {NoId}, left : SUBSET Waits]
  /\ notifying.id # NoId => object[notifying.id].ended
  /\ \A w \in notifying.left : on[w] = notifying.id /\ on[w] # NoId

ListOK ==
  /\ on \in [Calls -> Ids \cup {NoId}]
  /\ Listing(pending, Attached)
  /\ scan \in Attached \cup {NoCall} /\ polled \in Attached \cup {NoCall}
  /\ ready \subseteq Calls /\ watching = Attached \cap Waits

HostOK ==
  /\ turn \in [plan : Seq(Stages), quota : Nat, left : Nat, single : BOOLEAN]
  /\ turn.quota <= turn.left
  /\ waitsFirst \in BOOLEAN /\ notified \in BOOLEAN
  /\ host \in {"idle", "turn", "asleep", "gone"}
  /\ phase \in {"open", "closing", "cleanup", "swept", "cleaned", "freed"}
  /\ polled # NoCall => InStage("waits")

(* From the cleanup on no call is left and no turn makes one; once the     *)
(* registry is empty nobody holds an object.                               *)
ClosingOK ==
  /\ phase \notin {"open", "closing"} => turn.plan = <<>> /\ Attached = {}
  /\ phase \in {"cleaned", "freed"} =>
       /\ notifying = NoWorker
       /\ \A i \in Ids : ~object[i].held /\ ~Unended(i)

RegistryOK == TablesOK /\ ObjectsOK /\ Holding /\ Referenced /\ CommandsLease /\ WorkerOK

IInv == RegistryOK /\ ListOK /\ HostOK /\ ClosingOK

-----------------------------------------------------------------------------
(* Who is who. *)
LEMMA Names ==
  /\ IsFiniteSet(Calls) /\ Waits \subseteq Calls /\ Commands \subseteq Calls
  /\ NoCall \notin Calls /\ \A c \in Commands : c \notin Waits
  /\ NoId \notin Ids /\ NoId = 0
  /\ "request" \in Kinds /\ "session" \in Kinds
<1>1. IsFiniteSet(Waits \cup Commands)
  BY CallsAssumption, FS_Union
<1> QED
  BY <1>1, CallsAssumption, Sizes DEF Calls, NoId, Kinds, Ids

(* Leases are counted by whole numbers. *)
LEMMA LeaseCounts ==
  ASSUME NEW f \in [Calls -> Ids \cup {NoId}], NEW i
  PROVE  /\ IsFiniteSet(Leasing(f, i)) /\ Cardinality(Leasing(f, i)) \in Nat
         /\ \A c \in Calls : f[c] = i => Cardinality(Leasing(f, i)) # 0
<1>1. Leasing(f, i) \subseteq Calls
  BY DEF Leasing
<1>2. IsFiniteSet(Leasing(f, i)) /\ Cardinality(Leasing(f, i)) \in Nat
  BY <1>1, Names, FS_Subset, FS_CardinalityType
<1>3. ASSUME NEW c \in Calls, f[c] = i PROVE Cardinality(Leasing(f, i)) # 0
  <2>1. Leasing(f, i) # {}
    BY <1>3 DEF Leasing
  <2> QED
    BY <1>2, <2>1, FS_EmptySet
<1> QED
  BY <1>2, <1>3

(* A call that takes a lease of id turns f into g. *)
Takes(f, c, id, g) ==
  /\ f \in [Calls -> Ids \cup {NoId}] /\ c \in Calls /\ f[c] = NoId
  /\ id \in Ids /\ g = [f EXCEPT ![c] = id]
LEMMA LeaseTaken ==
  ASSUME NEW f, NEW c, NEW id, NEW g, Takes(f, c, id, g), NEW i \in Ids
  PROVE  /\ i = id => Cardinality(Leasing(g, i)) = Cardinality(Leasing(f, i)) + 1
         /\ i # id => Cardinality(Leasing(g, i)) = Cardinality(Leasing(f, i))
<1>1. /\ c \in Calls /\ f[c] = NoId /\ id \in Ids
      /\ \A d \in Calls : g[d] = IF d = c THEN id ELSE f[d]
  BY DEF Takes
<1>2. IsFiniteSet(Leasing(f, i)) /\ Cardinality(Leasing(f, i)) \in Nat
  BY LeaseCounts DEF Takes
<1>3. CASE i = id
  <2>1. Leasing(g, i) = Leasing(f, i) \cup {c} /\ c \notin Leasing(f, i)
    BY <1>1, <1>3, Names DEF Leasing
  <2>2. Cardinality(Leasing(f, i) \cup {c}) = Cardinality(Leasing(f, i)) + 1
    BY <1>2, <2>1, FS_AddElement
  <2> QED
    BY <1>3, <2>1, <2>2
<1>4. CASE i # id
  <2>1. Leasing(g, i) = Leasing(f, i)
    BY <1>1, <1>4, Names DEF Leasing
  <2> QED
    BY <1>2, <1>4, <2>1
<1> QED
  BY <1>3, <1>4

(* The empty table. *)
LEMMA NewTableOK ==
  NewTable \in Tables /\ TableOK(NewTable) /\ \A i \in Ids : ~Stored(NewTable.slots, i)
<1>1. /\ <<>> \in [1 .. 0 -> Content] /\ Live(<<>>) = {} /\ Used(<<>>) = {}
      /\ Len(<<>>) = 0 /\ \A i \in Ids : ~Stored(<<>>, i)
  BY DEF Live, Used, Stored
<1>2. <<>> \in Slots /\ Single(<<>>) /\ Probed(<<>>)
  BY <1>1 DEF Slots, Single, Probed
<1>3. TableOK(NewTable) /\ NewTable \in Tables
  <2>1. NewTable.slots = <<>> /\ NewTable.live = 0 /\ NewTable.occupied = 0
    BY DEF NewTable
  <2>2. Cardinality(Live(<<>>)) = 0 /\ Cardinality(Used(<<>>)) = 0
    BY <1>1, FS_EmptySet
  <2>3. TableOK(NewTable)
    <3> DEFINE t == NewTable
    <3>1. t.slots \in Slots /\ Single(t.slots) /\ Probed(t.slots)
      BY <1>2, <2>1
    <3>2. t.live = Cardinality(Live(t.slots)) /\ t.occupied = Cardinality(Used(t.slots))
      BY <2>1, <2>2
    <3>3. t.occupied * 2 <= Len(t.slots)
      BY <1>1, <2>1
    <3> HIDE DEF t
    <3> QED
      BY <3>1, <3>2, <3>3 DEF TableOK, t
  <2>4. NewTable \in Tables
    BY <1>2 DEF NewTable, Tables
  <2> QED
    BY <2>3, <2>4
<1> QED
  BY <1>1, <1>3 DEF NewTable

(* No turn is a turn with nothing to do. *)
LEMMA NoTurnTyped ==
  /\ NoTurn \in [plan : Seq(Stages), quota : Nat, left : Nat, single : BOOLEAN]
  /\ NoTurn.quota <= NoTurn.left /\ NoTurn.plan = <<>>
<1>1. <<>> \in Seq(Stages)
  OBVIOUS
<1> QED
  BY <1>1 DEF NoTurn

(* At the start nothing is stored, listed or referenced. *)
LEMMA Starts == Init => IInv
<1> SUFFICES ASSUME Init PROVE IInv
  OBVIOUS
<1>1. TablesOK /\ \A k \in Kinds, i \in Ids : ~Stored(tables[k].slots, i)
  <2>1. NewTable \in Tables /\ TableOK(NewTable) /\ \A i \in Ids : ~Stored(NewTable.slots, i)
    BY NewTableOK
  <2> QED
    BY <2>1 DEF TablesOK, Init
<1>2. ObjectsOK
  BY Sizes DEF ObjectsOK, Objects, Unissued, Init
<1>3. Holding /\ CommandsLease
  BY <1>1 DEF Holding, CommandsLease, Init, Unissued, Calls
<1>4. Referenced
  <2> SUFFICES ASSUME NEW i \in Ids PROVE object[i].refs = Holders(object, on, notifying.id, i)
    BY DEF Referenced
  <2>1. Leasing(on, i) = {} /\ i # NoId
    BY Names DEF Leasing, Init
  <2>2. Cardinality(Leasing(on, i)) = 0
    BY <2>1, FS_EmptySet
  <2> QED
    BY <2>1, <2>2 DEF Holders, Init, Unissued, NoWorker
<1>5. WorkerOK
  BY DEF WorkerOK, Init, NoWorker
<1>6. ListOK
  <2>1. Attached = {}
    BY DEF Attached, Init
  <2>2. Listing(<<>>, {})
    BY DEF Listing
  <2> QED
    BY <2>1, <2>2 DEF ListOK, Init
<1>7. HostOK
  BY NoTurnTyped DEF HostOK, Init
<1>8. ClosingOK
  BY DEF ClosingOK, Init
<1> QED
  BY <1>1, <1>2, <1>3, <1>4, <1>5, <1>6, <1>7, <1>8 DEF IInv, RegistryOK

-----------------------------------------------------------------------------
(* The host's turns. *)

(* A step that leaves the registry, the leases and the worker alone. *)
LEMMA RegistryStays ==
  ASSUME RegistryOK, UNCHANGED <<registry, on, notifying>>
  PROVE  RegistryOK'
<1>1. UNCHANGED <<tables, nextId, object, on, notifying>>
  BY DEF registry
<1>2. TablesOK' /\ ObjectsOK'
  BY <1>1 DEF RegistryOK, TablesOK, ObjectsOK
<1>3. Holding' /\ Referenced'
  BY <1>1 DEF RegistryOK, Holding, Referenced, Holders, Leasing
<1>4. CommandsLease' /\ WorkerOK'
  BY <1>1 DEF RegistryOK, CommandsLease, WorkerOK
<1> QED
  BY <1>2, <1>3, <1>4 DEF RegistryOK

(* One that also leaves the list alone, except where it is scanned. *)
LEMMA ListStays ==
  ASSUME ListOK, UNCHANGED <<on, pending, watching>>, ready' \subseteq Calls,
         scan' \in Attached \cup {NoCall}, polled' \in Attached \cup {NoCall}
  PROVE  ListOK' /\ Attached' = Attached
<1>1. Attached' = Attached
  BY DEF Attached
<1> QED
  BY <1>1 DEF ListOK

(* A stage is entered with the cursor on a listed call or on none. *)
LEMMA Entered ==
  ASSUME ListOK, NEW plan, Enter(plan)
  PROVE  scan' \in Attached \cup {NoCall}
<1>1. pending # <<>> => Head(pending) \in Attached
  BY ListingIs DEF ListOK
<1> QED
  BY <1>1 DEF Enter, ListOK

(* The plans of a turn and of what is left of it. *)
LEMMA StageOvers ==
  ASSUME HostOK, turn.plan # <<>>, StageOver
  PROVE  /\ turn' \in [plan : Seq(Stages), quota : Nat, left : Nat, single : BOOLEAN]
         /\ turn'.quota <= turn'.left
<1> DEFINE rest == IF turn.left = 0 THEN <<>> ELSE Tail(turn.plan)
<1>1. /\ turn \in [plan : Seq(Stages), quota : Nat, left : Nat, single : BOOLEAN]
      /\ turn.plan \in Seq(Stages) /\ turn.left \in Nat /\ turn.single \in BOOLEAN
  BY DEF HostOK
<1>2. rest \in Seq(Stages)
  <2>1. Tail(turn.plan) \in Seq(Stages)
    BY <1>1, HeadTailProperties
  <2> QED
    BY <2>1
<1>3. turn' = [turn EXCEPT !.plan = rest, !.quota = turn.left]
  BY DEF StageOver
<1> HIDE DEF rest
<1>4. turn' = [plan |-> rest, quota |-> turn.left, left |-> turn.left, single |-> turn.single]
  BY <1>1, <1>3
<1> QED
  BY <1>1, <1>2, <1>4

LEMMA StartTurnKeeps ==
  ASSUME IInv, NEW b \in Budgets, StartTurn(b)
  PROVE  IInv'
<1>1. RegistryOK'
  BY RegistryStays DEF IInv, StartTurn
<1>2. ListOK' /\ Attached' = Attached
  <2>1. scan' \in Attached \cup {NoCall}
    BY Entered DEF IInv, StartTurn
  <2> QED
    BY <2>1, ListStays DEF IInv, StartTurn, ListOK
<1>3. HostOK'
  <2>1. b \in Nat \ {0}
    BY BudgetsAssumption
  <2>2. (b \div 2) + (b % 2) \in Nat /\ (b \div 2) + (b % 2) <= b
    BY <2>1, Z3
  <2>3. TurnPlan(b) \in Seq(Stages)
    <3>1. waitsFirst \in BOOLEAN /\ phase = "open"
      BY DEF IInv, HostOK, StartTurn
    <3>2. CASE b > 1
      <4>1. ~(b = 1) /\ ~(phase = "closing")
        BY <2>1, <3>1, <3>2
      <4>2. TurnPlan(b) = <<"calls", "waits", "calls">>
        BY <3>1, <3>2, <4>1 DEF TurnPlan
      <4> QED
        BY <4>2 DEF Stages
    <3>3. CASE b = 1
      <4>1. ~(b > 1) /\ ~(phase = "closing")
        BY <3>1, <3>3
      <4>2. TurnPlan(b) = IF waitsFirst THEN <<"waits", "calls">> ELSE <<"calls", "waits">>
        BY <3>1, <3>3, <4>1 DEF TurnPlan
      <4>3. <<"waits", "calls">> \in Seq(Stages) /\ <<"calls", "waits">> \in Seq(Stages)
        BY DEF Stages
      <4> QED
        BY <4>2, <4>3
    <3> QED
      BY <2>1, <3>2, <3>3
  <2>4. turn' = [plan |-> TurnPlan(b), quota |-> (b \div 2) + (b % 2),
                 left |-> b, single |-> (b = 1)]
    BY DEF StartTurn
  <2>5. polled = NoCall
    BY DEF IInv, HostOK, InStage, StartTurn
  <2> QED
    BY <2>1, <2>2, <2>3, <2>4, <2>5 DEF IInv, HostOK, StartTurn
<1>4. ClosingOK'
  BY DEF IInv, ClosingOK, StartTurn
<1> QED
  BY <1>1, <1>2, <1>3, <1>4 DEF IInv

LEMMA CallsOverKeeps ==
  ASSUME IInv, CallsOver
  PROVE  IInv'
<1>1. RegistryOK'
  BY RegistryStays DEF IInv, CallsOver
<1>2. ListOK' /\ Attached' = Attached
  <2>1. scan' \in Attached \cup {NoCall}
    BY Entered DEF IInv, CallsOver, StageOver
  <2> QED
    BY <2>1, ListStays DEF IInv, CallsOver, ListOK
<1>3. HostOK'
  <2>1. polled = NoCall
    BY DEF IInv, HostOK, InStage, CallsOver
  <2> QED
    BY <2>1, StageOvers DEF IInv, HostOK, CallsOver, InStage
<1>4. ClosingOK'
  BY <1>2 DEF IInv, ClosingOK, CallsOver, InStage, registry, Unended
<1> QED
  BY <1>1, <1>2, <1>3, <1>4 DEF IInv

LEMMA WaitsOverKeeps ==
  ASSUME IInv, WaitsOver
  PROVE  IInv'
<1>1. RegistryOK'
  BY RegistryStays DEF IInv, WaitsOver
<1>2. ListOK' /\ Attached' = Attached
  <2>1. scan' \in Attached \cup {NoCall}
    BY Entered DEF IInv, WaitsOver, StageOver
  <2> QED
    BY <2>1, ListStays DEF IInv, WaitsOver, ListOK
<1>3. HostOK'
  BY StageOvers DEF IInv, HostOK, WaitsOver, InStage
<1>4. ClosingOK'
  BY <1>2 DEF IInv, ClosingOK, WaitsOver, InStage, registry, Unended
<1> QED
  BY <1>1, <1>2, <1>3, <1>4 DEF IInv

(* A callback or a poll uses up one of its stage's share. *)
LEMMA StepsOn ==
  ASSUME HostOK, Step, UNCHANGED <<waitsFirst, host, phase>>, notified' \in BOOLEAN,
         polled' = NoCall \/ polled' = polled
  PROVE  HostOK' /\ turn'.plan = turn.plan
<1>1. /\ turn \in [plan : Seq(Stages), quota : Nat, left : Nat, single : BOOLEAN]
      /\ turn.plan \in Seq(Stages) /\ turn.left \in Nat /\ turn.single \in BOOLEAN
      /\ turn.quota \in Nat /\ turn.quota > 0 /\ turn.quota <= turn.left
  BY DEF HostOK, Step
<1>2. turn' = [turn EXCEPT !.quota = turn.quota - 1, !.left = turn.left - 1]
  BY DEF Step
<1>3. turn' = [plan |-> turn.plan, quota |-> turn.quota - 1, left |-> turn.left - 1,
               single |-> turn.single]
  BY <1>1, <1>2
<1>4. /\ turn' \in [plan : Seq(Stages), quota : Nat, left : Nat, single : BOOLEAN]
      /\ turn'.quota <= turn'.left /\ turn'.plan = turn.plan
  BY <1>1, <1>3
<1> QED
  BY <1>4 DEF HostOK, InStage

(* Where a listed call is, and who comes after it. *)
LEMMA AfterListed ==
  ASSUME ListOK, NEW c \in Attached
  PROVE  /\ After(c) \in (Attached \ {c}) \cup {NoCall}
         /\ Listing(Unlisted(c), Attached \ {c})
<1>1. Listing(pending, Attached)
  BY DEF ListOK
<1>2. At(c) \in DOMAIN pending /\ pending[At(c)] = c
  BY <1>1 DEF Listing, At
<1> DEFINE i == At(c)
<1> HIDE DEF i
<1>3. Listing(RemoveAt(pending, i), Attached \ {c})
      /\ (i # Len(pending) => pending[i + 1] \in Attached \ {c})
  BY <1>1, <1>2, ListingTake DEF i
<1> QED
  BY <1>3 DEF After, Unlisted, i

LEMMA EndTurnKeeps ==
  ASSUME IInv, EndTurn
  PROVE  IInv'
<1>1. RegistryOK'
  BY RegistryStays DEF IInv, EndTurn, list
<1>2. ListOK' /\ Attached' = Attached
  BY ListStays DEF IInv, EndTurn, list, ListOK
<1>3. HostOK'
  <2>1. polled = NoCall
    BY DEF IInv, HostOK, InStage, EndTurn
  <2> QED
    BY <2>1, NoTurnTyped DEF IInv, HostOK, EndTurn, list
<1>4. ClosingOK'
  BY <1>2 DEF IInv, ClosingOK, EndTurn, registry, Unended, NoTurn
<1> QED
  BY <1>1, <1>2, <1>3, <1>4 DEF IInv

LEMMA WakeKeeps ==
  ASSUME IInv, Wake \/ ClientEnters
  PROVE  IInv'
<1>1. /\ UNCHANGED <<registry, list, notifying, turn, waitsFirst, phase>>
      /\ host = "asleep" /\ host' = "idle" /\ (notified' = notified \/ notified' = FALSE)
  BY DEF Wake, ClientEnters
<1>2. RegistryOK'
  BY <1>1, RegistryStays DEF IInv, list
<1>3. ListOK' /\ Attached' = Attached
  BY <1>1, ListStays DEF IInv, list, ListOK
<1>4. HostOK'
  <2>1. polled = NoCall
    BY <1>1 DEF IInv, HostOK, InStage
  <2> QED
    BY <1>1, <2>1 DEF IInv, HostOK, list
<1>5. ClosingOK'
  BY <1>1, <1>3 DEF IInv, ClosingOK, registry, Unended
<1> QED
  BY <1>2, <1>3, <1>4, <1>5 DEF IInv

LEMMA AnswerAtOnceKeeps ==
  ASSUME IInv, AnswerAtOnce
  PROVE  IInv'
<1>1. RegistryOK'
  BY RegistryStays DEF IInv, AnswerAtOnce, list
<1>2. ListOK' /\ Attached' = Attached
  BY ListStays DEF IInv, AnswerAtOnce, list, ListOK
<1>3. HostOK'
  <2>1. notified' \in BOOLEAN /\ polled' = polled
    BY DEF IInv, HostOK, AnswerAtOnce, list
  <2> QED
    BY <2>1, StepsOn DEF IInv, AnswerAtOnce, Callback
<1>4. ClosingOK'
  BY <1>2 DEF IInv, ClosingOK, AnswerAtOnce, Callback, InStage, registry, Unended
<1> QED
  BY <1>1, <1>2, <1>3, <1>4 DEF IInv

(* The cursor moves on before the call it was at is polled. *)
LEMMA PollNextKeeps ==
  ASSUME IInv, PollNext
  PROVE  IInv'
<1>1. RegistryOK'
  BY RegistryStays DEF IInv, PollNext
<1>2. scan \in Attached /\ After(scan) \in Attached \cup {NoCall}
  BY AfterListed DEF IInv, PollNext, ListOK
<1>3. ListOK' /\ Attached' = Attached
  <2>1. ready' \subseteq Calls
    BY DEF IInv, ListOK, PollNext
  <2> QED
    BY <1>2, <2>1, ListStays DEF IInv, PollNext
<1>4. HostOK'
  BY DEF IInv, HostOK, PollNext, InStage, hosting
<1>5. ClosingOK'
  BY <1>3 DEF IInv, ClosingOK, PollNext, registry, hosting, Unended
<1> QED
  BY <1>1, <1>3, <1>4, <1>5 DEF IInv

(* The cleanup starts only with no call left; a closing module has turns   *)
(* whose callbacks cancel.                                                 *)
LEMMA DestroyKeeps ==
  ASSUME IInv, Destroy
  PROVE  IInv'
<1>1. RegistryOK'
  BY RegistryStays DEF IInv, Destroy, list
<1>2. ListOK' /\ Attached' = Attached
  BY ListStays DEF IInv, Destroy, list, ListOK
<1>3. /\ turn' \in [plan : Seq(Stages), quota : Nat, left : Nat, single : BOOLEAN]
      /\ turn'.quota <= turn'.left
  <2>1. CASE phase \in {"open", "closing"} /\ Attached # {}
    <3>1. turn' = [plan |-> <<"calls">>, quota |-> 2, left |-> 2, single |-> FALSE]
      BY <2>1 DEF Destroy, NoTurn
    <3>2. <<"calls">> \in Seq(Stages)
      BY DEF Stages
    <3> QED
      BY <3>1, <3>2
  <2>2. CASE ~(phase \in {"open", "closing"} /\ Attached # {})
    BY <2>2, NoTurnTyped DEF Destroy
  <2> QED
    BY <2>1, <2>2
<1>4. HostOK'
  <2>1. polled = NoCall
    BY DEF IInv, HostOK, InStage, Destroy
  <2>2. phase' \in {"open", "closing", "cleanup", "swept", "cleaned", "freed"}
    BY DEF Destroy
  <2> QED
    BY <1>3, <2>1, <2>2 DEF IInv, HostOK, Destroy, list
<1>5. ClosingOK'
  <2>1. phase' \notin {"open", "closing"} => turn' = NoTurn /\ Attached = {}
    BY DEF Destroy, IInv, ClosingOK
  <2>2. phase' \notin {"cleaned", "freed"}
    BY DEF Destroy
  <2> QED
    BY <1>2, <2>1, <2>2 DEF ClosingOK, NoTurn
<1> QED
  BY <1>1, <1>2, <1>4, <1>5 DEF IInv

LEMMA FreedKeeps ==
  ASSUME IInv, Freed
  PROVE  IInv'
<1>1. RegistryOK'
  BY RegistryStays DEF IInv, Freed, list
<1>2. ListOK' /\ Attached' = Attached
  BY ListStays DEF IInv, Freed, list, ListOK
<1>3. HostOK'
  <2>1. polled = NoCall
    BY DEF IInv, HostOK, InStage, Freed
  <2> QED
    BY <2>1 DEF IInv, HostOK, Freed, list
<1>4. ClosingOK'
  BY <1>2 DEF IInv, ClosingOK, Freed, registry, Unended
<1> QED
  BY <1>1, <1>2, <1>3, <1>4 DEF IInv

-----------------------------------------------------------------------------
(* Steps that change objects and leave the leases alone. *)

Counted == [kind : Kinds \cup {"none"}, held : BOOLEAN, ended : BOOLEAN, refs : Int]

(* The ways an object is changed, field by field. *)
LEMMA FieldChanges ==
  ASSUME NEW x \in Counted, NEW b
  PROVE  /\ [x EXCEPT !.held = b] = [kind |-> x.kind, held |-> b, ended |-> x.ended, refs |-> x.refs]
         /\ [x EXCEPT !.ended = b] = [kind |-> x.kind, held |-> x.held, ended |-> b, refs |-> x.refs]
         /\ [x EXCEPT !.refs = b] = [kind |-> x.kind, held |-> x.held, ended |-> x.ended, refs |-> b]
BY DEF Counted

LEMMA RefsChange ==
  ASSUME NEW o \in [Ids -> Counted], NEW id \in Ids
  PROVE  /\ Dropped(o, id) \in [Ids -> Counted]
         /\ \A i \in Ids : LET n == Dropped(o, id)
                           IN  /\ n[i].kind = o[i].kind /\ (n[i].held <=> o[i].held)
                               /\ n[i].ended <=> o[i].ended
                               /\ n[i].refs = o[i].refs - (IF i = id THEN 1 ELSE 0)
                               /\ i # id => n[i] = o[i]
<1> DEFINE new == [kind |-> o[id].kind, held |-> o[id].held, ended |-> o[id].ended,
                   refs |-> o[id].refs - 1]
<1>1. o[id] \in Counted
  OBVIOUS
<1>2. Dropped(o, id) = [o EXCEPT ![id] = new]
  <2>1. [o[id] EXCEPT !.refs = o[id].refs - 1] = new
    BY <1>1 DEF Counted
  <2>2. Dropped(o, id) = [o EXCEPT ![id] = [o[id] EXCEPT !.refs = o[id].refs - 1]]
    BY DEF Dropped
  <2> QED
    BY <2>1, <2>2
<1>3. new \in Counted
  BY <1>1 DEF Counted
<1> HIDE DEF new
<1>4. Dropped(o, id) \in [Ids -> Counted]
      /\ \A i \in Ids : Dropped(o, id)[i] = IF i = id THEN new ELSE o[i]
  BY <1>2, <1>3
<1> QED
  BY <1>1, <1>4 DEF Counted, new

Ended(o, id) == [o EXCEPT ![id].ended = TRUE]
LEMMA EndedChange ==
  ASSUME NEW o \in [Ids -> Counted], NEW id \in Ids
  PROVE  /\ Ended(o, id) \in [Ids -> Counted]
         /\ \A i \in Ids : /\ Ended(o, id)[i].kind = o[i].kind /\ (Ended(o, id)[i].held <=> o[i].held)
                           /\ Ended(o, id)[i].ended <=> (o[i].ended \/ i = id)
                           /\ Ended(o, id)[i].refs = o[i].refs
                           /\ i # id => Ended(o, id)[i] = o[i]
<1> DEFINE new == [kind |-> o[id].kind, held |-> o[id].held, ended |-> TRUE,
                   refs |-> o[id].refs]
<1>1. \A i \in Ids : o[i] \in Counted
  OBVIOUS
<1>2. Ended(o, id) = [o EXCEPT ![id] = new]
  <2>1. [o[id] EXCEPT !.ended = TRUE] = new
    BY <1>1, FieldChanges
  <2>2. Ended(o, id) = [o EXCEPT ![id] = [o[id] EXCEPT !.ended = TRUE]]
    BY DEF Ended
  <2> QED
    BY <2>1, <2>2
<1>3. new \in Counted
  BY <1>1 DEF Counted
<1> HIDE DEF new
<1>4. Ended(o, id) \in [Ids -> Counted] /\ \A i \in Ids : Ended(o, id)[i] = IF i = id THEN new ELSE o[i]
  BY <1>2, <1>3
<1> QED
  BY <1>1, <1>4 DEF Counted, new

Unheld(o, id) == [o EXCEPT ![id].held = FALSE]
LEMMA HeldChange ==
  ASSUME NEW o \in [Ids -> Counted], NEW id \in Ids
  PROVE  /\ Unheld(o, id) \in [Ids -> Counted]
         /\ \A i \in Ids : /\ Unheld(o, id)[i].kind = o[i].kind /\ (Unheld(o, id)[i].ended <=> o[i].ended)
                           /\ Unheld(o, id)[i].held <=> (o[i].held /\ i # id)
                           /\ Unheld(o, id)[i].refs = o[i].refs
                           /\ i # id => Unheld(o, id)[i] = o[i]
<1> DEFINE new == [kind |-> o[id].kind, held |-> FALSE, ended |-> o[id].ended,
                   refs |-> o[id].refs]
<1>1. \A i \in Ids : o[i] \in Counted
  OBVIOUS
<1>2. Unheld(o, id) = [o EXCEPT ![id] = new]
  <2>1. [o[id] EXCEPT !.held = FALSE] = new
    BY <1>1, FieldChanges
  <2>2. Unheld(o, id) = [o EXCEPT ![id] = [o[id] EXCEPT !.held = FALSE]]
    BY DEF Unheld
  <2> QED
    BY <2>1, <2>2
<1>3. new \in Counted
  BY <1>1 DEF Counted
<1> HIDE DEF new
<1>4. Unheld(o, id) \in [Ids -> Counted] /\ \A i \in Ids : Unheld(o, id)[i] = IF i = id THEN new ELSE o[i]
  BY <1>2, <1>3
<1> QED
  BY <1>1, <1>4 DEF Counted, new

(* What no step undoes but the issue of a new id. *)
Kept(o, n) ==
  \A i \in Ids : /\ n[i].kind = o[i].kind /\ (o[i].ended => n[i].ended)
                 /\ n[i].held => o[i].held
                 /\ o[i] = Unissued => n[i] = Unissued

(* The counts keep the references in Nat. *)
LEMMA ObjectsStay ==
  ASSUME ObjectsOK, UNCHANGED nextId, on' \in [Calls -> Ids \cup {NoId}],
         object' \in [Ids -> Counted], Kept(object, object'), Referenced'
  PROVE  ObjectsOK'
<1>1. \A i \in Ids : object'[i].refs \in Nat
  <2> TAKE i \in Ids
  <2> DEFINE n == Cardinality(Leasing(on', i))
  <2>1. n \in Nat
    BY LeaseCounts
  <2>2. object'[i].refs = (IF object'[i].held THEN 1 ELSE 0)
          + (IF (object'[i].kind = "request" /\ ~object'[i].ended) \/ notifying'.id = i
             THEN 1 ELSE 0) + n
    BY DEF Referenced, Holders
  <2> HIDE DEF n
  <2> QED
    BY <2>1, <2>2
<1>2. object' \in [Ids -> Objects]
  <2>1. \A i \in Ids : object'[i] \in Objects
    BY <1>1 DEF Objects, Counted
  <2> QED
    BY <2>1
<1> QED
  BY <1>2 DEF ObjectsOK, Kept

LEMMA RegistryChanges ==
  ASSUME RegistryOK, ListOK, UNCHANGED <<nextId, on, notifying>>,
         object' \in [Ids -> Counted], Kept(object, object'),
         TablesOK', Holding', Referenced'
  PROVE  RegistryOK'
<1>1. ObjectsOK'
  BY ObjectsStay DEF RegistryOK, ListOK
<1>2. CommandsLease'
  BY Names DEF RegistryOK, CommandsLease, Kept, ListOK
<1>3. WorkerOK'
  BY DEF RegistryOK, WorkerOK, Kept
<1> QED
  BY <1>1, <1>2, <1>3 DEF RegistryOK

(* Steps that no end of the module is undone by. *)
LEMMA ClosingStays ==
  ASSUME ClosingOK, Kept(object, object'), Attached' \subseteq Attached,
         turn'.plan = turn.plan, UNCHANGED phase,
         notifying' = notifying \/ notifying' = NoWorker
  PROVE  ClosingOK'
<1>1. \A i \in Ids : (object'[i].held => object[i].held) /\ (Unended(i)' => Unended(i))
  BY DEF Kept, Unended
<1> QED
  BY <1>1 DEF ClosingOK

(* What is held is of a kind, and what is found is held. *)
LEMMA HeldKinds ==
  ASSUME RegistryOK, NEW i \in Ids, object[i].held
  PROVE  object[i].kind \in Kinds
<1>1. object[i].kind \in Kinds \cup {"none"}
  BY DEF RegistryOK, ObjectsOK, Objects
<1>2. object[i].kind # "none"
  BY DEF RegistryOK, ObjectsOK
<1> QED
  BY <1>1, <1>2

LEMMA FoundHeld ==
  ASSUME RegistryOK, NEW k \in Kinds, NEW id \in Ids
  PROVE  /\ Found(tables[k], id) # {} <=> Stored(tables[k].slots, id)
         /\ Found(tables[k], id) # {} <=> (object[id].held /\ object[id].kind = k)
<1>1. TableOK(tables[k])
  BY DEF RegistryOK, TablesOK
<1>2. Found(tables[k], id) # {} <=> Stored(tables[k].slots, id)
  BY <1>1, TableAnswers
<1> QED
  BY <1>2 DEF RegistryOK, Holding

(* Cancellation ends a queued request, which its coordinator lets go. *)
LEMMA CancelEffects ==
  ASSUME NEW o \in [Ids -> Counted], NEW id \in Ids, NEW queued \in BOOLEAN,
         CancelEffect(o, id, queued), ListOK, notified \in BOOLEAN
  PROVE  /\ object' \in [Ids -> Counted]
         /\ \A i \in Ids : /\ object'[i].kind = o[i].kind /\ (object'[i].held <=> o[i].held)
                           /\ object'[i].ended <=> (o[i].ended \/ (queued /\ i = id))
                           /\ object'[i].refs = o[i].refs - (IF queued /\ i = id THEN 1 ELSE 0)
                           /\ i # id => object'[i] = o[i]
         /\ ready' \subseteq Calls /\ notified' \in BOOLEAN
<1>1. ready' \subseteq Calls
  BY Names DEF CancelEffect, ListOK
<1>2. notified' \in BOOLEAN
  BY DEF CancelEffect
<1>3. CASE queued
  <2> DEFINE d == Dropped(o, id)
  <2>1. object' = Ended(d, id)
    BY <1>3 DEF CancelEffect, Ended
  <2>2. d \in [Ids -> Counted]
        /\ \A i \in Ids : /\ d[i].kind = o[i].kind /\ (d[i].held <=> o[i].held)
                          /\ d[i].ended <=> o[i].ended
                          /\ d[i].refs = o[i].refs - (IF i = id THEN 1 ELSE 0)
                          /\ i # id => d[i] = o[i]
    BY RefsChange
  <2> HIDE DEF d
  <2>3. object' \in [Ids -> Counted]
        /\ \A i \in Ids : /\ object'[i].kind = d[i].kind /\ (object'[i].held <=> d[i].held)
                          /\ object'[i].ended <=> (d[i].ended \/ i = id)
                          /\ object'[i].refs = d[i].refs
                          /\ i # id => object'[i] = d[i]
    BY <2>1, <2>2, EndedChange
  <2> QED
    BY <1>1, <1>2, <1>3, <2>2, <2>3
<1>4. CASE ~queued
  <2>1. object' = o
    BY <1>4 DEF CancelEffect
  <2>2. \A i \in Ids : o[i].refs \in Int /\ o[i].ended \in BOOLEAN
    BY DEF Counted
  <2> QED
    BY <1>1, <1>2, <1>4, <2>1, <2>2
<1> QED
  BY <1>3, <1>4

LEMMA Typed ==
  ASSUME RegistryOK
  PROVE  /\ object \in [Ids -> Counted]
         /\ \A i \in Ids : object[i].refs \in Nat /\ object[i].held \in BOOLEAN
                           /\ object[i].ended \in BOOLEAN
<1>1. object \in [Ids -> Objects]
  BY DEF RegistryOK, ObjectsOK
<1>2. Objects \subseteq Counted
  BY DEF Objects, Counted
<1> QED
  BY <1>1, <1>2 DEF Objects

(* The handle lets go of the object and its id leaves the table. *)
LEMMA ReleasedChange ==
  ASSUME RegistryOK, NEW id \in Ids
  PROVE  /\ Released(id) \in [Ids -> Counted]
         /\ \A i \in Ids : LET n == Released(id)
                           IN  /\ n[i].kind = object[i].kind
                               /\ n[i].held <=> (object[i].held /\ i # id)
                               /\ n[i].ended <=> object[i].ended
                               /\ n[i].refs = object[i].refs - (IF i = id THEN 1 ELSE 0)
                               /\ i # id => n[i] = object[i]
<1> DEFINE d == Dropped(object, id)
<1>1. d \in [Ids -> Counted]
      /\ \A i \in Ids : /\ d[i].kind = object[i].kind /\ (d[i].held <=> object[i].held)
                        /\ d[i].ended <=> object[i].ended
                        /\ d[i].refs = object[i].refs - (IF i = id THEN 1 ELSE 0)
                        /\ i # id => d[i] = object[i]
  BY Typed, RefsChange
<1>2. Released(id) = Unheld(d, id)
  BY DEF Released, Unheld
<1> HIDE DEF d
<1>3. Released(id) \in [Ids -> Counted]
      /\ \A i \in Ids : /\ Released(id)[i].kind = d[i].kind
                        /\ Released(id)[i].ended <=> d[i].ended
                        /\ Released(id)[i].held <=> (d[i].held /\ i # id)
                        /\ Released(id)[i].refs = d[i].refs
                        /\ i # id => Released(id)[i] = d[i]
  BY <1>1, <1>2, HeldChange
<1> QED
  BY <1>1, <1>3

LEMMA TablesRelease ==
  ASSUME RegistryOK, NEW k \in Kinds, NEW id \in Ids, Found(tables[k], id) # {},
         tables' = [tables EXCEPT ![k] = Removed(tables[k], id)],
         \A i \in Ids : /\ object'[i].kind = object[i].kind
                        /\ object'[i].held <=> (object[i].held /\ i # id)
  PROVE  TablesOK' /\ Holding'
<1> DEFINE r == Removed(tables[k], id)
<1>1. tables[k] \in Tables /\ TableOK(tables[k]) /\ Stored(tables[k].slots, id)
      /\ object[id].held /\ object[id].kind = k
  BY FoundHeld DEF RegistryOK, TablesOK
<1>2. /\ r \in Tables /\ TableOK(r)
      /\ \A j \in Ids : Stored(r.slots, j) <=> Stored(tables[k].slots, j) /\ j # id
  BY <1>1, RemoveTakes
<1> HIDE DEF r
<1>3. tables' \in [Kinds -> Tables] /\ \A m \in Kinds : tables'[m] = IF m = k THEN r ELSE tables[m]
  BY <1>2 DEF r, RegistryOK, TablesOK
<1>4. TablesOK'
  BY <1>2, <1>3 DEF RegistryOK, TablesOK
<1>5. Holding'
  <2> SUFFICES ASSUME NEW m \in Kinds, NEW i \in Ids
               PROVE  Stored(tables'[m].slots, i) <=> object'[i].held /\ object'[i].kind = m
    BY DEF Holding
  <2>1. Stored(tables[m].slots, i) <=> object[i].held /\ object[i].kind = m
    BY DEF RegistryOK, Holding
  <2>2. CASE m = k
    BY <1>2, <1>3, <2>1, <2>2
  <2>3. CASE m # k
    BY <1>1, <1>3, <2>1, <2>3
  <2> QED
    BY <2>2, <2>3
<1> QED
  BY <1>4, <1>5

(* A request that is found is not in the hands of a worker. *)
LEMMA CancelRequestKeeps ==
  ASSUME IInv, NEW id \in Ids, NEW queued \in BOOLEAN, CancelRequest(id, queued)
  PROVE  IInv'
<1>1. /\ UNCHANGED <<tables, nextId, on, pending, scan, polled, watching, notifying,
                    waitsFirst, host, phase>>
      /\ Callback /\ notifying.id # id /\ (queued => ~object[id].ended)
      /\ object[id].held /\ object[id].kind = "request"
      /\ notified \in BOOLEAN
  BY FoundHeld, Names DEF CancelRequest, Unlocked, IInv, HostOK
<1>2. /\ object' \in [Ids -> Counted]
      /\ \A i \in Ids : /\ object'[i].kind = object[i].kind /\ (object'[i].held <=> object[i].held)
                        /\ object'[i].ended <=> (object[i].ended \/ (queued /\ i = id))
                        /\ object'[i].refs = object[i].refs - (IF queued /\ i = id THEN 1 ELSE 0)
                        /\ i # id => object'[i] = object[i]
      /\ ready' \subseteq Calls /\ notified' \in BOOLEAN
  BY <1>1, Typed, CancelEffects DEF IInv, CancelRequest
<1>3. Kept(object, object')
  <2>1. \A i \in Ids : object[i] = Unissued => i # id
    BY <1>1 DEF Unissued
  <2> QED
    BY <1>2, <2>1 DEF Kept
<1>4. TablesOK' /\ Holding'
  BY <1>1, <1>2 DEF IInv, RegistryOK, TablesOK, Holding
<1>5. Referenced'
  <2> SUFFICES ASSUME NEW i \in Ids
               PROVE  object'[i].refs = Holders(object', on', notifying'.id, i)
    BY DEF Referenced
  <2> DEFINE n == Cardinality(Leasing(on, i))
  <2>1. n \in Nat /\ Cardinality(Leasing(on', i)) = n
    BY <1>1, LeaseCounts DEF IInv, ListOK
  <2>2. object[i].refs = (IF object[i].held THEN 1 ELSE 0)
          + (IF (object[i].kind = "request" /\ ~object[i].ended) \/ notifying.id = i
             THEN 1 ELSE 0) + n
    BY DEF IInv, RegistryOK, Referenced, Holders
  <2> HIDE DEF n
  <2> QED
    BY <1>1, <1>2, <2>1, <2>2 DEF Holders
<1>6. RegistryOK'
  BY <1>1, <1>2, <1>3, <1>4, <1>5, RegistryChanges DEF IInv
<1>7. ListOK' /\ Attached' = Attached
  BY <1>1, <1>2, ListStays DEF IInv, ListOK
<1>8. HostOK' /\ turn'.plan = turn.plan
  BY <1>1, <1>2, StepsOn DEF IInv, Callback
<1>9. ClosingOK'
  BY <1>1, <1>3, <1>7, <1>8, ClosingStays DEF IInv
<1> QED
  BY <1>6, <1>7, <1>8, <1>9 DEF IInv

LEMMA ReleaseRequestKeeps ==
  ASSUME IInv, NEW id \in Ids, NEW queued \in BOOLEAN, ReleaseRequest(id, queued)
  PROVE  IInv'
<1>1. /\ UNCHANGED <<nextId, on, pending, scan, polled, watching, notifying,
                    waitsFirst, host, phase>>
      /\ Callback /\ notifying.id # id /\ (queued => ~object[id].ended)
      /\ object[id].held /\ object[id].kind = "request"
      /\ Found(tables["request"], id) # {}
      /\ tables' = [tables EXCEPT !["request"] = Removed(tables["request"], id)]
      /\ notified \in BOOLEAN
  BY FoundHeld, Names DEF ReleaseRequest, Unlocked, IInv, HostOK
<1> DEFINE o == Released(id)
<1>2. o \in [Ids -> Counted]
      /\ \A i \in Ids : /\ o[i].kind = object[i].kind /\ (o[i].held <=> (object[i].held /\ i # id))
                        /\ o[i].ended <=> object[i].ended
                        /\ o[i].refs = object[i].refs - (IF i = id THEN 1 ELSE 0)
                        /\ i # id => o[i] = object[i]
  BY ReleasedChange DEF IInv
<1>3. CancelEffect(o, id, queued)
  BY DEF ReleaseRequest
<1> HIDE DEF o
<1>4. /\ object' \in [Ids -> Counted]
      /\ \A i \in Ids : /\ object'[i].kind = o[i].kind /\ (object'[i].held <=> o[i].held)
                        /\ object'[i].ended <=> (o[i].ended \/ (queued /\ i = id))
                        /\ object'[i].refs = o[i].refs - (IF queued /\ i = id THEN 1 ELSE 0)
                        /\ i # id => object'[i] = o[i]
      /\ ready' \subseteq Calls /\ notified' \in BOOLEAN
  BY <1>1, <1>2, <1>3, CancelEffects DEF IInv
<1>5. Kept(object, object')
  <2>1. \A i \in Ids : object[i] = Unissued => i # id
    BY <1>1 DEF Unissued
  <2> QED
    BY <1>2, <1>4, <2>1 DEF Kept
<1>6. TablesOK' /\ Holding'
  <2>1. \A i \in Ids : /\ object'[i].kind = object[i].kind
                       /\ object'[i].held <=> (object[i].held /\ i # id)
    BY <1>2, <1>4
  <2> QED
    BY <1>1, <2>1, Names, TablesRelease DEF IInv
<1>7. Referenced'
  <2> SUFFICES ASSUME NEW i \in Ids
               PROVE  object'[i].refs = Holders(object', on', notifying'.id, i)
    BY DEF Referenced
  <2> DEFINE n == Cardinality(Leasing(on, i))
  <2>1. n \in Nat /\ Cardinality(Leasing(on', i)) = n
    BY <1>1, LeaseCounts DEF IInv, ListOK
  <2>2. object[i].refs = (IF object[i].held THEN 1 ELSE 0)
          + (IF (object[i].kind = "request" /\ ~object[i].ended) \/ notifying.id = i
             THEN 1 ELSE 0) + n
    BY DEF IInv, RegistryOK, Referenced, Holders
  <2> HIDE DEF n
  <2> QED
    BY <1>1, <1>2, <1>4, <2>1, <2>2 DEF Holders
<1>8. RegistryOK'
  BY <1>1, <1>4, <1>5, <1>6, <1>7, RegistryChanges DEF IInv
<1>9. ListOK' /\ Attached' = Attached
  BY <1>1, <1>4, ListStays DEF IInv, ListOK
<1>10. HostOK' /\ turn'.plan = turn.plan
  BY <1>1, <1>4, StepsOn DEF IInv, Callback
<1>11. ClosingOK'
  BY <1>1, <1>5, <1>9, <1>10, ClosingStays DEF IInv
<1> QED
  BY <1>8, <1>9, <1>10, <1>11 DEF IInv

LEMMA ReleaseSessionKeeps ==
  ASSUME IInv, NEW id \in Ids, ReleaseSession(id)
  PROVE  IInv'
<1>1. /\ UNCHANGED <<nextId, list, notifying, waitsFirst, host, phase, notified>>
      /\ UNCHANGED <<on, pending, scan, ready, polled, watching>>
      /\ Callback /\ object[id].held /\ object[id].kind = "session"
      /\ Found(tables["session"], id) # {}
      /\ tables' = [tables EXCEPT !["session"] = Removed(tables["session"], id)]
  BY FoundHeld, Names DEF ReleaseSession, IInv, list
<1> DEFINE o == Released(id)
<1>2. o \in [Ids -> Counted]
      /\ \A i \in Ids : /\ o[i].kind = object[i].kind /\ (o[i].held <=> (object[i].held /\ i # id))
                        /\ o[i].ended <=> object[i].ended
                        /\ o[i].refs = object[i].refs - (IF i = id THEN 1 ELSE 0)
                        /\ i # id => o[i] = object[i]
  BY ReleasedChange DEF IInv
<1>3. object' = Ended(o, id)
  BY DEF ReleaseSession, Ended
<1> HIDE DEF o
<1>4. /\ object' \in [Ids -> Counted]
      /\ \A i \in Ids : /\ object'[i].kind = o[i].kind /\ (object'[i].held <=> o[i].held)
                        /\ object'[i].ended <=> (o[i].ended \/ i = id)
                        /\ object'[i].refs = o[i].refs
                        /\ i # id => object'[i] = o[i]
  BY <1>2, <1>3, EndedChange
<1>5. Kept(object, object')
  <2>1. \A i \in Ids : object[i] = Unissued => i # id
    BY <1>1 DEF Unissued
  <2> QED
    BY <1>2, <1>4, <2>1 DEF Kept
<1>6. TablesOK' /\ Holding'
  <2>1. \A i \in Ids : /\ object'[i].kind = object[i].kind
                       /\ object'[i].held <=> (object[i].held /\ i # id)
    BY <1>2, <1>4
  <2> QED
    BY <1>1, <2>1, Names, TablesRelease DEF IInv
<1>7. Referenced'
  <2> SUFFICES ASSUME NEW i \in Ids
               PROVE  object'[i].refs = Holders(object', on', notifying'.id, i)
    BY DEF Referenced
  <2> DEFINE n == Cardinality(Leasing(on, i))
  <2>1. n \in Nat /\ Cardinality(Leasing(on', i)) = n
    BY <1>1, LeaseCounts DEF IInv, ListOK
  <2>2. object[i].refs = (IF object[i].held THEN 1 ELSE 0)
          + (IF (object[i].kind = "request" /\ ~object[i].ended) \/ notifying.id = i
             THEN 1 ELSE 0) + n
    BY DEF IInv, RegistryOK, Referenced, Holders
  <2> HIDE DEF n
  <2> QED
    BY <1>1, <1>2, <1>4, <2>1, <2>2 DEF Holders
<1>8. RegistryOK'
  BY <1>1, <1>4, <1>5, <1>6, <1>7, RegistryChanges DEF IInv
<1>9. ListOK' /\ Attached' = Attached
  BY <1>1, ListStays DEF IInv, ListOK
<1>10. HostOK' /\ turn'.plan = turn.plan
  <2>1. notified' \in BOOLEAN
    BY <1>1 DEF IInv, HostOK
  <2> QED
    BY <1>1, <2>1, StepsOn DEF IInv, Callback
<1>11. ClosingOK'
  BY <1>1, <1>5, <1>9, <1>10, ClosingStays DEF IInv
<1> QED
  BY <1>8, <1>9, <1>10, <1>11 DEF IInv

-----------------------------------------------------------------------------
(* Engine workers and the cleanup thread. *)

(* The worker takes over the reference of the coordinator. *)
LEMMA WorkerEndsKeeps ==
  ASSUME IInv, NEW id \in Ids, WorkerEnds(id)
  PROVE  IInv'
<1>1. /\ UNCHANGED <<tables, nextId, on, pending, scan, ready, polled, watching>>
      /\ UNCHANGED <<turn, waitsFirst, host, phase, notified>>
      /\ object[id].kind = "request" /\ ~object[id].ended
      /\ notifying = NoWorker /\ notifying.id = NoId
      /\ notifying' = [id |-> id, left |-> {w \in watching : on[w] = id}]
      /\ notifying'.id = id /\ object' = Ended(object, id)
  BY DEF WorkerEnds, Unended, NoWorker, list, hosting, Ended
<1>2. /\ object' \in [Ids -> Counted]
      /\ \A i \in Ids : /\ object'[i].kind = object[i].kind /\ (object'[i].held <=> object[i].held)
                        /\ object'[i].ended <=> (object[i].ended \/ i = id)
                        /\ object'[i].refs = object[i].refs
                        /\ i # id => object'[i] = object[i]
  BY <1>1, Typed, EndedChange DEF IInv
<1>3. Kept(object, object')
  <2>1. \A i \in Ids : object[i] = Unissued => i # id
    BY <1>1 DEF Unissued
  <2> QED
    BY <1>2, <2>1 DEF Kept
<1>4. TablesOK' /\ Holding'
  BY <1>1, <1>2 DEF IInv, RegistryOK, TablesOK, Holding
<1>5. Referenced'
  <2> SUFFICES ASSUME NEW i \in Ids
               PROVE  object'[i].refs = Holders(object', on', notifying'.id, i)
    BY DEF Referenced
  <2> DEFINE n == Cardinality(Leasing(on, i))
  <2>1. n \in Nat /\ Cardinality(Leasing(on', i)) = n /\ i # NoId
    BY <1>1, LeaseCounts, Names DEF IInv, ListOK
  <2>2. object[i].refs = (IF object[i].held THEN 1 ELSE 0)
          + (IF (object[i].kind = "request" /\ ~object[i].ended) \/ notifying.id = i
             THEN 1 ELSE 0) + n
    BY DEF IInv, RegistryOK, Referenced, Holders
  <2> HIDE DEF n
  <2> QED
    BY <1>1, <1>2, <2>1, <2>2 DEF Holders
<1>6. ObjectsOK'
  BY <1>1, <1>2, <1>3, <1>5, ObjectsStay DEF IInv, RegistryOK, ListOK
<1>7. CommandsLease'
  BY <1>1, <1>3, Names DEF IInv, RegistryOK, CommandsLease, Kept, ListOK
<1>8. WorkerOK'
  <2>1. notifying' \in [id : Ids \cup {NoId}, left : SUBSET Waits]
    BY <1>1 DEF IInv, ListOK
  <2>2. object'[id].ended
    BY <1>2
  <2>3. \A w \in notifying'.left : on'[w] = notifying'.id /\ on'[w] # NoId
    BY <1>1, Names
  <2> QED
    BY <1>1, <2>1, <2>2, <2>3 DEF WorkerOK
<1>9. ListOK' /\ Attached' = Attached
  BY <1>1, ListStays DEF IInv, ListOK
<1>10. HostOK'
  BY <1>1 DEF IInv, HostOK, InStage
<1>11. ClosingOK'
  <2>1. phase \notin {"cleaned", "freed"}
    BY <1>1 DEF IInv, ClosingOK, Unended
  <2> QED
    BY <1>1, <1>9, <2>1 DEF IInv, ClosingOK
<1> QED
  BY <1>4, <1>5, <1>6, <1>7, <1>8, <1>9, <1>10, <1>11 DEF IInv, RegistryOK

LEMMA WorkerNotifiesKeeps ==
  ASSUME IInv, NEW w \in Waits, WorkerNotifies(w)
  PROVE  IInv'
<1>1. /\ UNCHANGED <<tables, nextId, object, on, pending, scan, polled, watching>>
      /\ UNCHANGED <<turn, waitsFirst, host, phase>>
      /\ w \in notifying.left /\ notified' = TRUE /\ ready' = ready \cup {w}
      /\ notifying' = [notifying EXCEPT !.left = notifying.left \ {w}]
  BY DEF WorkerNotifies, registry, hosting
<1>2. notifying \in [id : Ids \cup {NoId}, left : SUBSET Waits]
  BY DEF IInv, RegistryOK, WorkerOK
<1>3. notifying' \in [id : Ids \cup {NoId}, left : SUBSET Waits]
      /\ notifying'.id = notifying.id /\ notifying'.left \subseteq notifying.left
  BY <1>1, <1>2
<1>4. TablesOK' /\ ObjectsOK' /\ Holding' /\ CommandsLease'
  BY <1>1 DEF IInv, RegistryOK, TablesOK, ObjectsOK, Holding, CommandsLease
<1>5. Referenced'
  BY <1>1, <1>3 DEF IInv, RegistryOK, Referenced, Holders, Leasing
<1>6. WorkerOK'
  BY <1>1, <1>3 DEF IInv, RegistryOK, WorkerOK
<1>7. ListOK' /\ Attached' = Attached
  <2>1. ready' \subseteq Calls
    BY <1>1, Names DEF IInv, ListOK
  <2> QED
    BY <1>1, <2>1, ListStays DEF IInv, ListOK
<1>8. HostOK'
  BY <1>1 DEF IInv, HostOK, InStage
<1>9. ClosingOK'
  <2>1. phase \notin {"cleaned", "freed"}
    BY <1>1 DEF IInv, ClosingOK, NoWorker
  <2> QED
    BY <1>1, <1>7, <2>1 DEF IInv, ClosingOK
<1> QED
  BY <1>4, <1>5, <1>6, <1>7, <1>8, <1>9 DEF IInv, RegistryOK

LEMMA WorkerLeavesKeeps ==
  ASSUME IInv, WorkerLeaves
  PROVE  IInv'
<1> DEFINE id == notifying.id
<1>1. /\ UNCHANGED <<tables, nextId, on, pending, scan, ready, polled, watching>>
      /\ UNCHANGED <<turn, waitsFirst, host, phase, notified>>
      /\ id \in Ids /\ object[id].ended
      /\ notifying' = NoWorker /\ notifying'.id = NoId
      /\ object' = Dropped(object, id)
  BY DEF WorkerLeaves, NoWorker, list, hosting, IInv, RegistryOK, WorkerOK
<1> HIDE DEF id
<1>2. /\ object' \in [Ids -> Counted]
      /\ \A i \in Ids : /\ object'[i].kind = object[i].kind /\ (object'[i].held <=> object[i].held)
                        /\ object'[i].ended <=> object[i].ended
                        /\ object'[i].refs = object[i].refs - (IF i = id THEN 1 ELSE 0)
                        /\ i # id => object'[i] = object[i]
  BY <1>1, Typed, RefsChange DEF IInv
<1>3. Kept(object, object')
  <2>1. \A i \in Ids : object[i] = Unissued => i # id
    BY <1>1 DEF Unissued
  <2> QED
    BY <1>2, <2>1 DEF Kept
<1>4. TablesOK' /\ Holding'
  BY <1>1, <1>2 DEF IInv, RegistryOK, TablesOK, Holding
<1>5. Referenced'
  <2> SUFFICES ASSUME NEW i \in Ids
               PROVE  object'[i].refs = Holders(object', on', notifying'.id, i)
    BY DEF Referenced
  <2> DEFINE n == Cardinality(Leasing(on, i))
  <2>1. n \in Nat /\ Cardinality(Leasing(on', i)) = n /\ i # NoId
    BY <1>1, LeaseCounts, Names DEF IInv, ListOK
  <2>2. object[i].refs = (IF object[i].held THEN 1 ELSE 0)
          + (IF (object[i].kind = "request" /\ ~object[i].ended) \/ notifying.id = i
             THEN 1 ELSE 0) + n
    BY DEF IInv, RegistryOK, Referenced, Holders
  <2> HIDE DEF n
  <2> QED
    BY <1>1, <1>2, <2>1, <2>2 DEF Holders, id
<1>6. ObjectsOK'
  BY <1>1, <1>2, <1>3, <1>5, ObjectsStay DEF IInv, RegistryOK, ListOK
<1>7. CommandsLease'
  BY <1>1, <1>3, Names DEF IInv, RegistryOK, CommandsLease, Kept, ListOK
<1>8. WorkerOK'
  BY <1>1 DEF WorkerOK, NoWorker
<1>9. ListOK' /\ Attached' = Attached
  BY <1>1, ListStays DEF IInv, ListOK
<1>10. HostOK'
  BY <1>1 DEF IInv, HostOK, InStage
<1>11. ClosingOK'
  BY <1>1, <1>3, <1>9, ClosingStays DEF IInv
<1> QED
  BY <1>4, <1>5, <1>6, <1>7, <1>8, <1>9, <1>10, <1>11 DEF IInv, RegistryOK

(* In the cleanup no worker notifies: each of the unended requests that    *)
(* end here gives up the reference of its coordinator.                     *)
LEMMA CleanupCancelsKeeps ==
  ASSUME IInv, NEW queued \in SUBSET {i \in Listed : Unended(i)}, CleanupCancels(queued)
  PROVE  IInv'
<1>1. /\ UNCHANGED <<tables, nextId, on, pending, scan, ready, polled, watching>>
      /\ UNCHANGED <<turn, waitsFirst, host, notified, notifying>>
      /\ phase = "cleanup" /\ phase' = "swept" /\ notifying = NoWorker /\ notifying.id = NoId
  BY DEF CleanupCancels, NoWorker, list
<1>0. \A i \in queued : object[i].kind = "request" /\ ~object[i].ended
  BY DEF Unended
<1>2. /\ object' \in [Ids -> Counted]
      /\ \A i \in Ids : /\ object'[i].kind = object[i].kind /\ (object'[i].held <=> object[i].held)
                        /\ object'[i].ended <=> (object[i].ended \/ i \in queued)
                        /\ object'[i].refs = object[i].refs - (IF i \in queued THEN 1 ELSE 0)
                        /\ i \notin queued => object'[i] = object[i]
  <2> DEFINE cut(i) == [kind |-> object[i].kind, held |-> object[i].held, ended |-> TRUE,
                        refs |-> object[i].refs - 1]
  <2>1. \A i \in Ids : object[i] \in Counted
    BY Typed DEF IInv
  <2>2. \A i \in Ids : [object[i] EXCEPT !.ended = TRUE, !.refs = object[i].refs - 1] = cut(i)
    <3> TAKE i \in Ids
    <3> DEFINE x == object[i]
               y == [x EXCEPT !.ended = TRUE]
    <3>1. x \in Counted
      BY <2>1
    <3> HIDE DEF x
    <3>2. y = [kind |-> x.kind, held |-> x.held, ended |-> TRUE, refs |-> x.refs]
      BY <3>1, FieldChanges
    <3>3. y \in Counted
      BY <3>1, <3>2 DEF Counted
    <3>4. [x EXCEPT !.ended = TRUE, !.refs = x.refs - 1] = [y EXCEPT !.refs = x.refs - 1]
      OBVIOUS
    <3> HIDE DEF y
    <3>5. [y EXCEPT !.refs = x.refs - 1]
            = [kind |-> y.kind, held |-> y.held, ended |-> y.ended, refs |-> x.refs - 1]
      BY <3>3, FieldChanges
    <3>6. [y EXCEPT !.refs = x.refs - 1]
            = [kind |-> x.kind, held |-> x.held, ended |-> TRUE, refs |-> x.refs - 1]
      BY <3>2, <3>5
    <3> QED
      BY <3>4, <3>6 DEF x
  <2>3. \A i \in Ids : cut(i) \in Counted
    BY <2>1 DEF Counted
  <2> HIDE DEF cut
  <2>4. \A i \in Ids : object'[i] = IF i \in queued THEN cut(i) ELSE object[i]
    BY <2>2 DEF CleanupCancels
  <2>5. object' = [i \in Ids |-> IF i \in queued THEN cut(i) ELSE object[i]]
    BY <2>2 DEF CleanupCancels
  <2>6. object' \in [Ids -> Counted]
    BY <2>1, <2>3, <2>5
  <2> QED
    BY <2>1, <2>4, <2>6 DEF cut, Counted
<1>3. Kept(object, object')
  <2>1. \A i \in Ids : object[i] = Unissued => i \notin queued
    BY <1>0 DEF Unissued
  <2> QED
    BY <1>2, <2>1 DEF Kept
<1>4. TablesOK' /\ Holding'
  BY <1>1, <1>2 DEF IInv, RegistryOK, TablesOK, Holding
<1>5. Referenced'
  <2> SUFFICES ASSUME NEW i \in Ids
               PROVE  object'[i].refs = Holders(object', on', notifying'.id, i)
    BY DEF Referenced
  <2> DEFINE n == Cardinality(Leasing(on, i))
  <2>1. n \in Nat /\ Cardinality(Leasing(on', i)) = n /\ i # NoId
    BY <1>1, LeaseCounts, Names DEF IInv, ListOK
  <2>2. object[i].refs = (IF object[i].held THEN 1 ELSE 0)
          + (IF (object[i].kind = "request" /\ ~object[i].ended) \/ notifying.id = i
             THEN 1 ELSE 0) + n
    BY DEF IInv, RegistryOK, Referenced, Holders
  <2> HIDE DEF n
  <2> QED
    BY <1>0, <1>1, <1>2, <2>1, <2>2 DEF Holders
<1>6. RegistryOK'
  BY <1>1, <1>2, <1>3, <1>4, <1>5, RegistryChanges DEF IInv
<1>7. ListOK' /\ Attached' = Attached
  BY <1>1, ListStays DEF IInv, ListOK
<1>8. HostOK'
  BY <1>1 DEF IInv, HostOK, InStage
<1>9. ClosingOK'
  BY <1>1, <1>7 DEF IInv, ClosingOK
<1> QED
  BY <1>6, <1>7, <1>8, <1>9 DEF IInv

(* The tables are emptied of exactly the ids whose handles let go. *)
LEMMA CleanupReleasesKeeps ==
  ASSUME IInv, CleanupReleases
  PROVE  IInv'
<1>1. /\ UNCHANGED <<nextId, on, pending, scan, ready, polled, watching>>
      /\ UNCHANGED <<turn, waitsFirst, host, notifying>> /\ notified' = TRUE
      /\ phase = "swept" /\ phase' = "cleaned" /\ notifying = NoWorker
      /\ \A i \in Ids : ~Unended(i)
      /\ tables' = [k \in Kinds |-> NewTable]
  BY DEF CleanupReleases, list
<1>2. \A i \in Ids : i \in Listed <=> object[i].held
  <2> TAKE i \in Ids
  <2>1. i \in Listed <=> \E k \in Kinds : object[i].held /\ object[i].kind = k
    BY FoundHeld DEF Listed, IInv
  <2>2. object[i].held => object[i].kind \in Kinds
    BY HeldKinds DEF IInv
  <2> QED
    BY <2>1, <2>2
<1>3. /\ object' \in [Ids -> Counted]
      /\ \A i \in Ids : /\ object'[i].kind = object[i].kind /\ ~object'[i].held
                        /\ object'[i].ended <=> object[i].ended
                        /\ object'[i].refs = object[i].refs - (IF object[i].held THEN 1 ELSE 0)
                        /\ ~object[i].held => object'[i] = object[i]
  <2> DEFINE cut(i) == [kind |-> object[i].kind, held |-> FALSE, ended |-> object[i].ended,
                        refs |-> object[i].refs - 1]
  <2>1. \A i \in Ids : object[i] \in Counted
    BY Typed DEF IInv
  <2>2. \A i \in Ids : [object[i] EXCEPT !.held = FALSE, !.refs = object[i].refs - 1] = cut(i)
    <3> TAKE i \in Ids
    <3> DEFINE x == object[i]
               y == [x EXCEPT !.held = FALSE]
    <3>1. x \in Counted
      BY <2>1
    <3> HIDE DEF x
    <3>2. y = [kind |-> x.kind, held |-> FALSE, ended |-> x.ended, refs |-> x.refs]
      BY <3>1, FieldChanges
    <3>3. y \in Counted
      BY <3>1, <3>2 DEF Counted
    <3>4. [x EXCEPT !.held = FALSE, !.refs = x.refs - 1] = [y EXCEPT !.refs = x.refs - 1]
      OBVIOUS
    <3> HIDE DEF y
    <3>5. [y EXCEPT !.refs = x.refs - 1]
            = [kind |-> y.kind, held |-> y.held, ended |-> y.ended, refs |-> x.refs - 1]
      BY <3>3, FieldChanges
    <3>6. [y EXCEPT !.refs = x.refs - 1]
            = [kind |-> x.kind, held |-> FALSE, ended |-> x.ended, refs |-> x.refs - 1]
      BY <3>2, <3>5
    <3> QED
      BY <3>4, <3>6 DEF x
  <2>3. \A i \in Ids : cut(i) \in Counted
    BY <2>1 DEF Counted
  <2> HIDE DEF cut
  <2>4. \A i \in Ids : object'[i] = IF object[i].held THEN cut(i) ELSE object[i]
    BY <1>2, <2>2 DEF CleanupReleases
  <2>5. object' = [i \in Ids |-> IF object[i].held THEN cut(i) ELSE object[i]]
    BY <1>2, <2>2 DEF CleanupReleases
  <2>6. object' \in [Ids -> Counted]
    BY <2>1, <2>3, <2>5
  <2> QED
    BY <2>1, <2>4, <2>6 DEF cut, Counted
<1>4. Kept(object, object')
  <2>1. \A i \in Ids : object[i] = Unissued => ~object[i].held
    BY DEF Unissued
  <2> QED
    BY <1>3, <2>1 DEF Kept
<1>5. TablesOK' /\ Holding'
  <2>1. NewTable \in Tables /\ TableOK(NewTable) /\ \A i \in Ids : ~Stored(NewTable.slots, i)
    BY NewTableOK
  <2> QED
    BY <1>1, <1>3, <2>1 DEF TablesOK, Holding
<1>6. Referenced'
  <2> SUFFICES ASSUME NEW i \in Ids
               PROVE  object'[i].refs = Holders(object', on', notifying'.id, i)
    BY DEF Referenced
  <2> DEFINE n == Cardinality(Leasing(on, i))
  <2>1. n \in Nat /\ Cardinality(Leasing(on', i)) = n
    BY <1>1, LeaseCounts DEF IInv, ListOK
  <2>2. object[i].refs = (IF object[i].held THEN 1 ELSE 0)
          + (IF (object[i].kind = "request" /\ ~object[i].ended) \/ notifying.id = i
             THEN 1 ELSE 0) + n
    BY DEF IInv, RegistryOK, Referenced, Holders
  <2> HIDE DEF n
  <2> QED
    BY <1>1, <1>3, <2>1, <2>2 DEF Holders
<1>7. RegistryOK'
  BY <1>1, <1>3, <1>4, <1>5, <1>6, RegistryChanges DEF IInv
<1>8. ListOK' /\ Attached' = Attached
  BY <1>1, ListStays DEF IInv, ListOK
<1>9. HostOK'
  BY <1>1 DEF IInv, HostOK, InStage
<1>10. ClosingOK'
  <2>1. \A i \in Ids : ~object'[i].held /\ ~Unended(i)'
    BY <1>1, <1>3 DEF Unended
  <2> QED
    BY <1>1, <1>8, <2>1 DEF IInv, ClosingOK
<1> QED
  BY <1>7, <1>8, <1>9, <1>10 DEF IInv

-----------------------------------------------------------------------------
(* A new object. *)

(* Nobody has to do with an id that was not issued. *)
LEMMA UnissuedFree ==
  ASSUME RegistryOK, ListOK, NEW i \in Ids, object[i] = Unissued
  PROVE  /\ notifying.id # i /\ ~object[i].held
         /\ Cardinality(Leasing(on, i)) = 0 /\ \A c \in Calls : on[c] # i
<1> DEFINE n == Cardinality(Leasing(on, i))
<1>1. n \in Nat /\ \A c \in Calls : on[c] = i => n # 0
  BY LeaseCounts DEF ListOK
<1>2. object[i].refs = 0 /\ ~object[i].held /\ object[i].kind # "request"
  BY DEF Unissued
<1>3. object[i].refs = (IF object[i].held THEN 1 ELSE 0)
        + (IF (object[i].kind = "request" /\ ~object[i].ended) \/ notifying.id = i
           THEN 1 ELSE 0) + n
  BY DEF RegistryOK, Referenced, Holders
<1> HIDE DEF n
<1>4. notifying.id # i /\ n = 0
  BY <1>1, <1>2, <1>3
<1> QED
  BY <1>1, <1>2, <1>4 DEF n

(* An id that could be stored is held, one that could not is lost. *)
LEMMA CreateKeeps ==
  ASSUME IInv, NEW kind \in Kinds, NEW memory \in BOOLEAN, Create(kind, memory)
  PROVE  IInv'
<1> DEFINE id == nextId
           new == [kind |-> kind, held |-> TRUE, ended |-> FALSE,
                   refs |-> IF kind = "request" THEN 2 ELSE 1]
           r == Inserted(tables[kind], id)
<1>1. /\ UNCHANGED <<on, pending, scan, ready, polled, watching, notifying>>
      /\ UNCHANGED <<waitsFirst, host, phase, notified>>
      /\ Callback /\ phase = "open" /\ id \in Ids /\ nextId' = id + 1
  BY Sizes DEF Create, list, IInv, RegistryOK, ObjectsOK
<1>2. \/ /\ tables' = [tables EXCEPT ![kind] = r]
         /\ object' = [object EXCEPT ![id] = new]
      \/ UNCHANGED <<tables, object>>
  BY DEF Create
<1>3. object[id] = Unissued
  BY <1>1 DEF IInv, RegistryOK, ObjectsOK
<1>4. /\ notifying.id # id /\ ~object[id].held
      /\ Cardinality(Leasing(on, id)) = 0 /\ \A c \in Calls : on[c] # id
  BY <1>1, <1>3, UnissuedFree DEF IInv
<1>5. ListOK' /\ Attached' = Attached
  BY <1>1, ListStays DEF IInv, ListOK
<1>6. HostOK'
  <2>1. notified' \in BOOLEAN
    BY <1>1 DEF IInv, HostOK
  <2> QED
    BY <1>1, <2>1, StepsOn DEF IInv, Callback
<1>7. ClosingOK'
  BY <1>1 DEF ClosingOK
<1>8. CASE UNCHANGED <<tables, object>>
  <2>1. TablesOK' /\ Holding' /\ CommandsLease' /\ WorkerOK'
    BY <1>1, <1>8 DEF IInv, RegistryOK, TablesOK, Holding, CommandsLease, WorkerOK
  <2>2. Referenced'
    BY <1>1, <1>8 DEF IInv, RegistryOK, Referenced, Holders, Leasing
  <2>3. ObjectsOK'
    BY <1>1, <1>8, Sizes DEF IInv, RegistryOK, ObjectsOK
  <2> QED
    BY <1>5, <1>6, <1>7, <2>1, <2>2, <2>3 DEF IInv, RegistryOK
<1>9. CASE /\ tables' = [tables EXCEPT ![kind] = r]
           /\ object' = [object EXCEPT ![id] = new]
  <2>1. object \in [Ids -> Objects] /\ new \in Objects /\ id \in Ids
    BY <1>1 DEF IInv, RegistryOK, ObjectsOK, Objects
  <2> HIDE DEF id
  <2>2. object' \in [Ids -> Objects] /\ \A i \in Ids : object'[i] = IF i = id THEN new ELSE object[i]
    BY <1>9, <2>1
  <2>3. tables[kind] \in Tables /\ TableOK(tables[kind]) /\ ~Stored(tables[kind].slots, id)
    BY <1>1, <1>4 DEF IInv, RegistryOK, TablesOK, Holding
  <2>4. /\ r \in Tables /\ TableOK(r)
        /\ \A j \in Ids : Stored(r.slots, j) <=> Stored(tables[kind].slots, j) \/ j = id
    BY <1>1, <2>3, InsertStores
  <2> HIDE DEF r
  <2>5. tables' \in [Kinds -> Tables]
        /\ \A k \in Kinds : tables'[k] = IF k = kind THEN r ELSE tables[k]
    BY <1>9, <2>4 DEF IInv, RegistryOK, TablesOK
  <2>6. TablesOK'
    BY <2>4, <2>5 DEF IInv, RegistryOK, TablesOK
  <2>7. new.held /\ new.kind = kind /\ ~new.ended
        /\ new.refs = IF kind = "request" THEN 2 ELSE 1
    OBVIOUS
  <2> HIDE DEF new
  <2>8. Holding'
    <3> SUFFICES ASSUME NEW k \in Kinds, NEW i \in Ids
                 PROVE  Stored(tables'[k].slots, i) <=> object'[i].held /\ object'[i].kind = k
      BY DEF Holding
    <3>1. Stored(tables[k].slots, i) <=> object[i].held /\ object[i].kind = k
      BY DEF IInv, RegistryOK, Holding
    <3>2. CASE i = id
      BY <1>4, <2>2, <2>4, <2>5, <2>7, <3>1, <3>2
    <3>3. CASE i # id
      BY <2>2, <2>4, <2>5, <3>1, <3>3
    <3> QED
      BY <3>2, <3>3
  <2>9. Referenced'
    <3> SUFFICES ASSUME NEW i \in Ids
                 PROVE  object'[i].refs = Holders(object', on', notifying'.id, i)
      BY DEF Referenced
    <3>1. CASE i = id
      <4> DEFINE n == Cardinality(Leasing(on, i))
      <4>1. n = 0 /\ Cardinality(Leasing(on', i)) = n
        BY <1>1, <1>4, <3>1
      <4> HIDE DEF n
      <4> QED
        BY <1>1, <1>4, <2>2, <2>7, <3>1, <4>1 DEF Holders
    <3>2. CASE i # id
      BY <1>1, <2>2, <3>2 DEF IInv, RegistryOK, Referenced, Holders
    <3> QED
      BY <3>1, <3>2
  <2>10. ObjectsOK'
    <3>1. nextId' \in 1 .. LastId + 1 /\ id \in 1 .. LastId /\ nextId' = id + 1 /\ nextId = id
      BY <1>1, Sizes DEF id
    <3>2. \A i \in Ids : i >= nextId' => object'[i] = Unissued
      <4> TAKE i \in Ids
      <4>1. i >= nextId' => i >= nextId /\ i # id
        BY <3>1, Sizes
      <4> QED
        BY <2>2, <4>1 DEF IInv, RegistryOK, ObjectsOK
    <3>3. \A i \in Ids : object'[i].held => object'[i].kind # "none"
      BY <2>2, <2>7 DEF IInv, RegistryOK, ObjectsOK, Kinds
    <3> QED
      BY <2>2, <3>1, <3>2, <3>3 DEF ObjectsOK
  <2>11. CommandsLease'
    <3> SUFFICES ASSUME NEW c \in Commands, on[c] # NoId PROVE object'[on[c]].kind = "session"
      BY <1>1 DEF CommandsLease
    <3>1. on[c] \in Ids /\ on[c] # id
      BY <1>4, Names DEF IInv, ListOK
    <3> QED
      BY <2>2, <3>1 DEF IInv, RegistryOK, CommandsLease
  <2>12. WorkerOK'
    BY <1>1, <1>4, <2>2 DEF IInv, RegistryOK, WorkerOK
  <2> QED
    BY <1>5, <1>6, <1>7, <2>6, <2>8, <2>9, <2>10, <2>11, <2>12 DEF IInv, RegistryOK
<1> QED
  BY <1>2, <1>8, <1>9

-----------------------------------------------------------------------------
(* Calls that come to lease an object and that leave it. *)

Raised(o, id) == [o EXCEPT ![id].refs = @ + 1]
LEMMA RefsRaise ==
  ASSUME NEW o \in [Ids -> Counted], NEW id \in Ids
  PROVE  /\ Raised(o, id) \in [Ids -> Counted]
         /\ \A i \in Ids : LET n == Raised(o, id)
                           IN  /\ n[i].kind = o[i].kind /\ (n[i].held <=> o[i].held)
                               /\ n[i].ended <=> o[i].ended
                               /\ n[i].refs = o[i].refs + (IF i = id THEN 1 ELSE 0)
                               /\ i # id => n[i] = o[i]
<1> DEFINE new == [kind |-> o[id].kind, held |-> o[id].held, ended |-> o[id].ended,
                   refs |-> o[id].refs + 1]
<1>1. \A i \in Ids : o[i] \in Counted
  OBVIOUS
<1>2. Raised(o, id) = [o EXCEPT ![id] = new]
  <2>1. [o[id] EXCEPT !.refs = o[id].refs + 1] = new
    BY <1>1, FieldChanges
  <2>2. Raised(o, id) = [o EXCEPT ![id] = [o[id] EXCEPT !.refs = o[id].refs + 1]]
    BY DEF Raised
  <2> QED
    BY <2>1, <2>2
<1>3. new \in Counted
  BY <1>1 DEF Counted
<1> HIDE DEF new
<1>4. Raised(o, id) \in [Ids -> Counted]
      /\ \A i \in Ids : Raised(o, id)[i] = IF i = id THEN new ELSE o[i]
  BY <1>2, <1>3
<1> QED
  BY <1>1, <1>4 DEF Counted, new

LEMMA AttachKeeps ==
  ASSUME IInv, NEW c \in Calls, NEW id \in Ids, on[c] = NoId, object[id].held,
         c \in Commands => object[id].kind = "session",
         Callback, phase = "open", Attach(c, id),
         UNCHANGED <<tables, nextId, polled, notifying, waitsFirst, host, phase>>
  PROVE  IInv'
<1>1. /\ object' = Raised(object, id) /\ on' = [on EXCEPT ![c] = id]
      /\ pending' = <<c>> \o pending /\ watching' = watching \cup ({c} \cap Waits)
      /\ ready' = ready \cup {c} /\ notified' = TRUE /\ scan' = scan
  BY DEF Attach, Raised
<1>2. /\ object' \in [Ids -> Counted]
      /\ \A i \in Ids : /\ object'[i].kind = object[i].kind /\ (object'[i].held <=> object[i].held)
                        /\ object'[i].ended <=> object[i].ended
                        /\ object'[i].refs = object[i].refs + (IF i = id THEN 1 ELSE 0)
                        /\ i # id => object'[i] = object[i]
  BY <1>1, Typed, RefsRaise DEF IInv
<1>3. on \in [Calls -> Ids \cup {NoId}] /\ on' \in [Calls -> Ids \cup {NoId}]
      /\ \A d \in Calls : on'[d] = IF d = c THEN id ELSE on[d]
  BY <1>1 DEF IInv, ListOK
<1>4. Kept(object, object')
  <2>1. \A i \in Ids : object[i] = Unissued => i # id
    BY DEF Unissued
  <2> QED
    BY <1>2, <2>1 DEF Kept
<1>5. TablesOK' /\ Holding'
  BY <1>2 DEF IInv, RegistryOK, TablesOK, Holding
<1>6. Referenced'
  <2> SUFFICES ASSUME NEW i \in Ids
               PROVE  object'[i].refs = Holders(object', on', notifying'.id, i)
    BY DEF Referenced
  <2> DEFINE n == Cardinality(Leasing(on, i))
             m == Cardinality(Leasing(on', i))
  <2>1. n \in Nat /\ m = n + (IF i = id THEN 1 ELSE 0)
    <3>1. n \in Nat
      BY <1>3, LeaseCounts
    <3>2. Takes(on, c, id, on')
      BY <1>1, <1>3 DEF Takes
    <3>3. /\ i = id => m = n + 1
          /\ i # id => m = n
      BY <3>2, LeaseTaken
    <3> QED
      BY <3>1, <3>3
  <2>2. object[i].refs = (IF object[i].held THEN 1 ELSE 0)
          + (IF (object[i].kind = "request" /\ ~object[i].ended) \/ notifying.id = i
             THEN 1 ELSE 0) + n
    BY DEF IInv, RegistryOK, Referenced, Holders
  <2>3. Holders(object', on', notifying'.id, i) = (IF object'[i].held THEN 1 ELSE 0)
          + (IF (object'[i].kind = "request" /\ ~object'[i].ended) \/ notifying.id = i
             THEN 1 ELSE 0) + m
    BY DEF Holders
  <2> HIDE DEF n, m
  <2> QED
    BY <1>2, <2>1, <2>2, <2>3
<1>7. ObjectsOK'
  BY <1>2, <1>3, <1>4, <1>6, ObjectsStay DEF IInv, RegistryOK
<1>8. CommandsLease'
  BY <1>3, <1>4, Names DEF IInv, RegistryOK, CommandsLease, Kept
<1>9. WorkerOK'
  <2>1. \A w \in notifying.left : w \in Calls /\ w # c
    BY Names DEF IInv, RegistryOK, WorkerOK
  <2> QED
    BY <1>3, <1>4, <2>1 DEF IInv, RegistryOK, WorkerOK, Kept
<1>10. ListOK' /\ Attached' = Attached \cup {c}
  <2>1. Attached' = Attached \cup {c} /\ c \notin Attached
    BY <1>3, Names DEF Attached
  <2>2. Listing(<<c>> \o pending, Attached \cup {c})
    BY <2>1, ListingPut DEF IInv, ListOK
  <2>3. watching' = Attached' \cap Waits
    BY <1>1, <2>1 DEF IInv, ListOK
  <2> QED
    BY <1>1, <1>3, <2>1, <2>2, <2>3 DEF IInv, ListOK
<1>11. HostOK'
  BY <1>1, StepsOn DEF IInv, Callback
<1>12. ClosingOK'
  BY DEF ClosingOK
<1> QED
  BY <1>5, <1>6, <1>7, <1>8, <1>9, <1>10, <1>11, <1>12 DEF IInv, RegistryOK

LEMMA DispatchKeeps ==
  ASSUME IInv, NEW id \in Ids,
         \/ \E w \in Waits : DispatchWait(w, id)
         \/ \E c \in Commands : DispatchCommand(c, id)
  PROVE  IInv'
<1>1. ASSUME NEW w \in Waits, DispatchWait(w, id) PROVE IInv'
  <2>1. object[id].held /\ w \in Calls /\ w \notin Commands
    BY <1>1, FoundHeld, Names DEF DispatchWait, IInv
  <2> QED
    BY <1>1, <2>1, AttachKeeps DEF DispatchWait
<1>2. ASSUME NEW c \in Commands, DispatchCommand(c, id) PROVE IInv'
  <2>1. object[id].held /\ object[id].kind = "session" /\ c \in Calls
    BY <1>2, FoundHeld, Names DEF DispatchCommand, IInv
  <2> QED
    BY <1>2, <2>1, AttachKeeps DEF DispatchCommand
<1> QED
  BY <1>1, <1>2

(* The list without a call that leaves, whose cursor has moved on. *)
LEMMA DetachList ==
  ASSUME ListOK, NEW c \in Attached, on' = [on EXCEPT ![c] = NoId],
         pending' = Unlisted(c), scan' = IF scan = c THEN After(c) ELSE scan,
         watching' = watching \ {c}, ready' \subseteq Calls, polled' = NoCall
  PROVE  ListOK' /\ Attached' = Attached \ {c}
<1>1. on' \in [Calls -> Ids \cup {NoId}] /\ \A d \in Calls : on'[d] = IF d = c THEN NoId ELSE on[d]
  BY DEF ListOK, Attached
<1>2. Attached' = Attached \ {c}
  BY <1>1 DEF Attached
<1>3. /\ After(c) \in (Attached \ {c}) \cup {NoCall}
      /\ Listing(Unlisted(c), Attached \ {c})
  BY AfterListed
<1>4. Listing(pending', Attached')
  BY <1>2, <1>3
<1>5. scan' \in Attached' \cup {NoCall}
  BY <1>2, <1>3 DEF ListOK
<1>6. watching' = Attached' \cap Waits
  BY <1>2 DEF ListOK
<1> QED
  BY <1>1, <1>2, <1>4, <1>5, <1>6 DEF ListOK

(* The references without its lease; a command may end its session, which  *)
(* no coordinator holds.                                                   *)
LEMMA DetachRegistry ==
  ASSUME RegistryOK, ListOK, NEW c \in Attached, c \notin notifying.left,
         on' = [on EXCEPT ![c] = NoId], UNCHANGED <<tables, nextId, notifying>>,
         NEW ends \in BOOLEAN, ends => object[on[c]].kind = "session",
         object' \in [Ids -> Counted],
         \A i \in Ids : /\ object'[i].kind = object[i].kind /\ (object'[i].held <=> object[i].held)
                        /\ object'[i].ended <=> (object[i].ended \/ (ends /\ i = on[c]))
                        /\ object'[i].refs = object[i].refs - (IF i = on[c] THEN 1 ELSE 0)
                        /\ i # on[c] => object'[i] = object[i]
  PROVE  RegistryOK' /\ Kept(object, object')
<1>1. /\ c \in Calls /\ on[c] \in Ids /\ on[c] # NoId
      /\ on \in [Calls -> Ids \cup {NoId}] /\ on' \in [Calls -> Ids \cup {NoId}]
      /\ \A d \in Calls : on'[d] = IF d = c THEN NoId ELSE on[d]
  BY Names DEF ListOK, Attached
<1>2. Kept(object, object')
  <2>1. \A i \in Ids : object[i] = Unissued => i # on[c]
    BY <1>1, UnissuedFree
  <2> QED
    BY <2>1 DEF Kept
<1>3. TablesOK' /\ Holding'
  BY DEF RegistryOK, TablesOK, Holding
<1>4. Referenced'
  <2> SUFFICES ASSUME NEW i \in Ids
               PROVE  object'[i].refs = Holders(object', on', notifying'.id, i)
    BY DEF Referenced
  <2> DEFINE n == Cardinality(Leasing(on, i))
             m == Cardinality(Leasing(on', i))
  <2>1. m \in Nat /\ n = m + (IF i = on[c] THEN 1 ELSE 0)
    <3>1. m \in Nat
      BY <1>1, LeaseCounts
    <3>2. Takes(on', c, on[c], on)
      BY <1>1 DEF Takes
    <3>3. /\ i = on[c] => n = m + 1
          /\ i # on[c] => n = m
      BY <3>2, LeaseTaken
    <3> QED
      BY <3>1, <3>3
  <2>2. object[i].refs = (IF object[i].held THEN 1 ELSE 0)
          + (IF (object[i].kind = "request" /\ ~object[i].ended) \/ notifying.id = i
             THEN 1 ELSE 0) + n
    BY DEF RegistryOK, Referenced, Holders
  <2>3. Holders(object', on', notifying'.id, i) = (IF object'[i].held THEN 1 ELSE 0)
          + (IF (object'[i].kind = "request" /\ ~object'[i].ended) \/ notifying.id = i
             THEN 1 ELSE 0) + m
    BY DEF Holders
  <2>4. (object'[i].kind = "request" /\ ~object'[i].ended)
          <=> (object[i].kind = "request" /\ ~object[i].ended)
    OBVIOUS
  <2> HIDE DEF n, m
  <2> QED
    BY <2>1, <2>2, <2>3, <2>4
<1>5. ObjectsOK'
  BY <1>1, <1>2, <1>4, ObjectsStay DEF RegistryOK
<1>6. CommandsLease'
  BY <1>1, <1>2, Names DEF RegistryOK, CommandsLease, Kept
<1>7. WorkerOK'
  <2>1. \A w \in notifying.left : w \in Calls /\ w # c
    BY Names DEF RegistryOK, WorkerOK
  <2> QED
    BY <1>1, <1>2, <2>1 DEF RegistryOK, WorkerOK, Kept
<1> QED
  BY <1>2, <1>3, <1>4, <1>5, <1>6, <1>7 DEF RegistryOK

LEMMA DetachKeeps ==
  ASSUME IInv, NEW c \in Attached, c \notin notifying.left, Detach(c), Step,
         UNCHANGED <<tables, nextId, ready, notifying, waitsFirst, host, phase>>,
         polled' = NoCall
  PROVE  IInv'
<1>1. /\ watching' = watching \ {c} /\ pending' = Unlisted(c)
      /\ scan' = IF scan = c THEN After(c) ELSE scan
      /\ object' = Dropped(object, on[c]) /\ on' = [on EXCEPT ![c] = NoId]
      /\ notified' = TRUE
  BY DEF Detach
<1>2. on[c] \in Ids
  BY DEF IInv, ListOK, Attached
<1>3. /\ object' \in [Ids -> Counted]
      /\ \A i \in Ids : /\ object'[i].kind = object[i].kind /\ (object'[i].held <=> object[i].held)
                        /\ object'[i].ended <=> object[i].ended
                        /\ object'[i].refs = object[i].refs - (IF i = on[c] THEN 1 ELSE 0)
                        /\ i # on[c] => object'[i] = object[i]
  BY <1>1, <1>2, Typed, RefsChange DEF IInv
<1>4. RegistryOK' /\ Kept(object, object')
  <2> DEFINE ends == FALSE
  <2>1. ends \in BOOLEAN /\ ~ends
    OBVIOUS
  <2> HIDE DEF ends
  <2>2. \A i \in Ids : /\ object'[i].kind = object[i].kind /\ (object'[i].held <=> object[i].held)
                       /\ object'[i].ended <=> (object[i].ended \/ (ends /\ i = on[c]))
                       /\ object'[i].refs = object[i].refs - (IF i = on[c] THEN 1 ELSE 0)
                       /\ i # on[c] => object'[i] = object[i]
    BY <1>3, <2>1
  <2> QED
    BY <1>1, <1>3, <2>1, <2>2, DetachRegistry DEF IInv
<1>5. ListOK' /\ Attached' = Attached \ {c}
  <2>1. ready' \subseteq Calls
    BY DEF IInv, ListOK
  <2> QED
    BY <1>1, <2>1, DetachList DEF IInv
<1>6. HostOK' /\ turn'.plan = turn.plan
  BY <1>1, StepsOn DEF IInv
<1>7. ClosingOK'
  BY <1>4, <1>5, <1>6, ClosingStays DEF IInv
<1> QED
  BY <1>4, <1>5, <1>6, <1>7 DEF IInv

LEMMA CancelWaitKeeps ==
  ASSUME IInv, NEW w \in Waits, CancelWait(w)
  PROVE  IInv'
<1>1. w \in Attached /\ w \notin notifying.left
  BY Names DEF CancelWait, Attached, Unlocked, IInv, RegistryOK, WorkerOK
<1>2. polled' = NoCall /\ Step
  BY DEF CancelWait, Callback, InStage, IInv, HostOK
<1> QED
  BY <1>1, <1>2, DetachKeeps DEF CancelWait

LEMMA CancelCommandKeeps ==
  ASSUME IInv, NEW c \in Commands, CancelCommand(c)
  PROVE  IInv'
<1>1. /\ c \in Attached /\ c \notin notifying.left /\ c \notin watching /\ on[c] \in Ids
      /\ object[on[c]].kind = "session"
  BY Names DEF CancelCommand, Attached, IInv, RegistryOK, WorkerOK, ListOK, CommandsLease
<1>2. /\ watching' = watching \ {c} /\ pending' = Unlisted(c)
      /\ scan' = IF scan = c THEN After(c) ELSE scan
      /\ on' = [on EXCEPT ![c] = NoId] /\ notified' = TRUE /\ polled' = NoCall
      /\ UNCHANGED <<tables, nextId, ready, notifying, waitsFirst, host, phase>> /\ Step
  BY <1>1 DEF CancelCommand, Callback, InStage, IInv, HostOK
<1> DEFINE d == Dropped(object, on[c])
<1>3. object' = Ended(d, on[c])
  BY DEF CancelCommand, Ended
<1>4. /\ d \in [Ids -> Counted]
      /\ \A i \in Ids : /\ d[i].kind = object[i].kind /\ (d[i].held <=> object[i].held)
                        /\ d[i].ended <=> object[i].ended
                        /\ d[i].refs = object[i].refs - (IF i = on[c] THEN 1 ELSE 0)
                        /\ i # on[c] => d[i] = object[i]
  BY <1>1, Typed, RefsChange DEF IInv
<1> HIDE DEF d
<1>5. /\ object' \in [Ids -> Counted]
      /\ \A i \in Ids : /\ object'[i].kind = d[i].kind /\ (object'[i].held <=> d[i].held)
                        /\ object'[i].ended <=> (d[i].ended \/ i = on[c])
                        /\ object'[i].refs = d[i].refs
                        /\ i # on[c] => object'[i] = d[i]
  BY <1>1, <1>3, <1>4, EndedChange
<1>6. RegistryOK' /\ Kept(object, object')
  <2> DEFINE ends == TRUE
  <2>1. ends \in BOOLEAN /\ ends
    OBVIOUS
  <2> HIDE DEF ends
  <2>2. \A i \in Ids : /\ object'[i].kind = object[i].kind /\ (object'[i].held <=> object[i].held)
                       /\ object'[i].ended <=> (object[i].ended \/ (ends /\ i = on[c]))
                       /\ object'[i].refs = object[i].refs - (IF i = on[c] THEN 1 ELSE 0)
                       /\ i # on[c] => object'[i] = object[i]
    BY <1>4, <1>5, <2>1
  <2> QED
    BY <1>1, <1>2, <1>5, <2>1, <2>2, DetachRegistry DEF IInv
<1>7. ListOK' /\ Attached' = Attached \ {c}
  <2>1. ready' \subseteq Calls
    BY <1>2 DEF IInv, ListOK
  <2> QED
    BY <1>1, <1>2, <2>1, DetachList DEF IInv
<1>8. HostOK' /\ turn'.plan = turn.plan
  BY <1>2, StepsOn DEF IInv
<1>9. ClosingOK'
  BY <1>2, <1>6, <1>7, <1>8, ClosingStays DEF IInv
<1> QED
  BY <1>6, <1>7, <1>8, <1>9 DEF IInv

(* A poll that leaves its call attached. *)
LEMMA PollStays ==
  ASSUME IInv, UNCHANGED <<object, on, pending, scan, watching>>, ready' \subseteq Calls,
         UNCHANGED <<tables, nextId, notifying, waitsFirst, host, phase>>,
         notified' \in BOOLEAN, polled' = NoCall, Step
  PROVE  IInv'
<1>1. RegistryOK'
  BY RegistryStays DEF IInv, registry
<1>2. ListOK' /\ Attached' = Attached
  BY ListStays DEF IInv, ListOK
<1>3. HostOK' /\ turn'.plan = turn.plan
  BY StepsOn DEF IInv
<1>4. ClosingOK'
  BY <1>2, <1>3 DEF IInv, ClosingOK, Unended
<1> QED
  BY <1>1, <1>2, <1>3, <1>4 DEF IInv

LEMMA PollWaitKeeps ==
  ASSUME IInv, NEW w \in Waits, PollWait(w)
  PROVE  IInv'
<1>1. /\ w \in Attached /\ w \notin notifying.left /\ polled' = NoCall /\ Step
      /\ UNCHANGED <<tables, nextId, ready, notifying, waitsFirst, host, phase>>
  BY Names DEF PollWait, Attached, Unlocked, IInv, RegistryOK, WorkerOK, ListOK
<1>2. CASE Detach(w)
  BY <1>1, <1>2, DetachKeeps
<1>3. CASE UNCHANGED <<object, on, pending, scan, watching, notified>>
  <2>1. ready' \subseteq Calls /\ notified' \in BOOLEAN
    BY <1>1, <1>3 DEF IInv, ListOK, HostOK
  <2> QED
    BY <1>1, <1>3, <2>1, PollStays
<1> QED
  BY <1>2, <1>3 DEF PollWait

LEMMA PollCommandKeeps ==
  ASSUME IInv, NEW c \in Commands, NEW stops \in BOOLEAN, PollCommand(c, stops)
  PROVE  IInv'
<1>1. /\ c \in Attached /\ c \notin notifying.left /\ polled' = NoCall /\ Step
      /\ UNCHANGED <<tables, nextId, notifying, waitsFirst, host, phase>>
  BY Names DEF PollCommand, Attached, IInv, RegistryOK, WorkerOK, ListOK
<1>2. CASE Detach(c) /\ ready' = ready
  BY <1>1, <1>2, DetachKeeps
<1>3. CASE /\ ready' = ready \cup {c} /\ notified' = TRUE
           /\ UNCHANGED <<object, on, pending, scan, watching>>
  <2>1. ready' \subseteq Calls /\ notified' \in BOOLEAN
    BY <1>3, Names DEF IInv, ListOK
  <2> QED
    BY <1>1, <1>3, <2>1, PollStays
<1> QED
  BY <1>2, <1>3 DEF PollCommand

-----------------------------------------------------------------------------
(* Every step of the module keeps the invariant. *)
LEMMA Keeps == IInv /\ [Next]_vars => IInv'
<1> SUFFICES ASSUME IInv, [Next]_vars PROVE IInv'
  OBVIOUS
<1>1. ASSUME HostStep PROVE IInv'
  <2>1. ASSUME NEW b \in Budgets, StartTurn(b) PROVE IInv'
    BY <2>1, StartTurnKeeps
  <2>2. ASSUME CallsOver \/ WaitsOver \/ EndTurn \/ Wake PROVE IInv'
    BY <2>2, CallsOverKeeps, WaitsOverKeeps, EndTurnKeeps, WakeKeeps
  <2>3. ASSUME AnswerAtOnce \/ PollNext \/ Destroy \/ Freed PROVE IInv'
    BY <2>3, AnswerAtOnceKeeps, PollNextKeeps, DestroyKeeps, FreedKeeps
  <2>4. ASSUME NEW k \in Kinds, NEW memory \in BOOLEAN, Create(k, memory) PROVE IInv'
    BY <2>4, CreateKeeps
  <2>5. ASSUME NEW i \in Ids,
               \/ \E w \in Waits : DispatchWait(w, i)
               \/ \E c \in Commands : DispatchCommand(c, i)
        PROVE  IInv'
    BY <2>5, DispatchKeeps
  <2>6. ASSUME NEW w \in Waits, CancelWait(w) \/ PollWait(w) PROVE IInv'
    BY <2>6, CancelWaitKeeps, PollWaitKeeps
  <2>7. ASSUME NEW c \in Commands, CancelCommand(c) \/ \E s \in BOOLEAN : PollCommand(c, s)
        PROVE  IInv'
    BY <2>7, CancelCommandKeeps, PollCommandKeeps
  <2>8. ASSUME NEW i \in Ids, NEW q \in BOOLEAN, CancelRequest(i, q) \/ ReleaseRequest(i, q)
        PROVE  IInv'
    BY <2>8, CancelRequestKeeps, ReleaseRequestKeeps
  <2>9. ASSUME NEW i \in Ids, ReleaseSession(i) PROVE IInv'
    BY <2>9, ReleaseSessionKeeps
  <2> QED
    BY <1>1, <2>1, <2>2, <2>3, <2>4, <2>5, <2>6, <2>7, <2>8, <2>9 DEF HostStep
<1>2. ASSUME ClientEnters \/ Destroy PROVE IInv'
  BY <1>2, WakeKeeps, DestroyKeeps
<1>3. ASSUME NEW i \in Ids, WorkerEnds(i) PROVE IInv'
  BY <1>3, WorkerEndsKeeps
<1>4. ASSUME WorkerStep PROVE IInv'
  BY <1>4, WorkerNotifiesKeeps, WorkerLeavesKeeps DEF WorkerStep
<1>5. ASSUME CleanupStep PROVE IInv'
  BY <1>5, CleanupCancelsKeeps, CleanupReleasesKeeps DEF CleanupStep
<1>6. ASSUME UNCHANGED vars PROVE IInv'
  <2>1. /\ UNCHANGED <<registry, on, notifying, pending, scan, ready, polled, watching>>
        /\ UNCHANGED <<turn, waitsFirst, host, phase, notified, object>>
    BY <1>6 DEF vars, registry, list, hosting
  <2>2. RegistryOK'
    BY <2>1, RegistryStays DEF IInv
  <2>3. ListOK' /\ Attached' = Attached
    BY <2>1, ListStays DEF IInv, ListOK
  <2>4. HostOK'
    BY <2>1 DEF IInv, HostOK, InStage
  <2>5. ClosingOK'
    BY <2>1, <2>3 DEF IInv, ClosingOK, Unended
  <2> QED
    BY <2>2, <2>3, <2>4, <2>5 DEF IInv
<1> QED
  BY <1>1, <1>2, <1>3, <1>4, <1>5, <1>6 DEF Next

(* The module's tables, references, list, turns and phases fit together in *)
(* every state (vx_api.c, vx_api_handles.c).                               *)
THEOREM ApiInvariant == Spec => []IInv
  BY Starts, Keeps, PTL DEF Spec

(* Every variable keeps its type: no stage spends more than its share of   *)
(* the budget, and no reference count drops below zero.                    *)
THEOREM ApiTypeCorrect == Spec => []TypeOK
<1>1. IInv => TypeOK
  <2> SUFFICES ASSUME IInv PROVE TypeOK
    OBVIOUS
  <2>1. \A k \in Kinds : /\ tables[k].slots \in Seq({Empty, Tombstone} \cup Ids)
                         /\ tables[k].live \in Nat /\ tables[k].occupied \in Nat
    <3> TAKE k \in Kinds
    <3>1. tables[k] \in Tables
      BY DEF IInv, RegistryOK, TablesOK
    <3>2. tables[k].slots \in Seq(Content) /\ tables[k].live \in Nat /\ tables[k].occupied \in Nat
      BY <3>1, SlotsTyped DEF Tables
    <3>3. Content = {Empty, Tombstone} \cup Ids
      BY DEF Content
    <3> QED
      BY <3>2, <3>3
  <2>2. object \in [Ids -> [kind : Kinds \cup {"none"}, held : BOOLEAN,
                            ended : BOOLEAN, refs : Nat]]
    BY DEF IInv, RegistryOK, ObjectsOK, Objects
  <2>3. pending \in Seq(Calls) /\ scan \in Calls \cup {NoCall} /\ polled \in Calls \cup {NoCall}
        /\ watching \subseteq Waits
    <3>1. Attached \subseteq Calls
      BY DEF Attached
    <3>2. pending \in Seq(Attached)
      BY DEF IInv, ListOK, Listing
    <3> QED
      BY <3>1, <3>2 DEF IInv, ListOK
  <2> QED
    BY <2>1, <2>2, <2>3 DEF TypeOK, IInv, RegistryOK, ObjectsOK, WorkerOK, ListOK, HostOK
<1> QED
  BY <1>1, ApiInvariant, PTL

(* A table answers exactly for the ids that were issued, stored for its    *)
(* kind and not released since, and every probe of it ends, whatever the   *)
(* hash and however the ids collide (vx_api_handles.c).                    *)
THEOREM ApiLookupExact == Spec => []LookupExact
<1>1. IInv => LookupExact
  <2> SUFFICES ASSUME IInv, NEW k \in Kinds
               PROVE  /\ \A i \in Ids : (Found(tables[k], i) # {})
                                          <=> (object[i].held /\ object[i].kind = k)
                      /\ tables[k].slots # <<>> =>
                           \E p \in DOMAIN tables[k].slots : tables[k].slots[p] = Empty
                      /\ tables[k].live = Cardinality({i \in Ids : Found(tables[k], i) # {}})
    BY DEF LookupExact
  <2>1. \A i \in Ids : (Found(tables[k], i) # {}) <=> (object[i].held /\ object[i].kind = k)
    BY FoundHeld DEF IInv
  <2>2. TableOK(tables[k])
    BY DEF IInv, RegistryOK, TablesOK
  <2>3. /\ tables[k].slots # <<>> =>
             \E p \in DOMAIN tables[k].slots : tables[k].slots[p] = Empty
        /\ tables[k].live = Cardinality({i \in Ids : Found(tables[k], i) # {}})
    BY <2>2, TableAnswers
  <2> QED
    BY <2>1, <2>3
<1> QED
  BY <1>1, ApiInvariant, PTL

(* An object has exactly one reference for its handle, one for the         *)
(* coordinator or the worker that notifies, and one for each retained      *)
(* call; only attached calls are listed, scanned, polled, watched and      *)
(* notified; and a freed module leaves no reference behind.                *)
THEOREM ApiLeasesProtect == Spec => []LeasesProtect
<1>1. IInv => LeasesProtect
  <2> SUFFICES ASSUME IInv PROVE LeasesProtect
    OBVIOUS
  <2>1. \A i \in Ids :
          object[i].refs = (IF object[i].held THEN 1 ELSE 0)
                           + (IF Unended(i) \/ notifying.id = i THEN 1 ELSE 0)
                           + Cardinality({c \in Calls : on[c] = i})
    BY DEF IInv, RegistryOK, Referenced, Holders, Leasing, Unended
  <2>2. ToSet(pending) = Attached /\ Len(pending) = Cardinality(Attached)
    BY ListingIs DEF IInv, ListOK
  <2>3. notifying.left \subseteq Attached
    BY Names DEF IInv, RegistryOK, WorkerOK, Attached
  <2>4. ASSUME phase = "freed", NEW i \in Ids PROVE object[i].refs = 0
    <3>1. ~object[i].held /\ ~Unended(i) /\ notifying.id # i /\ Attached = {}
      BY <2>4, Names DEF IInv, ClosingOK, NoWorker
    <3>2. {c \in Calls : on[c] = i} = {}
      BY <3>1, Names DEF Attached
    <3>3. Cardinality({c \in Calls : on[c] = i}) = 0
      BY <3>2, FS_EmptySet
    <3> QED
      BY <2>1, <3>1, <3>3
  <2> QED
    BY <2>1, <2>2, <2>3, <2>4 DEF LeasesProtect, IInv, ListOK
<1> QED
  BY <1>1, ApiInvariant, PTL
=============================================================================
