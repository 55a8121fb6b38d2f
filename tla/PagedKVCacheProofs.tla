------------------------- MODULE PagedKVCacheProofs -------------------------
(***************************************************************************)
(* What every call of PagedKVCache preserves, for every pool, page size    *)
(* and number of slots: a cache that is Sound before a call whose guard    *)
(* holds is Sound after it.  BatchSchedulerProofs draws the theorems about *)
(* the cache under any sequence of calls, and the scheduler's use of it,   *)
(* from these lemmas.                                                      *)
(***************************************************************************)
EXTENDS PagedKVCache, TLAPS, FiniteSetTheorems, WellFoundedInduction

-----------------------------------------------------------------------------
(* Every family of parts of S has a minimal member, as of a finite set. *)
Grounded(S) ==
  \A C \in SUBSET (SUBSET S) : C # {} => \E X \in C : \A Y \in C : Y \subseteq X => Y = X

(* An interval is finite. *)
LEMMA IntervalGrounded == \A m, n \in Int : Grounded(m .. n)
<1> TAKE m, n \in Int
<1>1. IsFiniteSet(m .. n)
  BY FS_Interval
<1>2. FiniteSubsetsOf(m .. n) = SUBSET (m .. n)
  BY <1>1, FS_FiniteSubsetsOfFinite
<1>3. SUFFICES ASSUME NEW C \in SUBSET (SUBSET (m .. n)), C # {}
               PROVE  \E X \in C : \A Y \in C : Y \subseteq X => Y = X
  BY DEF Grounded
<1> DEFINE S == m .. n
<1> HIDE DEF S
<1>4. IsWellFoundedOn(StrictSubsetOrdering(S), FiniteSubsetsOf(S))
  BY FS_StrictSubsetOrderingWellFounded
<1>5. \E X \in C : \A Y \in C : ~ (<<Y, X>> \in StrictSubsetOrdering(S))
  BY <1>2, <1>3, <1>4, WFMin DEF S
<1> USE DEF S
<1> QED
  BY <1>3, <1>5 DEF StrictSubsetOrdering

-----------------------------------------------------------------------------
(* The inductive invariant, as a predicate of one cache.                   *)

(* Where a logical page begins, in tokens. *)
Start(l) == l * PageTokens

SlotsOn(c, p) == {s \in Slots : p \in PagesOf(c.page_table[s])}
PrefixesOn(c, p) == {k \in LiveKeys(c) : p \in PagesOf(c.prefix[k].pages)}
SourcesOn(c, p) == {s \in Slots : p \in PagesOf(c.reservation[s].prior)}
Held(c, p) ==
  Cardinality(SlotsOn(c, p)) + Cardinality(PrefixesOn(c, p)) + Cardinality(SourcesOn(c, p))

(* References count holders, and what nobody holds is free. *)
Counted(c) ==
  /\ \A p \in Pages : c.ref_count[p] = Held(c, p)
  /\ c.free = {p \in Pages : c.ref_count[p] = 0}

(* No page appears twice in one map. *)
Distinct(m) == \A i, j \in Logical : m[i] = m[j] /\ m[i] # Unmapped => i = j

(* A map with a page of its own for each of the first n tokens, and one    *)
(* that has no page but those.                                             *)
Backs(m, n) ==
  /\ n <= SlotTokenCapacity
  /\ Distinct(m)
  /\ \A l \in Logical : Start(l) < n => m[l] # Unmapped
Covers(m, n) ==
  /\ n <= SlotTokenCapacity
  /\ Distinct(m)
  /\ \A l \in Logical : m[l] # Unmapped <=> Start(l) < n

Extent(c, s) == c.kv_length[s] + c.reservation[s].tokens
SlotsBacked(c) == \A s \in Slots : Backs(c.page_table[s], Extent(c, s))

(* The page an append may write is held once. *)
AppendsPrivate(c) ==
  \A s \in Slots, l \in Logical :
    c.page_table[s][l] # Unmapped /\ Start(l) + PageTokens > c.kv_length[s]
      => c.ref_count[c.page_table[s][l]] = 1

Grafted(c, k) == {s \in Slots : c.slot_prefix[s] = k}
GraftsCounted(c) ==
  /\ \A k \in Keys : c.prefix[k].slot_references = Cardinality(Grafted(c, k))
  /\ \A s \in Slots : c.slot_prefix[s] # NoKey =>
       c.slot_prefix[s] \in LiveKeys(c) /\ c.kv_length[s] > 0

PrefixesWhole(c) ==
  \A k \in LiveKeys(c) :
    /\ c.prefix[k].tokens > 0 /\ c.prefix[k].tokens % PageTokens = 0
    /\ Covers(c.prefix[k].pages, c.prefix[k].tokens)

(* A page is fresh because it begins past the committed tokens, or because *)
(* it replaces a whole page of them that is still held as its source.  A   *)
(* slot without tokens maps only what its open reservation took for new    *)
(* ones: nothing stays mapped ahead of an empty slot.                      *)
FreshExplained(c, s, r) ==
  /\ c.kv_length[s] = 0 => \A l \in Logical : c.page_table[s][l] # Unmapped =>
       l \in r.fresh /\ Start(l) < Extent(c, s)
  /\ \A l \in r.fresh :
       /\ c.page_table[s][l] # Unmapped
       /\ r.prior[l] = Unmapped => c.kv_length[s] <= Start(l)
SourcesKept(c, s, r) ==
  /\ Distinct(r.prior)
  /\ \A l \in Logical : r.prior[l] # Unmapped =>
       /\ l \in r.fresh /\ Start(l) + PageTokens <= c.kv_length[s]
       /\ r.prior[l] \notin PagesOf(c.page_table[s])
ReservationsExplained(c) ==
  \A s \in Slots :
    /\ ~Open(c, s) => c.reservation[s] = NoReservation
    /\ FreshExplained(c, s, c.reservation[s])
    /\ SourcesKept(c, s, c.reservation[s])

ReservedCounted(c) == c.reserved_pages = ReservedBy(c, Slots)

(* The live prefixes are in one order of last use. *)
Orders(older, L) ==
  /\ older \subseteq L \X L
  /\ \A j, k \in L : j # k <=> (<<j, k>> \in older \/ <<k, j>> \in older)
  /\ \A i, j, k \in L : <<i, j>> \in older /\ <<j, k>> \in older => <<i, k>> \in older
RecencyOrders(c) == Orders(c.older, LiveKeys(c))

Sound(c) ==
  /\ c \in CacheType
  /\ Counted(c)
  /\ SlotsBacked(c)
  /\ AppendsPrivate(c)
  /\ GraftsCounted(c)
  /\ PrefixesWhole(c)
  /\ ReservationsExplained(c)
  /\ ReservedCounted(c)
  /\ RecencyOrders(c)

-----------------------------------------------------------------------------
(* Numbers: pages begin a page apart, and a token is in the last page that *)
(* begins no later than it.                                                *)

(* The constants are numbers of the sizes vx_paged_kv_create requires, and *)
(* the index sets are finite.                                              *)
LEMMA Sizes ==
  /\ NumSlots \in Nat /\ NumSlots > 0 /\ MaxPages \in Nat /\ MaxPages > 0
  /\ PageTokens \in Nat /\ PageTokens > 0
  /\ SlotTokenCapacity \in Nat /\ SlotTokenCapacity > 0
  /\ MaxGeneration \in Nat /\ IsFiniteSet(Keys) /\ NoKey \notin Keys
  /\ PagesPerSlot \in Nat /\ Unmapped \notin Pages
  /\ IsFiniteSet(Slots) /\ IsFiniteSet(Pages) /\ IsFiniteSet(Logical)
  /\ \A l \in Logical : l \in Nat
<1>1. /\ NumSlots \in Nat /\ NumSlots > 0 /\ MaxPages \in Nat /\ MaxPages > 0
      /\ PageTokens \in Nat /\ PageTokens > 0
      /\ SlotTokenCapacity \in Nat /\ SlotTokenCapacity > 0
      /\ MaxGeneration \in Nat /\ IsFiniteSet(Keys) /\ NoKey \notin Keys
  BY CacheConstants
<1>2. \A a, b \in Nat : b > 0 => a \div b \in Nat
  BY Z3
<1>3. PagesPerSlot \in Nat
  BY <1>1, <1>2 DEF PagesPerSlot
<1>4. /\ IsFiniteSet(Slots) /\ IsFiniteSet(Pages) /\ IsFiniteSet(Logical)
  BY <1>1, <1>3, FS_Interval DEF Slots, Pages, Logical
<1> QED
  BY <1>1, <1>3, <1>4 DEF Pages, Unmapped, Logical

(* Dividing a token by the page size gives the last page that begins no    *)
(* later.                                                                  *)
LEMMA PageOfToken ==
  ASSUME NEW x \in Nat
  PROVE  /\ x \div PageTokens \in Nat
         /\ \A l \in Nat : l < x \div PageTokens <=> Start(l) + PageTokens <= x
         /\ \A l \in Nat : l <= x \div PageTokens <=> Start(l) <= x
<1>1. \A b \in Nat : b > 0 =>
        /\ x \div b \in Nat
        /\ (x \div b) * b <= x /\ x < (x \div b) * b + b
  BY Z3
<1>2. \A b, l, q \in Nat : b > 0 /\ q * b <= x /\ x < q * b + b =>
        /\ l < q <=> l * b + b <= x
        /\ l <= q <=> l * b <= x
  BY Z3
<1> QED
  BY <1>1, <1>2, Sizes DEF Start

(* Pages begin a page apart, and a logical page exists exactly when it     *)
(* begins below the slot's capacity.                                       *)
LEMMA Starts ==
  /\ \A l \in Nat : Start(l) \in Nat
  /\ \A i, j \in Nat : i < j => Start(i) + PageTokens <= Start(j)
  /\ \A l \in Nat : l \in Logical <=> Start(l) < SlotTokenCapacity
<1>1. \A a, b \in Nat : a * b \in Nat
  BY Z3
<1>2. \A i, j, b \in Nat : i < j => i * b + b <= j * b
  BY Z3
<1>3. /\ SlotTokenCapacity - 1 \in Nat
      /\ \A l \in Nat : l <= (SlotTokenCapacity - 1) \div PageTokens <=> Start(l) <= SlotTokenCapacity - 1
  BY Sizes, PageOfToken
<1>4. (SlotTokenCapacity - 1) \div PageTokens \in Nat
  BY Sizes, PageOfToken
<1>5. \A l \in Nat : l \in Logical <=> l <= (SlotTokenCapacity - 1) \div PageTokens
  BY <1>4 DEF Logical, PagesPerSlot
<1>6. \A l \in Nat : Start(l) \in Nat
  BY <1>1, Sizes DEF Start
<1> QED
  BY <1>2, <1>3, <1>5, <1>6, Sizes DEF Start

-----------------------------------------------------------------------------
(* Maps, holders and their numbers.                                        *)

(* Put is an update of one value. *)
LEMMA PutExcept ==
  ASSUME NEW f, NEW x, NEW v
  PROVE  Put(f, x, v) = [f EXCEPT ![x] = v]
BY DEF Put

(* A page is in a map when some logical page names it. *)
LEMMA InMap ==
  ASSUME NEW p \in Pages, NEW m
  PROVE  p \in PagesOf(m) <=> \E l \in Logical : m[l] = p
BY Sizes DEF PagesOf

(* The type of every field of a cache. *)
LEMMA Typed ==
  ASSUME NEW c \in CacheType
  PROVE  /\ \A s \in Slots : /\ c.page_table[s] \in PageMap
                             /\ c.kv_length[s] \in Nat
                             /\ c.slot_generation[s] \in 0 .. MaxGeneration
                             /\ c.slot_prefix[s] \in Keys \cup {NoKey}
                             /\ c.reservation[s] \in Reservation
                             /\ c.reservation[s].tokens \in Nat
                             /\ c.reservation[s].fresh \in SUBSET Logical
                             /\ c.reservation[s].prior \in PageMap
                             /\ Extent(c, s) \in Nat
         /\ \A k \in Keys : /\ c.prefix[k] \in Prefix
                            /\ c.prefix[k].pages \in PageMap
                            /\ c.prefix[k].tokens \in Nat
                            /\ c.prefix[k].slot_references \in Int
                            /\ c.prefix[k].live \in BOOLEAN
         /\ \A p \in Pages : c.ref_count[p] \in Nat
         /\ c.free \in SUBSET Pages /\ c.reserved_pages \in Int
BY DEF CacheType, Reservation, Prefix, Extent

(* A part of a finite set is finite and no larger. *)
LEMMA Subsets ==
  ASSUME NEW S, NEW T \in SUBSET S, IsFiniteSet(S)
  PROVE  /\ IsFiniteSet(T) /\ Cardinality(T) \in Nat
         /\ Cardinality(T) <= Cardinality(S)
         /\ Cardinality(T) = 0 <=> T = {}
BY FS_Subset, FS_CardinalityType, FS_EmptySet

(* The holders of a page can be counted. *)
LEMMA HoldersFinite ==
  ASSUME NEW c, NEW p
  PROVE  /\ IsFiniteSet(SlotsOn(c, p)) /\ Cardinality(SlotsOn(c, p)) \in Nat
         /\ IsFiniteSet(PrefixesOn(c, p)) /\ Cardinality(PrefixesOn(c, p)) \in Nat
         /\ IsFiniteSet(SourcesOn(c, p)) /\ Cardinality(SourcesOn(c, p)) \in Nat
         /\ Held(c, p) \in Nat
<1>1. /\ SlotsOn(c, p) \in SUBSET Slots
      /\ PrefixesOn(c, p) \in SUBSET Keys
      /\ SourcesOn(c, p) \in SUBSET Slots
  BY DEF SlotsOn, PrefixesOn, SourcesOn, LiveKeys
<1>2. /\ IsFiniteSet(SlotsOn(c, p)) /\ Cardinality(SlotsOn(c, p)) \in Nat
      /\ IsFiniteSet(PrefixesOn(c, p)) /\ Cardinality(PrefixesOn(c, p)) \in Nat
      /\ IsFiniteSet(SourcesOn(c, p)) /\ Cardinality(SourcesOn(c, p)) \in Nat
  BY <1>1, Sizes, Subsets
<1> QED
  BY <1>2 DEF Held

(* A page nobody references is in no map, and one reference is one holder. *)
LEMMA Unheld ==
  ASSUME NEW c \in CacheType, Counted(c), NEW p \in Pages
  PROVE  /\ c.ref_count[p] = 0 <=>
              SlotsOn(c, p) = {} /\ PrefixesOn(c, p) = {} /\ SourcesOn(c, p) = {}
         /\ p \in c.free <=> c.ref_count[p] = 0
<1>1. c.ref_count[p] = Cardinality(SlotsOn(c, p)) + Cardinality(PrefixesOn(c, p))
                        + Cardinality(SourcesOn(c, p))
  BY DEF Counted, Held
<1>2. /\ Cardinality(SlotsOn(c, p)) = 0 <=> SlotsOn(c, p) = {}
      /\ Cardinality(PrefixesOn(c, p)) = 0 <=> PrefixesOn(c, p) = {}
      /\ Cardinality(SourcesOn(c, p)) = 0 <=> SourcesOn(c, p) = {}
  BY HoldersFinite, FS_EmptySet
<1>3. c.ref_count[p] = 0 <=> /\ Cardinality(SlotsOn(c, p)) = 0
                             /\ Cardinality(PrefixesOn(c, p)) = 0
                             /\ Cardinality(SourcesOn(c, p)) = 0
  BY <1>1, HoldersFinite
<1>4. p \in c.free <=> c.ref_count[p] = 0
  BY DEF Counted
<1> QED
  BY <1>2, <1>3, <1>4

(* A page with one reference that a slot maps has no other holder. *)
LEMMA SoleHolder ==
  ASSUME NEW c \in CacheType, Counted(c), NEW p \in Pages, c.ref_count[p] = 1,
         NEW s \in SlotsOn(c, p)
  PROVE  SlotsOn(c, p) = {s} /\ PrefixesOn(c, p) = {} /\ SourcesOn(c, p) = {}
<1>1. 1 = Cardinality(SlotsOn(c, p)) + Cardinality(PrefixesOn(c, p))
            + Cardinality(SourcesOn(c, p))
  BY DEF Counted, Held
<1>2. /\ Cardinality(SlotsOn(c, p)) = 0 <=> SlotsOn(c, p) = {}
      /\ Cardinality(PrefixesOn(c, p)) = 0 <=> PrefixesOn(c, p) = {}
      /\ Cardinality(SourcesOn(c, p)) = 0 <=> SourcesOn(c, p) = {}
  BY HoldersFinite, FS_EmptySet
<1>3. Cardinality(SlotsOn(c, p)) # 0
  BY <1>2
<1>4. /\ Cardinality(SlotsOn(c, p)) = 1 /\ Cardinality(PrefixesOn(c, p)) = 0
      /\ Cardinality(SourcesOn(c, p)) = 0
  BY <1>1, <1>3, HoldersFinite
<1>5. PICK t : SlotsOn(c, p) = {t}
  BY <1>4, HoldersFinite, FS_Singleton
<1> QED
  BY <1>2, <1>4, <1>5

(* Fewer and more holders. *)
LEMMA Minus ==
  ASSUME NEW S, NEW T \in SUBSET S, IsFiniteSet(S)
  PROVE  /\ Cardinality(S \ T) = Cardinality(S) - Cardinality(T)
         /\ Cardinality(S \ T) \in Nat /\ Cardinality(T) <= Cardinality(S)
<1>1. S \cap T = T
  OBVIOUS
<1> QED
  BY <1>1, FS_Difference, FS_CardinalityType, Subsets

(* Disjoint sets add up. *)
LEMMA Plus ==
  ASSUME NEW S, NEW T, IsFiniteSet(S), IsFiniteSet(T), S \cap T = {}
  PROVE  Cardinality(S \cup T) = Cardinality(S) + Cardinality(T)
<1>1. Cardinality(S \cup T) = Cardinality(S) + Cardinality(T) - Cardinality({})
  BY FS_Union
<1> QED
  BY <1>1, FS_EmptySet, FS_CardinalityType

-----------------------------------------------------------------------------
(* Allocation hands out free pages, each to one logical page.              *)

(* Ranks tell the members of a set of numbers apart. *)
LEMMA RankOrders ==
  ASSUME NEW S \in SUBSET Int, IsFiniteSet(S), NEW x \in S, NEW y \in S, x < y
  PROVE  Rank(x, S) # Rank(y, S)
<1> DEFINE X == {z \in S : z < x}
           Y == {z \in S : z < y}
<1>1. IsFiniteSet(Y) /\ X \in SUBSET Y
  <2>1. Y \in SUBSET S
    OBVIOUS
  <2>2. IsFiniteSet(Y)
    BY <2>1, Subsets
  <2>3. \A z \in S : z < x => z < y
    OBVIOUS
  <2> QED
    BY <2>2, <2>3
<1>2. x \in Y /\ x \notin X
  OBVIOUS
<1>3. Cardinality(X) # Cardinality(Y)
  BY <1>1, <1>2, FS_Subset
<1> QED
  BY <1>3 DEF Rank

(* An allocation takes free pages, a different one for each logical page. *)
LEMMA AllocatedPages ==
  ASSUME NEW c \in CacheType, Counted(c), NEW s \in Slots, NEW wanted \in SUBSET Logical,
         CanAllocate(c, s, wanted)
  PROVE  /\ \A l \in wanted : /\ Allocation(c, s, wanted)[l] \in c.free
                              /\ Allocation(c, s, wanted)[l] \in Pages
         /\ \A i, j \in wanted :
              Allocation(c, s, wanted)[i] = Allocation(c, s, wanted)[j] => i = j
<1> DEFINE page == Allocation(c, s, wanted)
<1>1. \A l \in wanted : page[l] \in Candidates(c, s, wanted, l)
  <2> TAKE l \in wanted
  <2>1. PICK p \in Pages : p \in Candidates(c, s, wanted, l)
    BY Typed DEF CanAllocate, Candidates
  <2> QED
    BY <2>1 DEF Allocation
<1>2. \A l \in wanted : page[l] \in c.free /\ page[l] \in Pages
  BY <1>1, Typed DEF Candidates
<1>3. ASSUME NEW i \in wanted, NEW j \in wanted, page[i] = page[j], i < j
      PROVE  FALSE
  <2>1. CASE Contiguous
    <3>1. s * PagesPerSlot + i = s * PagesPerSlot + j
      BY <1>1, <1>3, <2>1 DEF Candidates, IdentityPage
    <3>2. s * PagesPerSlot \in Int
      <4>1. \A a, b \in Int : a * b \in Int
        OBVIOUS
      <4> QED
        BY <4>1, Sizes DEF Slots
    <3> QED
      BY <3>1, <3>2, <1>3, Sizes DEF Logical
  <2>2. CASE ~Contiguous
    <3>1. Rank(i, wanted) = Rank(j, wanted)
      BY <1>1, <1>3, <2>2 DEF Candidates
    <3>2. wanted \in SUBSET Int /\ IsFiniteSet(wanted)
      <4>1. Logical \in SUBSET Int
        BY Sizes DEF Logical
      <4> QED
        BY <4>1, Sizes, Subsets
    <3> QED
      BY <3>1, <3>2, <1>3, RankOrders
  <2> QED
    BY <2>1, <2>2
<1>4. \A i, j \in wanted : i < j \/ j < i \/ i = j
  BY Sizes DEF Logical
<1> QED
  BY <1>2, <1>3, <1>4

(* An allocation writes the page table, the counts and the free heap. *)
LEMMA AllocateFields ==
  ASSUME NEW c \in CacheType, NEW s \in Slots, NEW wanted \in SUBSET Logical
  PROVE  LET d == Allocate(c, s, wanted)
             page == Allocation(c, s, wanted)
             taken == {page[l] : l \in wanted}
         IN  /\ d.kv_length = c.kv_length /\ d.slot_generation = c.slot_generation
             /\ d.slot_prefix = c.slot_prefix /\ d.reservation = c.reservation
             /\ d.reserved_pages = c.reserved_pages
             /\ d.prefix = c.prefix /\ d.older = c.older
             /\ d.page_table = [c.page_table EXCEPT ![s] =
                  [l \in Logical |-> IF l \in wanted THEN page[l] ELSE c.page_table[s][l]]]
             /\ d.ref_count = [p \in Pages |-> IF p \in taken THEN 1 ELSE c.ref_count[p]]
             /\ d.free = c.free \ taken
BY PutExcept DEF Allocate, CacheType

(* The pages an allocation takes are held by its slot alone; every other   *)
(* page loses the slot where it was replaced and nothing else.             *)
LEMMA AllocateEffect ==
  ASSUME NEW c \in CacheType, Counted(c), NEW s \in Slots, NEW wanted \in SUBSET Logical,
         CanAllocate(c, s, wanted), Distinct(c.page_table[s])
  PROVE  LET d == Allocate(c, s, wanted)
             page == Allocation(c, s, wanted)
             taken == {page[l] : l \in wanted}
         IN  /\ d \in CacheType
             /\ taken \subseteq c.free
             /\ d.free = {p \in Pages : d.ref_count[p] = 0}
             /\ \A t \in Slots : t # s => d.page_table[t] = c.page_table[t]
             /\ \A l \in wanted : d.page_table[s][l] \in taken
             /\ \A l \in Logical \ wanted : d.page_table[s][l] = c.page_table[s][l]
             /\ Distinct(d.page_table[s])
             /\ \A p \in taken :
                  /\ d.ref_count[p] = 1
                  /\ SlotsOn(d, p) = {s} /\ PrefixesOn(c, p) = {} /\ SourcesOn(c, p) = {}
             /\ \A p \in Pages \ taken :
                  /\ d.ref_count[p] = c.ref_count[p]
                  /\ SlotsOn(d, p) = IF \E l \in wanted : c.page_table[s][l] = p
                                     THEN SlotsOn(c, p) \ {s} ELSE SlotsOn(c, p)
<1> DEFINE d == Allocate(c, s, wanted)
           page == Allocation(c, s, wanted)
           taken == {page[l] : l \in wanted}
<1>1. /\ \A l \in wanted : page[l] \in c.free /\ page[l] \in Pages
      /\ \A i, j \in wanted : page[i] = page[j] => i = j
  BY AllocatedPages
<1>2. taken \subseteq c.free /\ taken \subseteq Pages
  BY <1>1
<1>3. /\ d.page_table = [c.page_table EXCEPT ![s] =
           [l \in Logical |-> IF l \in wanted THEN page[l] ELSE c.page_table[s][l]]]
      /\ d.ref_count = [p \in Pages |-> IF p \in taken THEN 1 ELSE c.ref_count[p]]
      /\ d.free = c.free \ taken
  <2>1. d.page_table = [c.page_table EXCEPT ![s] =
           [l \in Logical |-> IF l \in wanted THEN page[l] ELSE c.page_table[s][l]]]
    BY PutExcept DEF Allocate, CacheType
  <2>2. d.ref_count = [p \in Pages |-> IF p \in taken THEN 1 ELSE c.ref_count[p]]
    BY AllocateFields
  <2>3. d.free = c.free \ taken
    BY AllocateFields
  <2> QED
    BY <2>1, <2>2, <2>3
<1>4. d.page_table \in [Slots -> PageMap]
  BY <1>1, <1>3 DEF CacheType, PageMap
<1>5. d \in CacheType
  <2>1. /\ d.ref_count \in [Pages -> Nat] /\ d.free \in SUBSET Pages
    BY <1>3 DEF CacheType
  <2> QED
    BY <1>4, <2>1 DEF Allocate, CacheType
<1>6. d.free = {p \in Pages : d.ref_count[p] = 0}
  BY <1>2, <1>3 DEF Counted
<1>7. /\ \A t \in Slots : t # s => d.page_table[t] = c.page_table[t]
      /\ \A l \in wanted : d.page_table[s][l] = page[l]
      /\ \A l \in Logical \ wanted : d.page_table[s][l] = c.page_table[s][l]
  BY <1>3 DEF CacheType
<1>8. ASSUME NEW p \in taken
      PROVE  /\ d.ref_count[p] = 1
             /\ SlotsOn(c, p) = {} /\ PrefixesOn(c, p) = {} /\ SourcesOn(c, p) = {}
  BY <1>2, <1>3, Unheld
<1>9. \A p \in taken, l \in Logical : c.page_table[s][l] # p
  BY <1>2, <1>8, InMap DEF SlotsOn
<1> HIDE DEF d, page
<1>10. Distinct(d.page_table[s])
  BY <1>1, <1>7, <1>9 DEF Distinct
<1>11. \A p \in taken : SlotsOn(d, p) = {s}
  <2> TAKE p \in taken
  <2>1. p \in PagesOf(d.page_table[s])
    BY <1>2, <1>7, InMap
  <2>2. \A t \in Slots : t # s => p \notin PagesOf(d.page_table[t])
    BY <1>7, <1>8 DEF SlotsOn
  <2> QED
    BY <2>1, <2>2 DEF SlotsOn
<1>12. ASSUME NEW p \in Pages \ taken
       PROVE  SlotsOn(d, p) = IF \E l \in wanted : c.page_table[s][l] = p
                              THEN SlotsOn(c, p) \ {s} ELSE SlotsOn(c, p)
  <2>1. \A t \in Slots : t # s => (p \in PagesOf(d.page_table[t]) <=> p \in PagesOf(c.page_table[t]))
    BY <1>7
  <2>2. \A l \in wanted : d.page_table[s][l] # p
    BY <1>7
  <2>3. CASE \E l \in wanted : c.page_table[s][l] = p
    <3>1. p # Unmapped
      BY Sizes
    <3>2. \A l \in Logical \ wanted : d.page_table[s][l] # p
      BY <1>7, <2>3, <3>1 DEF Distinct
    <3>3. p \notin PagesOf(d.page_table[s])
      BY <2>2, <3>2, InMap
    <3> QED
      BY <2>1, <2>3, <3>3 DEF SlotsOn
  <2>4. CASE ~ \E l \in wanted : c.page_table[s][l] = p
    <3>1. p \in PagesOf(d.page_table[s]) <=> p \in PagesOf(c.page_table[s])
      BY <1>7, <2>2, <2>4, InMap
    <3> QED
      BY <2>1, <2>4, <3>1 DEF SlotsOn
  <2> QED
    BY <2>3, <2>4
<1>13. \A p \in Pages \ taken : d.ref_count[p] = c.ref_count[p]
  BY <1>3
<1>14. \A l \in wanted : d.page_table[s][l] \in taken
  BY <1>7
<1> QED
  BY <1>2, <1>5, <1>6, <1>7, <1>8, <1>10, <1>11, <1>12, <1>13, <1>14 DEF d, page

(* The same for one page of slot s, as a relation of the caches. *)
OnePageAllocated(c, d, s, l, page) ==
  /\ d \in CacheType
  /\ page \in c.free
  /\ d.free = {p \in Pages : d.ref_count[p] = 0}
  /\ \A t \in Slots : t # s => d.page_table[t] = c.page_table[t]
  /\ d.page_table[s][l] = page
  /\ \A i \in Logical : i # l => d.page_table[s][i] = c.page_table[s][i]
  /\ Distinct(d.page_table[s])
  /\ d.ref_count[page] = 1
  /\ SlotsOn(d, page) = {s} /\ PrefixesOn(c, page) = {} /\ SourcesOn(c, page) = {}
  /\ \A p \in Pages : p # page =>
       /\ d.ref_count[p] = c.ref_count[p]
       /\ SlotsOn(d, p) = IF c.page_table[s][l] = p THEN SlotsOn(c, p) \ {s}
                                                 ELSE SlotsOn(c, p)

(* The allocation of one page, in that form. *)
LEMMA AllocateOne ==
  ASSUME NEW c \in CacheType, Counted(c), NEW s \in Slots, NEW l \in Logical,
         CanAllocate(c, s, {l}), Distinct(c.page_table[s])
  PROVE  OnePageAllocated(c, Allocate(c, s, {l}), s, l, Allocation(c, s, {l})[l])
<1>1. PICK wanted : wanted = {l}
  OBVIOUS
<1> DEFINE d == Allocate(c, s, wanted)
           page == Allocation(c, s, wanted)
           taken == {page[i] : i \in wanted}
<1>2. wanted \in SUBSET Logical /\ CanAllocate(c, s, wanted)
  BY <1>1
<1>3. /\ d \in CacheType
      /\ taken \subseteq c.free
      /\ d.free = {p \in Pages : d.ref_count[p] = 0}
      /\ \A t \in Slots : t # s => d.page_table[t] = c.page_table[t]
      /\ \A i \in wanted : d.page_table[s][i] \in taken
      /\ \A i \in Logical \ wanted : d.page_table[s][i] = c.page_table[s][i]
      /\ Distinct(d.page_table[s])
      /\ \A p \in taken :
           /\ d.ref_count[p] = 1
           /\ SlotsOn(d, p) = {s} /\ PrefixesOn(c, p) = {} /\ SourcesOn(c, p) = {}
      /\ \A p \in Pages \ taken :
           /\ d.ref_count[p] = c.ref_count[p]
           /\ SlotsOn(d, p) = IF \E i \in wanted : c.page_table[s][i] = p
                              THEN SlotsOn(c, p) \ {s} ELSE SlotsOn(c, p)
  BY <1>2, AllocateEffect
<1>4. taken = {page[l]}
  BY <1>1
<1> HIDE DEF d, page, taken
<1>5. OnePageAllocated(c, d, s, l, page[l])
  BY <1>1, <1>3, <1>4 DEF OnePageAllocated
<1> QED
  BY <1>1, <1>5 DEF d, page

(* Releasing maps takes one reference per map from each page they name.    *)
LEMMA ReleaseFields ==
  ASSUME NEW c \in CacheType, NEW I, NEW maps
  PROVE  LET r == ReleaseMaps(c, I, maps)
         IN  /\ r.kv_length = c.kv_length /\ r.slot_generation = c.slot_generation
             /\ r.slot_prefix = c.slot_prefix /\ r.reservation = c.reservation
             /\ r.reserved_pages = c.reserved_pages /\ r.page_table = c.page_table
             /\ r.prefix = c.prefix /\ r.older = c.older
             /\ r.ref_count = [p \in Pages |-> Less(c.ref_count[p], Drops(I, maps, p))]
             /\ r.free = c.free \cup {p \in Pages : /\ c.ref_count[p] > 0
                                                    /\ Drops(I, maps, p) >= c.ref_count[p]}
BY DEF ReleaseMaps, CacheType

MapsReleased(c, r, I, maps) ==
  /\ r \in CacheType
  /\ r.free = {p \in Pages : r.ref_count[p] = 0}
  /\ \A p \in Pages :
       /\ r.ref_count[p] <= c.ref_count[p]
       /\ Drops(I, maps, p) <= c.ref_count[p] =>
            r.ref_count[p] = c.ref_count[p] - Drops(I, maps, p)

(* A release takes one reference per map from each page it names, and the  *)
(* pages left with none are free.                                          *)
LEMMA ReleaseEffect ==
  ASSUME NEW c \in CacheType, c.free = {p \in Pages : c.ref_count[p] = 0},
         NEW I, IsFiniteSet(I), NEW maps
  PROVE  MapsReleased(c, ReleaseMaps(c, I, maps), I, maps)
<1> DEFINE r == ReleaseMaps(c, I, maps)
           D(p) == Cardinality({i \in I : p \in PagesOf(maps[i])})
<1>1. \A p \in Pages : D(p) \in Nat
  <2> TAKE p \in Pages
  <2>1. {i \in I : p \in PagesOf(maps[i])} \in SUBSET I
    OBVIOUS
  <2> QED
    BY <2>1, Subsets
<1>2. /\ r.ref_count = [p \in Pages |-> IF D(p) >= c.ref_count[p] THEN 0 ELSE c.ref_count[p] - D(p)]
      /\ r.free = c.free \cup {p \in Pages : c.ref_count[p] > 0 /\ D(p) >= c.ref_count[p]}
  BY ReleaseFields DEF Less, Drops
<1> HIDE DEF D
<1>3. \A p \in Pages : c.ref_count[p] \in Nat
  BY Typed
<1>4. r.ref_count \in [Pages -> Nat] /\ r.free \in SUBSET Pages
  BY <1>1, <1>2, <1>3, Typed
<1>5. r \in CacheType
  BY <1>4 DEF ReleaseMaps, CacheType
<1>6. r.free = {p \in Pages : r.ref_count[p] = 0}
  <2> HIDE DEF r
  <2>1. \A p \in Pages : r.ref_count[p] = 0 <=> c.ref_count[p] = 0 \/ D(p) >= c.ref_count[p]
    BY <1>1, <1>2, <1>3
  <2>2. \A p \in Pages : c.ref_count[p] > 0 \/ c.ref_count[p] = 0
    BY <1>3
  <2> QED
    BY <1>2, <1>3, <2>1, <2>2
<1>7. \A p \in Pages : /\ r.ref_count[p] <= c.ref_count[p]
                       /\ D(p) <= c.ref_count[p] => r.ref_count[p] = c.ref_count[p] - D(p)
  BY <1>1, <1>2, <1>3
<1> QED
  BY <1>5, <1>6, <1>7 DEF D, MapsReleased, Drops

-----------------------------------------------------------------------------
(* Reserved pages are counted slot by slot.                                *)

Taken(c, S) == {x \in S \X Logical : x[2] \in c.reservation[x[1]].fresh}

(* The pages a set of slots has reserved can be counted. *)
LEMMA TakenFinite ==
  ASSUME NEW c, NEW S \in SUBSET Slots
  PROVE  /\ IsFiniteSet(Taken(c, S)) /\ Cardinality(Taken(c, S)) \in Nat
         /\ ReservedBy(c, S) = Cardinality(Taken(c, S))
<1>1. IsFiniteSet(S)
  BY Sizes, Subsets
<1>2. IsFiniteSet(S \X Logical)
  BY <1>1, Sizes, FS_Product
<1>3. Taken(c, S) \in SUBSET (S \X Logical)
  BY DEF Taken
<1> QED
  BY <1>2, <1>3, Subsets DEF Taken, ReservedBy

(* What S has reserved is what T and the rest of S have. *)
LEMMA TakenSplits ==
  ASSUME NEW c, NEW S \in SUBSET Slots, NEW T \in SUBSET S
  PROVE  ReservedBy(c, S) = ReservedBy(c, T) + ReservedBy(c, S \ T)
<1>1. /\ Taken(c, S) = Taken(c, T) \cup Taken(c, S \ T)
      /\ Taken(c, T) \cap Taken(c, S \ T) = {}
  BY DEF Taken
<1> QED
  BY <1>1, TakenFinite, Plus

(* Only the fresh pages of S decide what S has reserved. *)
LEMMA TakenFrame ==
  ASSUME NEW c, NEW d, NEW S \in SUBSET Slots,
         \A s \in S : d.reservation[s].fresh = c.reservation[s].fresh
  PROVE  ReservedBy(d, S) = ReservedBy(c, S)
<1>1. \A x \in S \X Logical : x[1] \in S
  OBVIOUS
<1> QED
  BY <1>1 DEF ReservedBy

(* One slot has reserved its fresh pages. *)
LEMMA TakenByOne ==
  ASSUME NEW c \in CacheType, NEW s \in Slots
  PROVE  /\ ReservedBy(c, {s}) = Cardinality(c.reservation[s].fresh)
         /\ Cardinality(c.reservation[s].fresh) \in Nat
<1>1. c.reservation[s].fresh \in SUBSET Logical
  BY Typed
<1>2. IsFiniteSet(c.reservation[s].fresh) /\ Cardinality(c.reservation[s].fresh) \in Nat
  BY <1>1, Subsets, Sizes
<1>3. Taken(c, {s}) = {s} \X c.reservation[s].fresh
  BY <1>1 DEF Taken
<1>4. Cardinality({s} \X c.reservation[s].fresh) = 1 * Cardinality(c.reservation[s].fresh)
  <2>1. IsFiniteSet({s}) /\ Cardinality({s}) = 1
    BY FS_Singleton
  <2> QED
    BY <1>2, <2>1, FS_Product
<1> QED
  BY <1>2, <1>3, <1>4, TakenFinite

(* Slots without reservations have reserved nothing. *)
LEMMA TakenByNone ==
  ASSUME NEW c, NEW S \in SUBSET Slots, \A s \in S : c.reservation[s] = NoReservation
  PROVE  ReservedBy(c, S) = 0
<1>1. \A x \in S \X Logical : x[1] \in S
  OBVIOUS
<1>2. Taken(c, S) = {}
  BY <1>1 DEF Taken, NoReservation
<1> QED
  BY <1>2, TakenFinite, FS_EmptySet

-----------------------------------------------------------------------------
(* vx_paged_kv_reserve.                                                    *)

(* A slot whose reservation is not open has none. *)
LEMMA Closed ==
  ASSUME NEW c \in CacheType, ReservationsExplained(c), NEW s \in Slots, ~Open(c, s)
  PROVE  /\ c.reservation[s].tokens = 0 /\ c.reservation[s].fresh = {}
         /\ c.reservation[s].prior = EmptyMap
         /\ Extent(c, s) = c.kv_length[s]
BY Typed DEF ReservationsExplained, NoReservation, Extent

(* The pages a reservation of n tokens misses are the unmapped ones that   *)
(* begin before its end, and they begin among the new tokens.              *)
LEMMA MissingPages ==
  ASSUME NEW c \in CacheType, SlotsBacked(c), ReservationsExplained(c),
         NEW s \in Slots, NEW n \in Nat, ReserveOK(c, s, n)
  PROVE  /\ Missing(c, s, n) =
              {l \in Logical : c.page_table[s][l] = Unmapped /\ Start(l) < c.kv_length[s] + n}
         /\ \A l \in Missing(c, s, n) : c.kv_length[s] <= Start(l)
<1> DEFINE kv == c.kv_length[s]
<1>1. kv \in Nat /\ n <= SlotTokenCapacity - kv
  BY Typed DEF ReserveOK
<1>2. \A l \in Logical : c.page_table[s][l] = Unmapped => kv <= Start(l)
  <2>1. Extent(c, s) = kv
    BY Closed DEF ReserveOK
  <2>2. \A l \in Logical : l \in Nat
    BY Sizes DEF Logical
  <2> QED
    BY <1>1, <2>1, <2>2, Starts DEF SlotsBacked, Backs
<1>3. /\ FirstLogical(c, s) \in Nat
      /\ \A l \in Nat : kv <= Start(l) => FirstLogical(c, s) <= l
  <2> DEFINE first == kv \div PageTokens
  <2>1. first \in Nat
    BY <1>1, PageOfToken
  <2>2. \A l \in Nat : l < first => Start(l) + PageTokens <= kv
    BY <1>1, PageOfToken
  <2>3. FirstLogical(c, s) = first
    BY DEF FirstLogical
  <2> HIDE DEF first
  <2>4. \A l \in Nat : l < first => Start(l) < kv
    BY <1>1, <2>2, Starts, Sizes
  <2>5. \A l \in Nat : kv <= Start(l) => first <= l
    BY <1>1, <2>1, <2>4, Starts
  <2> QED
    BY <2>1, <2>3, <2>5
<1>4. /\ LastLogical(c, s, n) \in Int
      /\ \A l \in Nat : l <= LastLogical(c, s, n) <=> Start(l) < kv + n
  <2>1. CASE kv + n = 0
    BY <1>1, <2>1, Starts DEF LastLogical
  <2>2. CASE kv + n # 0
    <3>1. kv + n - 1 \in Nat
      BY <1>1, <2>2
    <3>2. /\ (kv + n - 1) \div PageTokens \in Nat
          /\ \A l \in Nat : l <= (kv + n - 1) \div PageTokens <=> Start(l) <= kv + n - 1
      BY <3>1, PageOfToken
    <3> QED
      BY <1>1, <2>2, <3>2, Starts DEF LastLogical
  <2> QED
    BY <2>1, <2>2
<1>5. \A l \in FirstLogical(c, s) .. LastLogical(c, s, n) : l \in Nat /\ l \in Logical
  BY <1>1, <1>3, <1>4, Starts, Sizes
<1>6. \A l \in Logical : l \in Nat
  BY Sizes DEF Logical
<1> QED
  BY <1>1, <1>2, <1>3, <1>4, <1>5, <1>6 DEF Missing

(* A reservation writes what an allocation writes, its own record and the  *)
(* reserved count.                                                         *)
LEMMA ReserveFields ==
  ASSUME NEW c \in CacheType, NEW s \in Slots, NEW n \in Nat
  PROVE  LET d == Reserve(c, s, n)
             a == Allocate(c, s, Missing(c, s, n))
         IN  /\ d.page_table = a.page_table /\ d.ref_count = a.ref_count /\ d.free = a.free
             /\ d.kv_length = c.kv_length /\ d.slot_generation = c.slot_generation
             /\ d.slot_prefix = c.slot_prefix /\ d.prefix = c.prefix /\ d.older = c.older
             /\ d.reserved_pages = c.reserved_pages + Cardinality(Missing(c, s, n))
             /\ d.reservation = [c.reservation EXCEPT ![s] =
                  [open |-> TRUE, tokens |-> n, fresh |-> Missing(c, s, n), prior |-> EmptyMap]]
BY PutExcept DEF Reserve, Allocate, CacheType

(* A reservation with well-typed fields is a well-typed cache. *)
LEMMA ReserveTyped ==
  ASSUME NEW c \in CacheType, NEW s \in Slots, NEW n \in Nat,
         NEW d, d = Reserve(c, s, n),
         d.page_table \in [Slots -> PageMap], d.ref_count \in [Pages -> Nat],
         d.free \in SUBSET Pages, d.reserved_pages \in Int,
         d.reservation \in [Slots -> Reservation]
  PROVE  d \in CacheType
BY DEF Reserve, Allocate, CacheType

(* A reservation keeps the cache sound: what it maps is free before and    *)
(* private after.                                                          *)
LEMMA ReserveSound ==
  ASSUME NEW c, Sound(c), NEW s \in Slots, NEW n \in Nat, ReserveOK(c, s, n)
  PROVE  Sound(Reserve(c, s, n))
<1> DEFINE wanted == Missing(c, s, n)
           a == Allocate(c, s, wanted)
           d == Reserve(c, s, n)
           taken == {Allocation(c, s, wanted)[l] : l \in wanted}
<1> USE DEF Sound
<1>1. c \in CacheType
  OBVIOUS
<1>2. /\ wanted = {l \in Logical : c.page_table[s][l] = Unmapped /\ Start(l) < c.kv_length[s] + n}
      /\ \A l \in wanted : c.kv_length[s] <= Start(l)
  BY MissingPages
<1>3. /\ CanAllocate(c, s, wanted) /\ ~Open(c, s) /\ wanted \in SUBSET Logical
      /\ c.kv_length[s] + n <= SlotTokenCapacity
  BY <1>2, Typed, Sizes DEF ReserveOK
<1>4. /\ c.reservation[s].tokens = 0 /\ c.reservation[s].fresh = {}
      /\ c.reservation[s].prior = EmptyMap /\ Extent(c, s) = c.kv_length[s]
  BY <1>3, Closed
<1>5. c.kv_length[s] = 0 => \A l \in Logical : c.page_table[s][l] = Unmapped
  BY <1>4 DEF ReservationsExplained, FreshExplained
<1>6. \A l \in wanted : c.page_table[s][l] = Unmapped
  BY <1>2
<1>7. Distinct(c.page_table[s])
  BY DEF SlotsBacked, Backs
<1>8. /\ a \in CacheType
      /\ taken \subseteq c.free
      /\ a.free = {p \in Pages : a.ref_count[p] = 0}
      /\ \A t \in Slots : t # s => a.page_table[t] = c.page_table[t]
      /\ \A l \in wanted : a.page_table[s][l] \in taken
      /\ \A l \in Logical \ wanted : a.page_table[s][l] = c.page_table[s][l]
      /\ Distinct(a.page_table[s])
      /\ \A p \in taken :
           /\ a.ref_count[p] = 1
           /\ SlotsOn(a, p) = {s} /\ PrefixesOn(c, p) = {} /\ SourcesOn(c, p) = {}
      /\ \A p \in Pages \ taken :
           /\ a.ref_count[p] = c.ref_count[p]
           /\ SlotsOn(a, p) = IF \E l \in wanted : c.page_table[s][l] = p
                              THEN SlotsOn(c, p) \ {s} ELSE SlotsOn(c, p)
  BY <1>3, <1>7, AllocateEffect
<1>9. /\ d.page_table = a.page_table /\ d.ref_count = a.ref_count /\ d.free = a.free
      /\ d.kv_length = c.kv_length /\ d.slot_generation = c.slot_generation
      /\ d.slot_prefix = c.slot_prefix /\ d.prefix = c.prefix /\ d.older = c.older
      /\ d.reserved_pages = c.reserved_pages + Cardinality(wanted)
      /\ d.reservation = [c.reservation EXCEPT ![s] =
           [open |-> TRUE, tokens |-> n, fresh |-> wanted, prior |-> EmptyMap]]
  BY ReserveFields
<1>10. d \in CacheType
  <2>1. Cardinality(wanted) \in Nat
    BY <1>3, Subsets, Sizes
  <2>2. EmptyMap \in PageMap
    BY DEF EmptyMap, PageMap
  <2>3. d.reservation \in [Slots -> Reservation]
    BY <1>3, <1>9, <2>2 DEF CacheType, Reservation
  <2>4. /\ d.page_table \in [Slots -> PageMap] /\ d.ref_count \in [Pages -> Nat]
        /\ d.free \in SUBSET Pages /\ d.reserved_pages \in Int
    BY <1>8, <1>9, <2>1 DEF CacheType
  <2> QED
    BY <2>3, <2>4, ReserveTyped
<1> HIDE DEF wanted, a, d, taken
<1>11. /\ \A t \in Slots : t # s => /\ d.reservation[t] = c.reservation[t]
                                    /\ d.page_table[t] = c.page_table[t]
                                    /\ Extent(d, t) = Extent(c, t)
       /\ d.reservation[s].open /\ d.reservation[s].tokens = n
       /\ d.reservation[s].fresh = wanted /\ d.reservation[s].prior = EmptyMap
       /\ Extent(d, s) = c.kv_length[s] + n
  BY <1>8, <1>9 DEF CacheType, Extent
<1>12. taken \in SUBSET Pages
  BY <1>8, Typed
<1>13. \A p \in Pages : /\ SlotsOn(d, p) = SlotsOn(a, p)
                        /\ PrefixesOn(d, p) = PrefixesOn(c, p)
                        /\ SourcesOn(d, p) = SourcesOn(c, p)
  <2>1. \A t \in Slots : d.reservation[t].prior = c.reservation[t].prior
    BY <1>4, <1>11
  <2> QED
    BY <1>9, <2>1 DEF SlotsOn, PrefixesOn, SourcesOn, LiveKeys
<1>14. Counted(d)
  <2>1. ASSUME NEW p \in taken
        PROVE  d.ref_count[p] = Held(d, p)
    <3>1. Cardinality({s}) = 1 /\ Cardinality({}) = 0
      BY FS_Singleton, FS_EmptySet
    <3> QED
      <4>1. /\ d.ref_count[p] = 1 /\ SlotsOn(d, p) = {s}
            /\ PrefixesOn(d, p) = {} /\ SourcesOn(d, p) = {}
        BY <1>8, <1>9, <1>12, <1>13
      <4> QED
        BY <3>1, <4>1 DEF Held
  <2>2. ASSUME NEW p \in Pages \ taken
        PROVE  d.ref_count[p] = Held(d, p)
    <3>1. \A l \in wanted : c.page_table[s][l] # p
      BY <1>6, Sizes
    <3> QED
      BY <1>8, <1>9, <1>13, <3>1 DEF Held, Counted
  <2> QED
    BY <1>8, <1>9, <2>1, <2>2 DEF Counted
<1>15. SlotsBacked(d)
  <2>1. \A l \in wanted : d.page_table[s][l] # Unmapped
    BY <1>8, <1>9, <1>12, Sizes
  <2>2. \A l \in Logical : Start(l) < c.kv_length[s] + n => d.page_table[s][l] # Unmapped
    BY <1>2, <1>8, <1>9, <2>1
  <2>3. Backs(d.page_table[s], Extent(d, s))
    BY <1>3, <1>8, <1>9, <1>11, <2>2 DEF Backs
  <2> QED
    BY <1>11, <2>3 DEF SlotsBacked
<1>16. AppendsPrivate(d)
  <2> SUFFICES ASSUME NEW t \in Slots, NEW l \in Logical, d.page_table[t][l] # Unmapped,
                      Start(l) + PageTokens > d.kv_length[t]
               PROVE  d.ref_count[d.page_table[t][l]] = 1
    BY DEF AppendsPrivate
  <2>1. CASE t = s /\ l \in wanted
    BY <1>8, <1>9, <2>1
  <2>2. CASE ~(t = s /\ l \in wanted)
    <3>1. d.page_table[t][l] = c.page_table[t][l]
      BY <1>8, <1>9, <2>2
    <3>2. c.ref_count[c.page_table[t][l]] = 1
      BY <1>9, <3>1 DEF AppendsPrivate
    <3>3. c.page_table[t][l] \in Pages
      BY <3>1, Typed DEF PageMap
    <3>4. c.page_table[t][l] \notin taken
      BY <1>8, <3>2, <3>3, Unheld
    <3> QED
      BY <1>8, <1>9, <3>1, <3>2, <3>3, <3>4
  <2> QED
    BY <2>1, <2>2
<1>17. GraftsCounted(d)
  BY <1>9 DEF GraftsCounted, Grafted, LiveKeys
<1>18. PrefixesWhole(d)
  BY <1>9 DEF PrefixesWhole, LiveKeys
<1>19. ReservationsExplained(d)
  <2>1. \A t \in Slots : t # s =>
          /\ ~Open(d, t) => d.reservation[t] = NoReservation
          /\ FreshExplained(d, t, d.reservation[t])
          /\ SourcesKept(d, t, d.reservation[t])
    BY <1>9, <1>11 DEF ReservationsExplained, FreshExplained, SourcesKept, Open
  <2>2. FreshExplained(d, s, d.reservation[s])
    <3>1. \A l \in wanted : d.page_table[s][l] # Unmapped
      BY <1>8, <1>9, <1>12, Sizes
    <3>2. \A l \in Logical \ wanted : d.page_table[s][l] = c.page_table[s][l]
      BY <1>8, <1>9
    <3> QED
      BY <1>2, <1>5, <1>9, <1>11, <3>1, <3>2 DEF FreshExplained
  <2>3. SourcesKept(d, s, d.reservation[s])
    BY <1>11 DEF SourcesKept, EmptyMap, Distinct
  <2> QED
    BY <1>11, <2>1, <2>2, <2>3 DEF ReservationsExplained, Open
<1>20. ReservedCounted(d)
  <2>1. ReservedBy(d, {s}) = Cardinality(wanted)
    BY <1>10, <1>11, TakenByOne
  <2>2. ReservedBy(c, {s}) = 0
    BY <1>4, TakenByOne, FS_EmptySet
  <2>3. ReservedBy(d, Slots \ {s}) = ReservedBy(c, Slots \ {s})
    BY <1>11, TakenFrame
  <2>4. /\ ReservedBy(d, Slots) = ReservedBy(d, {s}) + ReservedBy(d, Slots \ {s})
        /\ ReservedBy(c, Slots) = ReservedBy(c, {s}) + ReservedBy(c, Slots \ {s})
    BY TakenSplits
  <2>5. ReservedBy(c, Slots \ {s}) \in Nat
    BY TakenFinite
  <2>6. Cardinality(wanted) \in Nat
    BY <1>10, <1>11, TakenByOne
  <2> QED
    BY <1>9, <2>1, <2>2, <2>3, <2>4, <2>5, <2>6 DEF ReservedCounted
<1>21. RecencyOrders(d)
  BY <1>9 DEF RecencyOrders, LiveKeys
<1> QED
  BY <1>10, <1>14, <1>15, <1>16, <1>17, <1>18, <1>19, <1>20, <1>21 DEF d

-----------------------------------------------------------------------------
(* vx_paged_kv_reserve_write: the page at position gets a private copy and *)
(* the shared page stays held as its source.                               *)

CopyForWrite(r, s, l) ==
  [Allocate(r, s, {l}) EXCEPT
    !.reserved_pages = @ + 1,
    !.reservation = Put(@, s, [r.reservation[s] EXCEPT
      !.fresh = @ \cup {l},
      !.prior = Put(@, l, r.page_table[s][l])])]

(* The copy of one page for a write, field by field. *)
LEMMA CopyFields ==
  ASSUME NEW r \in CacheType, NEW s \in Slots, NEW l \in Logical
  PROVE  LET d == CopyForWrite(r, s, l)
             a == Allocate(r, s, {l})
         IN  /\ d.page_table = a.page_table /\ d.ref_count = a.ref_count /\ d.free = a.free
             /\ d.kv_length = r.kv_length /\ d.slot_generation = r.slot_generation
             /\ d.slot_prefix = r.slot_prefix /\ d.prefix = r.prefix /\ d.older = r.older
             /\ d.reserved_pages = r.reserved_pages + 1
             /\ \A t \in Slots : t # s => d.reservation[t] = r.reservation[t]
             /\ d.reservation[s].open = r.reservation[s].open
             /\ d.reservation[s].tokens = r.reservation[s].tokens
             /\ d.reservation[s].fresh = r.reservation[s].fresh \cup {l}
             /\ d.reservation[s].prior = [r.reservation[s].prior EXCEPT ![l] = r.page_table[s][l]]
             /\ d.reservation \in [Slots -> Reservation]
<1> DEFINE d == CopyForWrite(r, s, l)
           a == Allocate(r, s, {l})
<1>1. /\ d.page_table = a.page_table /\ d.ref_count = a.ref_count /\ d.free = a.free
      /\ d.kv_length = r.kv_length /\ d.slot_generation = r.slot_generation
      /\ d.slot_prefix = r.slot_prefix /\ d.prefix = r.prefix /\ d.older = r.older
      /\ d.reserved_pages = r.reserved_pages + 1
  BY DEF CopyForWrite, Allocate, CacheType
<1> DEFINE record == [r.reservation[s] EXCEPT
                       !.fresh = @ \cup {l}, !.prior = Put(@, l, r.page_table[s][l])]
<1>2. d.reservation = Put(r.reservation, s, record)
  BY DEF CopyForWrite, Allocate, CacheType
<1> HIDE DEF d
<1>3. /\ r.reservation \in [Slots -> Reservation] /\ r.reservation[s] \in Reservation
      /\ r.page_table[s][l] \in Pages \cup {Unmapped}
  BY Typed DEF CacheType, PageMap
<1>4. \A t \in Slots : t # s => d.reservation[t] = r.reservation[t]
  BY <1>2, <1>3 DEF Put
<1>5. d.reservation[s] = record
  BY <1>2, <1>3 DEF Put
<1>6. d.reservation[s] \in Reservation
  <2> DEFINE x == r.reservation[s]
             m == [x.prior EXCEPT ![l] = r.page_table[s][l]]
             f == x.fresh \cup {l}
  <2>1. d.reservation[s] = [x EXCEPT !.fresh = f, !.prior = m]
    BY <1>3, <1>5, PutExcept DEF Reservation
  <2>2. m \in PageMap /\ f \in SUBSET Logical /\ x \in Reservation
    BY <1>3 DEF Reservation, PageMap
  <2> HIDE DEF x, m, f
  <2> QED
    BY <2>1, <2>2 DEF Reservation
<1>7. d.reservation \in [Slots -> Reservation]
  BY <1>2, <1>3, <1>4, <1>6 DEF Put
<1>8. /\ d.reservation[s].open = r.reservation[s].open
      /\ d.reservation[s].tokens = r.reservation[s].tokens
      /\ d.reservation[s].fresh = r.reservation[s].fresh \cup {l}
      /\ d.reservation[s].prior = [r.reservation[s].prior EXCEPT ![l] = r.page_table[s][l]]
  BY <1>3, <1>5, PutExcept DEF Reservation
<1> QED
  BY <1>1, <1>4, <1>7, <1>8 DEF d

(* A copy with well-typed fields is a well-typed cache. *)
LEMMA CopyTyped ==
  ASSUME NEW r \in CacheType, NEW s \in Slots, NEW l \in Logical,
         NEW d, d = CopyForWrite(r, s, l),
         d.page_table \in [Slots -> PageMap], d.ref_count \in [Pages -> Nat],
         d.free \in SUBSET Pages, d.reserved_pages \in Int,
         d.reservation \in [Slots -> Reservation]
  PROVE  d \in CacheType
BY DEF CopyForWrite, Allocate, CacheType

(* A private copy of a shared page keeps the cache sound: the shared page  *)
(* loses the slot and gains it as the holder of a source.                  *)
LEMMA CopySound ==
  ASSUME NEW r, Sound(r), NEW s \in Slots, NEW l \in Logical,
         Open(r, s), r.reservation[s].prior = EmptyMap,
         r.page_table[s][l] # Unmapped, r.ref_count[r.page_table[s][l]] > 1,
         CanAllocate(r, s, {l})
  PROVE  Sound(CopyForWrite(r, s, l))
<1> DEFINE a == Allocate(r, s, {l})
           d == CopyForWrite(r, s, l)
           source == r.page_table[s][l]
           page == Allocation(r, s, {l})[l]
<1> USE DEF Sound
<1>1. r \in CacheType /\ {l} \in SUBSET Logical
  OBVIOUS
<1>2. Distinct(r.page_table[s])
  BY DEF SlotsBacked, Backs
<1>3. /\ a \in CacheType
      /\ page \in r.free
      /\ a.free = {p \in Pages : a.ref_count[p] = 0}
      /\ \A t \in Slots : t # s => a.page_table[t] = r.page_table[t]
      /\ a.page_table[s][l] = page
      /\ \A i \in Logical : i # l => a.page_table[s][i] = r.page_table[s][i]
      /\ Distinct(a.page_table[s])
      /\ a.ref_count[page] = 1
      /\ SlotsOn(a, page) = {s} /\ PrefixesOn(r, page) = {} /\ SourcesOn(r, page) = {}
      /\ \A p \in Pages : p # page =>
           /\ a.ref_count[p] = r.ref_count[p]
           /\ SlotsOn(a, p) = IF source = p THEN SlotsOn(r, p) \ {s} ELSE SlotsOn(r, p)
  <2>1. OnePageAllocated(r, a, s, l, page)
    BY <1>1, <1>2, AllocateOne
  <2> QED
    BY <2>1 DEF OnePageAllocated
<1>4. /\ d.page_table = a.page_table /\ d.ref_count = a.ref_count /\ d.free = a.free
      /\ d.kv_length = r.kv_length /\ d.slot_generation = r.slot_generation
      /\ d.slot_prefix = r.slot_prefix /\ d.prefix = r.prefix /\ d.older = r.older
      /\ d.reserved_pages = r.reserved_pages + 1
      /\ \A t \in Slots : t # s => d.reservation[t] = r.reservation[t]
      /\ d.reservation[s].open = r.reservation[s].open
      /\ d.reservation[s].tokens = r.reservation[s].tokens
      /\ d.reservation[s].fresh = r.reservation[s].fresh \cup {l}
      /\ d.reservation[s].prior = [r.reservation[s].prior EXCEPT ![l] = source]
      /\ d.reservation \in [Slots -> Reservation]
  BY CopyFields
<1>5. d \in CacheType
  <2>1. /\ d.page_table \in [Slots -> PageMap] /\ d.ref_count \in [Pages -> Nat]
        /\ d.free \in SUBSET Pages /\ d.reserved_pages \in Int
    <3> HIDE DEF a, d
    <3> QED
      BY <1>3, <1>4 DEF CacheType
  <2> QED
    BY <1>4, <2>1, CopyTyped
<1> HIDE DEF a, d, source, page
<1>6. source \in Pages /\ source # Unmapped /\ r.ref_count[source] > 1
  BY Typed DEF source, PageMap
<1>7. page \in Pages /\ r.ref_count[page] = 0 /\ page # source /\ SlotsOn(r, page) = {}
  BY <1>3, <1>6, Typed, Unheld
<1>8. Start(l) + PageTokens <= r.kv_length[s]
  <2>1. r.ref_count[r.page_table[s][l]] # 1
    OBVIOUS
  <2>2. Start(l) \in Nat /\ r.kv_length[s] \in Nat
    BY Starts, Typed, Sizes
  <2> QED
    BY <2>1, <2>2, Sizes DEF AppendsPrivate
<1>9. l \notin r.reservation[s].fresh
  <2>1. r.reservation[s].prior[l] = Unmapped
    BY DEF EmptyMap
  <2>2. Start(l) \in Nat /\ r.kv_length[s] \in Nat
    BY Starts, Typed, Sizes
  <2> QED
    BY <1>8, <2>1, <2>2, Sizes DEF ReservationsExplained, FreshExplained
<1>10. /\ d.reservation[s].prior[l] = source
       /\ \A i \in Logical : i # l => d.reservation[s].prior[i] = Unmapped
  BY <1>4 DEF EmptyMap
<1>11. \A t \in Slots : Extent(d, t) = Extent(r, t)
  BY <1>4 DEF Extent
<1>12. \A p \in Pages : PrefixesOn(d, p) = PrefixesOn(r, p) /\ SlotsOn(d, p) = SlotsOn(a, p)
  BY <1>4 DEF PrefixesOn, LiveKeys, SlotsOn
<1>13. /\ SourcesOn(d, source) = SourcesOn(r, source) \cup {s}
       /\ \A p \in Pages : p # source => SourcesOn(d, p) = SourcesOn(r, p)
       /\ s \notin SourcesOn(r, source)
  <2>1. \A p \in Pages : p \in PagesOf(d.reservation[s].prior) <=> p = source
    BY <1>6, <1>10, InMap, Sizes
  <2>2. \A p \in Pages : p \notin PagesOf(r.reservation[s].prior)
    BY InMap, Sizes DEF EmptyMap
  <2> QED
    BY <1>4, <1>6, <2>1, <2>2 DEF SourcesOn
<1>14. Counted(d)
  <2>1. d.ref_count[page] = Held(d, page)
    <3>1. /\ SlotsOn(d, page) = {s} /\ PrefixesOn(d, page) = {} /\ SourcesOn(d, page) = {}
          /\ d.ref_count[page] = 1
      BY <1>3, <1>4, <1>7, <1>12, <1>13
    <3>2. Cardinality({s}) = 1 /\ Cardinality({}) = 0
      BY FS_Singleton, FS_EmptySet
    <3> QED
      BY <3>1, <3>2 DEF Held
  <2>2. d.ref_count[source] = Held(d, source)
    <3>1. s \in SlotsOn(r, source)
      BY <1>6, InMap DEF SlotsOn, source
    <3>2. /\ SlotsOn(d, source) = SlotsOn(r, source) \ {s}
          /\ SourcesOn(d, source) = SourcesOn(r, source) \cup {s}
          /\ PrefixesOn(d, source) = PrefixesOn(r, source)
          /\ d.ref_count[source] = r.ref_count[source]
      BY <1>3, <1>4, <1>6, <1>7, <1>12, <1>13
    <3>3. /\ Cardinality(SlotsOn(r, source) \ {s}) = Cardinality(SlotsOn(r, source)) - 1
          /\ Cardinality(SourcesOn(r, source) \cup {s}) = Cardinality(SourcesOn(r, source)) + 1
      BY <1>13, <3>1, HoldersFinite, FS_RemoveElement, FS_AddElement
    <3>4. r.ref_count[source] = Held(r, source)
      BY <1>6 DEF Counted
    <3> QED
      BY <3>2, <3>3, <3>4, HoldersFinite DEF Held
  <2>3. ASSUME NEW p \in Pages, p # page, p # source
        PROVE  d.ref_count[p] = Held(d, p)
    BY <1>3, <1>4, <1>12, <1>13, <2>3 DEF Held, Counted
  <2> QED
    BY <1>3, <1>4, <2>1, <2>2, <2>3 DEF Counted
<1>15. SlotsBacked(d)
  <2>1. page # Unmapped
    BY <1>7, Sizes
  <2>2. \A i \in Logical : d.page_table[s][i] # Unmapped <=> r.page_table[s][i] # Unmapped
    BY <1>3, <1>4, <1>6, <2>1 DEF source
  <2> QED
    BY <1>3, <1>4, <1>11, <2>2 DEF SlotsBacked, Backs
<1>16. AppendsPrivate(d)
  <2> SUFFICES ASSUME NEW t \in Slots, NEW i \in Logical, d.page_table[t][i] # Unmapped,
                      Start(i) + PageTokens > d.kv_length[t]
               PROVE  d.ref_count[d.page_table[t][i]] = 1
    BY DEF AppendsPrivate
  <2>1. ~(t = s /\ i = l)
    <3>1. Start(l) \in Nat /\ r.kv_length[s] \in Nat
      BY Starts, Typed, Sizes
    <3> QED
      BY <1>4, <1>8, <3>1, Sizes
  <2>2. d.page_table[t][i] = r.page_table[t][i]
    BY <1>3, <1>4, <2>1
  <2>3. r.ref_count[r.page_table[t][i]] = 1
    BY <1>4, <2>2 DEF AppendsPrivate
  <2>4. r.page_table[t][i] \in Pages
    BY <2>2, Typed DEF PageMap
  <2> QED
    BY <1>3, <1>4, <1>7, <2>2, <2>3, <2>4
<1>17. GraftsCounted(d) /\ PrefixesWhole(d) /\ RecencyOrders(d)
  BY <1>4 DEF GraftsCounted, Grafted, PrefixesWhole, RecencyOrders, LiveKeys
<1>18. ReservationsExplained(d)
  <2>1. \A t \in Slots : t # s =>
          /\ ~Open(d, t) => d.reservation[t] = NoReservation
          /\ FreshExplained(d, t, d.reservation[t])
          /\ SourcesKept(d, t, d.reservation[t])
    BY <1>3, <1>4, <1>11 DEF ReservationsExplained, FreshExplained, SourcesKept, Open
  <2>2. FreshExplained(d, s, d.reservation[s])
    <3>1. FreshExplained(r, s, r.reservation[s])
      BY DEF ReservationsExplained
    <3>2. d.kv_length[s] # 0
      BY <1>4, <1>8, Starts, Sizes, Typed
    <3>3. d.page_table[s][l] = page /\ page # Unmapped
      BY <1>3, <1>4, <1>7, Sizes
    <3>4. ASSUME NEW i \in r.reservation[s].fresh
          PROVE  /\ d.page_table[s][i] # Unmapped
                 /\ d.kv_length[s] <= Start(i)
      <4>1. i # l /\ i \in Logical
        BY <1>9, Typed
      <4>2. r.reservation[s].prior[i] = Unmapped
        BY <4>1 DEF EmptyMap
      <4> QED
        BY <1>3, <1>4, <3>1, <4>1, <4>2 DEF FreshExplained
    <3> QED
      BY <1>4, <1>6, <1>10, <3>2, <3>3, <3>4 DEF FreshExplained
  <2>3. SourcesKept(d, s, d.reservation[s])
    <3>1. Distinct(d.reservation[s].prior)
      BY <1>10 DEF Distinct
    <3>2. source \notin PagesOf(d.page_table[s])
      <4>1. \A i \in Logical : i # l => r.page_table[s][i] # source
        BY <1>2, <1>6 DEF Distinct, source
      <4> QED
        BY <1>3, <1>4, <1>6, <1>7, <4>1, InMap
    <3> QED
      BY <1>4, <1>8, <1>10, <3>1, <3>2 DEF SourcesKept
  <2> QED
    BY <1>4, <2>1, <2>2, <2>3 DEF ReservationsExplained, Open
<1>19. ReservedCounted(d)
  <2>1. ReservedBy(d, {s}) = Cardinality(r.reservation[s].fresh \cup {l})
    BY <1>4, <1>5, TakenByOne
  <2>2. ReservedBy(r, {s}) = Cardinality(r.reservation[s].fresh) /\ ReservedBy(r, {s}) \in Nat
    BY TakenByOne
  <2>3. IsFiniteSet(r.reservation[s].fresh)
    BY Typed, Sizes, Subsets
  <2>4. ReservedBy(d, {s}) = ReservedBy(r, {s}) + 1
    BY <1>9, <2>1, <2>2, <2>3, FS_AddElement
  <2>5. ReservedBy(d, Slots \ {s}) = ReservedBy(r, Slots \ {s})
    BY <1>4, TakenFrame
  <2>6. /\ ReservedBy(d, Slots) = ReservedBy(d, {s}) + ReservedBy(d, Slots \ {s})
        /\ ReservedBy(r, Slots) = ReservedBy(r, {s}) + ReservedBy(r, Slots \ {s})
    BY TakenSplits
  <2>7. ReservedBy(r, Slots \ {s}) \in Nat
    BY TakenFinite
  <2> QED
    BY <1>4, <2>2, <2>4, <2>5, <2>6, <2>7 DEF ReservedCounted
<1> QED
  BY <1>5, <1>14, <1>15, <1>16, <1>17, <1>18, <1>19 DEF d

(* A reservation for a write, with or without its copy, keeps the cache    *)
(* sound.                                                                  *)
LEMMA ReserveWriteSound ==
  ASSUME NEW c, Sound(c), NEW s \in Slots, NEW n \in Nat,
         NEW position \in 0 .. SlotTokenCapacity - 1, ReserveWriteOK(c, s, n, position)
  PROVE  Sound(ReserveWrite(c, s, n, position))
<1> DEFINE r == Reserve(c, s, n)
           l == position \div PageTokens
<1>1. Sound(r)
  BY ReserveSound DEF ReserveWriteOK
<1>2. CASE ~NeedsCopy(c, s, n, position)
  BY <1>1, <1>2 DEF ReserveWrite
<1>3. CASE NeedsCopy(c, s, n, position)
  <2>1. l \in Logical
    <3>1. position \in Nat /\ position < SlotTokenCapacity
      BY Sizes
    <3>2. l \in Nat /\ (l <= l <=> Start(l) <= position)
      BY <3>1, PageOfToken
    <3>3. Start(l) \in Nat
      BY <3>2, Starts
    <3>4. Start(l) < SlotTokenCapacity
      BY <3>1, <3>2, <3>3, Sizes
    <3> QED
      BY <3>2, <3>4, Starts
  <2>2. /\ r.page_table[s][l] # Unmapped /\ r.ref_count[r.page_table[s][l]] > 1
        /\ CanAllocate(r, s, {l})
    BY <1>3 DEF ReserveWriteOK, NeedsCopy, WriteSource
  <2>3. Open(r, s) /\ r.reservation[s].prior = EmptyMap
    <3>1. c \in CacheType
      BY DEF Sound
    <3>2. r.reservation = [c.reservation EXCEPT ![s] =
            [open |-> TRUE, tokens |-> n, fresh |-> Missing(c, s, n), prior |-> EmptyMap]]
      BY <3>1, ReserveFields
    <3> HIDE DEF r
    <3> QED
      BY <3>1, <3>2 DEF Open, CacheType
  <2>4. ReserveWrite(c, s, n, position) = CopyForWrite(r, s, l)
    BY <1>3 DEF ReserveWrite, CopyForWrite, WriteSource
  <2> HIDE DEF r, l
  <2> QED
    BY <1>1, <2>1, <2>2, <2>3, <2>4, CopySound
<1> QED
  BY <1>2, <1>3

-----------------------------------------------------------------------------
(* vx_paged_kv_commit_batch: the sources of copied pages lose one holder.  *)

(* A commit, field by field. *)
LEMMA CommitFields ==
  ASSUME NEW c \in CacheType, NEW S \in SUBSET Slots
  PROVE  LET d == Commit(c, S)
             r == ReleaseMaps(c, S, [s \in S |-> c.reservation[s].prior])
         IN  /\ d.page_table = c.page_table /\ d.ref_count = r.ref_count /\ d.free = r.free
             /\ d.slot_generation = c.slot_generation /\ d.slot_prefix = c.slot_prefix
             /\ d.prefix = c.prefix /\ d.older = c.older
             /\ d.kv_length = [s \in Slots |->
                  IF s \in S THEN c.kv_length[s] + c.reservation[s].tokens ELSE c.kv_length[s]]
             /\ d.reserved_pages = c.reserved_pages - ReservedBy(c, S)
             /\ d.reservation = [s \in Slots |->
                  IF s \in S THEN NoReservation ELSE c.reservation[s]]
BY DEF Commit, ReleaseMaps, CacheType

(* A commit with well-typed fields is a well-typed cache. *)
LEMMA CommitTyped ==
  ASSUME NEW c \in CacheType, NEW S \in SUBSET Slots,
         NEW d, d = Commit(c, S),
         d.ref_count \in [Pages -> Nat], d.free \in SUBSET Pages,
         d.kv_length \in [Slots -> Nat], d.reserved_pages \in Int,
         d.reservation \in [Slots -> Reservation]
  PROVE  d \in CacheType
BY DEF Commit, ReleaseMaps, CacheType

(* The empty reservation and the empty map. *)
LEMMA NothingReserved ==
  /\ NoReservation \in Reservation /\ EmptyMap \in PageMap
  /\ \A p \in Pages : p \notin PagesOf(EmptyMap)
  /\ NoReservation.open = FALSE /\ NoReservation.tokens = 0
  /\ NoReservation.fresh = {} /\ NoReservation.prior = EmptyMap
<1>1. EmptyMap \in PageMap
  BY DEF EmptyMap, PageMap
<1>2. \A p \in Pages : p \notin PagesOf(EmptyMap)
  BY InMap, Sizes DEF EmptyMap
<1> QED
  BY <1>1, <1>2 DEF NoReservation, Reservation

(* Settling the slots of S leaves the count of the others. *)
LEMMA SettledCount ==
  ASSUME NEW c \in CacheType, ReservedCounted(c), NEW S \in SUBSET Slots,
         NEW d, d.reserved_pages = c.reserved_pages - ReservedBy(c, S),
         d.reservation = [s \in Slots |-> IF s \in S THEN NoReservation ELSE c.reservation[s]]
  PROVE  ReservedCounted(d)
<1>1. ReservedBy(d, S) = 0
  BY TakenByNone
<1>2. ReservedBy(d, Slots \ S) = ReservedBy(c, Slots \ S)
  BY TakenFrame
<1>3. /\ ReservedBy(d, Slots) = ReservedBy(d, S) + ReservedBy(d, Slots \ S)
      /\ ReservedBy(c, Slots) = ReservedBy(c, S) + ReservedBy(c, Slots \ S)
  BY TakenSplits
<1>4. ReservedBy(c, S) \in Nat /\ ReservedBy(c, Slots \ S) \in Nat
  BY TakenFinite
<1> QED
  BY <1>1, <1>2, <1>3, <1>4 DEF ReservedCounted

(* Fewer tokens of a reservation are still backed by the pages it took.    *)
LEMMA ShortenSound ==
  ASSUME NEW c, Sound(c), NEW s \in Slots, NEW n \in Nat, ShortenOK(c, s, n)
  PROVE  Sound(Shorten(c, s, n))
<1> DEFINE d == Shorten(c, s, n)
           record == [c.reservation[s] EXCEPT !.tokens = n]
<1>1. /\ c \in CacheType /\ c.reservation \in [Slots -> Reservation]
      /\ c.reservation[s] \in Reservation
      /\ c.reservation[s].tokens \in Nat /\ c.kv_length[s] \in Nat
  BY Typed DEF Sound, CacheType
<1>2. record \in Reservation
  BY <1>1 DEF Reservation
<1>3. /\ d.page_table = c.page_table /\ d.kv_length = c.kv_length
      /\ d.slot_generation = c.slot_generation /\ d.slot_prefix = c.slot_prefix
      /\ d.ref_count = c.ref_count /\ d.free = c.free
      /\ d.reserved_pages = c.reserved_pages
      /\ d.prefix = c.prefix /\ d.older = c.older
      /\ d.reservation = [c.reservation EXCEPT ![s] = record]
      /\ d \in CacheType
  BY <1>1, <1>2, PutExcept DEF Shorten, CacheType
<1> HIDE DEF d
<1>4. /\ \A t \in Slots : t # s => d.reservation[t] = c.reservation[t]
      /\ d.reservation[s].open /\ d.reservation[s].tokens = n
      /\ d.reservation[s].fresh = c.reservation[s].fresh
      /\ d.reservation[s].prior = c.reservation[s].prior
  BY <1>1, <1>3 DEF Reservation, ShortenOK, Open
<1>5. \A t \in Slots : Extent(d, t) \in Nat /\ Extent(d, t) <= Extent(c, t)
  BY <1>1, <1>3, <1>4, Typed DEF ShortenOK, Extent
<1>6. c.kv_length[s] > 0
  BY DEF ShortenOK
<1>7. \A t \in Slots : /\ d.reservation[t].fresh = c.reservation[t].fresh
                       /\ d.reservation[t].prior = c.reservation[t].prior
                       /\ Open(d, t) <=> Open(c, t)
  BY <1>4 DEF ShortenOK, Open
<1>8. Counted(d)
  BY <1>3, <1>7 DEF Sound, Counted, Held, SlotsOn, PrefixesOn, SourcesOn, LiveKeys
<1>9. SlotsBacked(d)
  <2>1. ASSUME NEW t \in Slots
        PROVE  Backs(d.page_table[t], Extent(d, t))
    <3>1. Backs(c.page_table[t], Extent(c, t)) /\ Extent(c, t) \in Nat
      BY <1>1, Typed DEF Sound, SlotsBacked
    <3>2. \A l \in Logical : Start(l) \in Nat
      BY Starts, Sizes
    <3> QED
      BY <1>3, <1>5, <3>1, <3>2, Sizes DEF Backs
  <2> QED
    BY <2>1 DEF SlotsBacked
<1>10. AppendsPrivate(d) /\ GraftsCounted(d) /\ PrefixesWhole(d) /\ RecencyOrders(d)
  BY <1>3 DEF Sound, AppendsPrivate, GraftsCounted, Grafted, PrefixesWhole, RecencyOrders,
              LiveKeys
<1>11. ReservationsExplained(d)
  <2>1. \A t \in Slots : t # s =>
          /\ ~Open(d, t) => d.reservation[t] = NoReservation
          /\ FreshExplained(d, t, d.reservation[t])
          /\ SourcesKept(d, t, d.reservation[t])
    BY <1>3, <1>4, <1>7 DEF Sound, ReservationsExplained, FreshExplained, SourcesKept, Extent
  <2>2. Open(d, s) /\ FreshExplained(d, s, d.reservation[s])
    BY <1>3, <1>4, <1>6 DEF Sound, ReservationsExplained, FreshExplained, Open
  <2>3. SourcesKept(d, s, d.reservation[s])
    BY <1>3, <1>4 DEF Sound, ReservationsExplained, SourcesKept
  <2> QED
    BY <2>1, <2>2, <2>3 DEF ReservationsExplained
<1>12. ReservedCounted(d)
  <2>1. ReservedBy(d, Slots) = ReservedBy(c, Slots)
    <3>1. \A t \in Slots : d.reservation[t].fresh = c.reservation[t].fresh
      BY <1>7
    <3> QED
      BY <3>1, TakenFrame
  <2> QED
    BY <1>3, <2>1 DEF Sound, ReservedCounted
<1> QED
  BY <1>3, <1>8, <1>9, <1>10, <1>11, <1>12 DEF Sound, d

(* A commit of any set of slots keeps the cache sound: the sources lose    *)
(* their holder, the fresh pages keep theirs.                              *)
LEMMA CommitSound ==
  ASSUME NEW c, Sound(c), NEW S \in SUBSET Slots
  PROVE  Sound(Commit(c, S))
<1> DEFINE maps == [s \in S |-> c.reservation[s].prior]
           r == ReleaseMaps(c, S, maps)
           d == Commit(c, S)
           D(p) == {s \in S : p \in PagesOf(c.reservation[s].prior)}
<1> USE DEF Sound
<1>1. c \in CacheType /\ IsFiniteSet(S) /\ c.free = {p \in Pages : c.ref_count[p] = 0}
  BY Sizes, Subsets DEF Counted
<1>2. \A p \in Pages : Drops(S, maps, p) = Cardinality(D(p))
  <2> TAKE p \in Pages
  <2>1. {i \in S : p \in PagesOf(maps[i])} = D(p)
    OBVIOUS
  <2> QED
    BY <2>1 DEF Drops
<1>3. MapsReleased(c, r, S, maps)
  BY <1>1, ReleaseEffect
<1>4. /\ d.page_table = c.page_table /\ d.ref_count = r.ref_count /\ d.free = r.free
      /\ d.slot_generation = c.slot_generation /\ d.slot_prefix = c.slot_prefix
      /\ d.prefix = c.prefix /\ d.older = c.older
      /\ d.kv_length = [s \in Slots |->
           IF s \in S THEN c.kv_length[s] + c.reservation[s].tokens ELSE c.kv_length[s]]
      /\ d.reserved_pages = c.reserved_pages - ReservedBy(c, S)
      /\ d.reservation = [s \in Slots |->
           IF s \in S THEN NoReservation ELSE c.reservation[s]]
  BY <1>1, CommitFields
<1> HIDE DEF r, d
<1>5. d \in CacheType
  <2>1. d.ref_count \in [Pages -> Nat] /\ d.free \in SUBSET Pages
    BY <1>3, <1>4 DEF CacheType, MapsReleased
  <2>2. d.kv_length \in [Slots -> Nat]
    BY <1>4, Typed
  <2>3. d.reservation \in [Slots -> Reservation]
    BY <1>4, Typed, NothingReserved
  <2>4. d.reserved_pages \in Int
    BY <1>1, <1>4, Typed, TakenFinite
  <2> QED
    BY <1>1, <2>1, <2>2, <2>3, <2>4, CommitTyped DEF d
<1>6. \A p \in Pages : /\ D(p) \in SUBSET SourcesOn(c, p)
                       /\ SourcesOn(d, p) = SourcesOn(c, p) \ D(p)
                       /\ SlotsOn(d, p) = SlotsOn(c, p) /\ PrefixesOn(d, p) = PrefixesOn(c, p)
  BY <1>4, NothingReserved DEF SourcesOn, SlotsOn, PrefixesOn, LiveKeys
<1>7. \A p \in Pages : /\ d.ref_count[p] = Held(d, p)
                       /\ d.ref_count[p] <= c.ref_count[p]
  <2> TAKE p \in Pages
  <2>1. /\ Cardinality(SourcesOn(c, p) \ D(p)) = Cardinality(SourcesOn(c, p)) - Cardinality(D(p))
        /\ Cardinality(D(p)) <= Cardinality(SourcesOn(c, p))
        /\ Cardinality(D(p)) \in Nat
    <3>1. D(p) \in SUBSET SourcesOn(c, p) /\ IsFiniteSet(SourcesOn(c, p))
      BY <1>6, HoldersFinite
    <3> HIDE DEF D
    <3> QED
      BY <3>1, Minus, Subsets
  <2>2. c.ref_count[p] = Held(c, p)
    BY DEF Counted
  <2>3. Cardinality(D(p)) <= c.ref_count[p]
    BY <2>1, <2>2, HoldersFinite DEF Held
  <2>4. d.ref_count[p] = c.ref_count[p] - Cardinality(D(p))
    BY <1>2, <1>3, <1>4, <2>3 DEF MapsReleased
  <2>5. SourcesOn(d, p) = SourcesOn(c, p) \ D(p)
        /\ SlotsOn(d, p) = SlotsOn(c, p) /\ PrefixesOn(d, p) = PrefixesOn(c, p)
    BY <1>6
  <2> HIDE DEF D
  <2> QED
    BY <2>1, <2>2, <2>4, <2>5, HoldersFinite DEF Held
<1> HIDE DEF D, maps
<1>8. Counted(d)
  BY <1>3, <1>4, <1>7 DEF Counted, MapsReleased
<1>9. \A s \in Slots : Extent(d, s) = Extent(c, s) /\ d.kv_length[s] >= c.kv_length[s]
  BY <1>4, Typed, NothingReserved DEF Extent
<1>10. SlotsBacked(d)
  BY <1>4, <1>9 DEF SlotsBacked
<1>11. AppendsPrivate(d)
  <2> SUFFICES ASSUME NEW s \in Slots, NEW l \in Logical, d.page_table[s][l] # Unmapped,
                      Start(l) + PageTokens > d.kv_length[s]
               PROVE  d.ref_count[d.page_table[s][l]] = 1
    BY DEF AppendsPrivate
  <2>1. c.ref_count[c.page_table[s][l]] = 1
    <3>1. Start(l) \in Nat /\ c.kv_length[s] \in Nat /\ d.kv_length[s] \in Nat
      BY <1>5, Starts, Typed, Sizes
    <3> QED
      BY <1>4, <1>9, <3>1, Sizes DEF AppendsPrivate
  <2>2. PICK p \in Pages : p = d.page_table[s][l]
    BY <1>5, Typed DEF PageMap
  <2>3. SlotsOn(d, p) # {}
    BY <2>2, InMap DEF SlotsOn
  <2>4. d.ref_count[p] # 0
    BY <1>5, <1>8, <2>3, Unheld
  <2>5. d.ref_count[p] \in Nat /\ d.ref_count[p] <= 1
    BY <1>4, <1>5, <1>7, <2>1, <2>2, Typed
  <2> QED
    BY <2>2, <2>4, <2>5
<1>12. GraftsCounted(d)
  BY <1>4, <1>9, <1>5, Typed DEF GraftsCounted, Grafted, LiveKeys
<1>13. PrefixesWhole(d) /\ RecencyOrders(d)
  BY <1>4 DEF PrefixesWhole, RecencyOrders, LiveKeys
<1>14. ReservationsExplained(d)
  <2> SUFFICES ASSUME NEW s \in Slots
               PROVE  /\ ~Open(d, s) => d.reservation[s] = NoReservation
                      /\ FreshExplained(d, s, d.reservation[s])
                      /\ SourcesKept(d, s, d.reservation[s])
    BY DEF ReservationsExplained
  <2>1. CASE s \in S
    <3>1. d.reservation[s] = NoReservation /\ Extent(d, s) = d.kv_length[s]
      BY <1>4, <1>5, <2>1, Typed, NothingReserved DEF Extent
    <3>2. FreshExplained(d, s, d.reservation[s])
      <4>1. ASSUME d.kv_length[s] = 0, NEW l \in Logical
            PROVE  d.page_table[s][l] = Unmapped
        <5>1. c.kv_length[s] = 0 /\ Extent(c, s) = 0
          BY <1>1, <1>4, <2>1, <4>1, Typed DEF Extent
        <5>2. ~(Start(l) < 0)
          BY Starts, Sizes
        <5> QED
          BY <1>4, <5>1, <5>2 DEF ReservationsExplained, FreshExplained
      <4> QED
        BY <3>1, <4>1, NothingReserved DEF FreshExplained
    <3>3. SourcesKept(d, s, d.reservation[s])
      BY <3>1, NothingReserved DEF SourcesKept, EmptyMap, Distinct
    <3> QED
      BY <3>1, <3>2, <3>3
  <2>2. CASE s \notin S
    BY <1>4, <1>9, <2>2 DEF ReservationsExplained, FreshExplained, SourcesKept, Open
  <2> QED
    BY <2>1, <2>2
<1>15. ReservedCounted(d)
  BY <1>4, SettledCount
<1> QED
  BY <1>5, <1>8, <1>10, <1>11, <1>12, <1>13, <1>14, <1>15 DEF d

(* A reservation committed at once keeps the cache sound. *)
LEMMA AppendSound ==
  ASSUME NEW c, Sound(c), NEW s \in Slots, NEW n \in Nat, AppendOK(c, s, n)
  PROVE  Sound(AppendTokens(c, s, n))
BY ReserveSound, CommitSound DEF AppendOK, AppendTokens

-----------------------------------------------------------------------------
(* vx_paged_kv_rollback_batch: a fresh page loses its slot, a source       *)
(* becomes the slot's page again.                                          *)

(* A rollback, field by field. *)
LEMMA RollbackFields ==
  ASSUME NEW c \in CacheType, NEW S \in SUBSET Slots
  PROVE  LET d == Rollback(c, S)
             r == ReleaseMaps(c, S, [s \in S |-> FreshMap(c, s)])
         IN  /\ d.ref_count = r.ref_count /\ d.free = r.free /\ d.kv_length = c.kv_length
             /\ d.slot_generation = c.slot_generation /\ d.slot_prefix = c.slot_prefix
             /\ d.prefix = c.prefix /\ d.older = c.older
             /\ d.page_table = [s \in Slots |->
                  IF s \in S THEN RestoredMap(c, s) ELSE c.page_table[s]]
             /\ d.reserved_pages = c.reserved_pages - ReservedBy(c, S)
             /\ d.reservation = [s \in Slots |->
                  IF s \in S THEN NoReservation ELSE c.reservation[s]]
BY DEF Rollback, ReleaseMaps, CacheType

(* A rollback with well-typed fields is a well-typed cache. *)
LEMMA RollbackTyped ==
  ASSUME NEW c \in CacheType, NEW S \in SUBSET Slots,
         NEW d, d = Rollback(c, S),
         d.ref_count \in [Pages -> Nat], d.free \in SUBSET Pages,
         d.page_table \in [Slots -> PageMap], d.reserved_pages \in Int,
         d.reservation \in [Slots -> Reservation]
  PROVE  d \in CacheType
BY DEF Rollback, ReleaseMaps, CacheType

(* What a restored map holds. *)
LEMMA Restored ==
  ASSUME NEW c, Sound(c), NEW s \in Slots
  PROVE  /\ RestoredMap(c, s) \in PageMap
         /\ Backs(RestoredMap(c, s), c.kv_length[s])
         /\ c.kv_length[s] = 0 => \A l \in Logical : RestoredMap(c, s)[l] = Unmapped
         /\ \A l \in Logical :
              RestoredMap(c, s)[l] # Unmapped /\ Start(l) + PageTokens > c.kv_length[s]
                => RestoredMap(c, s)[l] = c.page_table[s][l]
         /\ \A p \in Pages : p \in PagesOf(RestoredMap(c, s)) <=>
              \/ p \in PagesOf(c.page_table[s]) /\ p \notin PagesOf(FreshMap(c, s))
              \/ p \in PagesOf(c.reservation[s].prior)
         /\ \A p \in Pages : p \in PagesOf(FreshMap(c, s)) => p \in PagesOf(c.page_table[s])
         /\ \A p \in Pages : p \in PagesOf(c.reservation[s].prior) =>
                               p \notin PagesOf(c.page_table[s])
<1> DEFINE m == RestoredMap(c, s)
           table == c.page_table[s]
           prior == c.reservation[s].prior
           fresh == c.reservation[s].fresh
           kv == c.kv_length[s]
<1>1. /\ table \in PageMap /\ prior \in PageMap /\ fresh \in SUBSET Logical
      /\ kv \in Nat /\ Extent(c, s) \in Nat /\ kv <= Extent(c, s)
  BY Typed DEF Sound, Extent
<1>2. /\ Distinct(table) /\ Extent(c, s) <= SlotTokenCapacity
      /\ \A l \in Logical : Start(l) < Extent(c, s) => table[l] # Unmapped
  BY DEF Sound, SlotsBacked, Backs
<1>3. /\ kv = 0 => \A l \in Logical : table[l] # Unmapped => l \in fresh
      /\ \A l \in fresh : prior[l] = Unmapped => kv <= Start(l)
  BY DEF Sound, ReservationsExplained, FreshExplained
<1>4. /\ Distinct(prior)
      /\ \A l \in Logical : prior[l] # Unmapped =>
           /\ l \in fresh /\ Start(l) + PageTokens <= kv
           /\ prior[l] \notin PagesOf(table)
  BY DEF Sound, ReservationsExplained, SourcesKept
<1>5. m = [l \in Logical |-> IF l \in fresh THEN prior[l] ELSE table[l]]
  BY DEF RestoredMap
<1>6. FreshMap(c, s) = [l \in Logical |-> IF l \in fresh THEN table[l] ELSE Unmapped]
  BY DEF FreshMap
<1> HIDE DEF m, table, prior, fresh, kv
<1>7. m \in PageMap
  BY <1>1, <1>5 DEF PageMap
<1>8. \A l \in Logical : table[l] # Unmapped => table[l] \in PagesOf(table)
  BY DEF PagesOf
<1>9. Distinct(m)
  BY <1>2, <1>4, <1>5, <1>8 DEF Distinct
<1>10. \A l \in Logical : Start(l) \in Nat
  BY Starts, Sizes
<1>11. ASSUME NEW l \in Logical
       PROVE  /\ Start(l) < kv => m[l] # Unmapped
              /\ kv = 0 => m[l] = Unmapped
  <2>1. CASE l \in fresh
    <3>1. CASE prior[l] = Unmapped
      BY <1>1, <1>3, <1>5, <1>10, <2>1, <3>1
    <3>2. CASE prior[l] # Unmapped
      BY <1>1, <1>4, <1>5, <1>10, <2>1, <3>2, Sizes
    <3> QED
      BY <3>1, <3>2
  <2>2. CASE l \notin fresh
    BY <1>1, <1>2, <1>3, <1>5, <1>10, <2>2
  <2> QED
    BY <2>1, <2>2
<1>12. Backs(m, kv)
  BY <1>1, <1>2, <1>9, <1>11, Sizes DEF Backs
<1>13. \A l \in Logical : m[l] # Unmapped /\ Start(l) + PageTokens > kv => m[l] = table[l]
  BY <1>1, <1>4, <1>5, <1>10, Sizes
<1>14. ASSUME NEW p \in Pages
       PROVE  /\ p \in PagesOf(m) <=> \/ p \in PagesOf(table) /\ p \notin PagesOf(FreshMap(c, s))
                                      \/ p \in PagesOf(prior)
              /\ p \in PagesOf(FreshMap(c, s)) => p \in PagesOf(table)
              /\ p \in PagesOf(prior) => p \notin PagesOf(table)
  <2>0. p # Unmapped
    BY Sizes
  <2>1. p \in PagesOf(FreshMap(c, s)) <=> \E l \in fresh : table[l] = p
    BY <1>1, <1>6, <2>0, InMap
  <2>2. p \in PagesOf(prior) <=> \E l \in fresh : prior[l] = p
    BY <1>1, <1>4, <2>0, InMap
  <2>3. p \in PagesOf(table) <=> \E l \in Logical : table[l] = p
    BY InMap
  <2>4. p \in PagesOf(m) <=> \/ \E l \in Logical \ fresh : table[l] = p
                             \/ \E l \in fresh : prior[l] = p
    BY <1>1, <1>5, InMap
  <2>5. (\E l \in Logical \ fresh : table[l] = p) <=>
           (\E l \in Logical : table[l] = p) /\ ~(\E l \in fresh : table[l] = p)
    BY <1>1, <1>2, <2>0 DEF Distinct
  <2>6. p \in PagesOf(FreshMap(c, s)) => p \in PagesOf(table)
    BY <1>1, <2>1, <2>3
  <2>7. p \in PagesOf(prior) => p \notin PagesOf(table)
    BY <1>1, <1>4, <2>0, <2>2
  <2> QED
    BY <2>1, <2>2, <2>3, <2>4, <2>5, <2>6, <2>7
<1> QED
  BY <1>7, <1>11, <1>12, <1>13, <1>14 DEF m, table, prior, kv

(* A rollback of any set of slots keeps the cache sound: every slot maps   *)
(* again what it mapped before its reservation.                            *)
LEMMA RollbackSound ==
  ASSUME NEW c, Sound(c), NEW S \in SUBSET Slots
  PROVE  Sound(Rollback(c, S))
<1> DEFINE maps == [s \in S |-> FreshMap(c, s)]
           r == ReleaseMaps(c, S, maps)
           d == Rollback(c, S)
           D(p) == {s \in S : p \in PagesOf(FreshMap(c, s))}
           E(p) == {s \in S : p \in PagesOf(c.reservation[s].prior)}
<1>1. c \in CacheType /\ IsFiniteSet(S) /\ c.free = {p \in Pages : c.ref_count[p] = 0}
  BY Sizes, Subsets DEF Sound, Counted
<1>2. \A p \in Pages : Drops(S, maps, p) = Cardinality(D(p))
  <2> TAKE p \in Pages
  <2>1. {i \in S : p \in PagesOf(maps[i])} = D(p)
    OBVIOUS
  <2> QED
    BY <2>1 DEF Drops
<1>3. MapsReleased(c, r, S, maps)
  BY <1>1, ReleaseEffect
<1>4. /\ d.ref_count = r.ref_count /\ d.free = r.free /\ d.kv_length = c.kv_length
      /\ d.slot_generation = c.slot_generation /\ d.slot_prefix = c.slot_prefix
      /\ d.prefix = c.prefix /\ d.older = c.older
      /\ d.page_table = [s \in Slots |->
           IF s \in S THEN RestoredMap(c, s) ELSE c.page_table[s]]
      /\ d.reserved_pages = c.reserved_pages - ReservedBy(c, S)
      /\ d.reservation = [s \in Slots |->
           IF s \in S THEN NoReservation ELSE c.reservation[s]]
  BY <1>1, RollbackFields
<1> HIDE DEF r, d
<1>5. d \in CacheType
  <2>1. d.ref_count \in [Pages -> Nat] /\ d.free \in SUBSET Pages
    BY <1>3, <1>4 DEF CacheType, MapsReleased
  <2>2. d.page_table \in [Slots -> PageMap]
    BY <1>1, <1>4, Typed, Restored
  <2>3. d.reservation \in [Slots -> Reservation]
    BY <1>1, <1>4, Typed, NothingReserved
  <2>4. d.reserved_pages \in Int
    BY <1>1, <1>4, Typed, TakenFinite
  <2> QED
    BY <1>1, <2>1, <2>2, <2>3, <2>4, RollbackTyped DEF d
<1>6. \A p \in Pages : /\ D(p) \in SUBSET SlotsOn(c, p) /\ E(p) \in SUBSET SourcesOn(c, p)
                       /\ (SlotsOn(c, p) \ D(p)) \cap E(p) = {}
                       /\ SourcesOn(d, p) = SourcesOn(c, p) \ E(p)
                       /\ SlotsOn(d, p) = (SlotsOn(c, p) \ D(p)) \cup E(p)
                       /\ PrefixesOn(d, p) = PrefixesOn(c, p)
  <2> TAKE p \in Pages
  <2>1. /\ D(p) \in SUBSET SlotsOn(c, p) /\ E(p) \in SUBSET SourcesOn(c, p)
        /\ (SlotsOn(c, p) \ D(p)) \cap E(p) = {}
    BY Restored DEF SlotsOn, SourcesOn
  <2>2. SourcesOn(d, p) = SourcesOn(c, p) \ E(p)
    BY <1>4, NothingReserved DEF SourcesOn
  <2>3. PrefixesOn(d, p) = PrefixesOn(c, p)
    BY <1>4 DEF PrefixesOn, LiveKeys
  <2>4. \A s \in Slots : p \in PagesOf(d.page_table[s]) <=>
          IF s \in S THEN \/ p \in PagesOf(c.page_table[s]) /\ p \notin PagesOf(FreshMap(c, s))
                          \/ p \in PagesOf(c.reservation[s].prior)
                     ELSE p \in PagesOf(c.page_table[s])
    BY <1>4, Restored
  <2>5. SlotsOn(d, p) = (SlotsOn(c, p) \ D(p)) \cup E(p)
    BY <2>4 DEF SlotsOn
  <2> QED
    BY <2>1, <2>2, <2>3, <2>5
<1> HIDE DEF D, E
<1>7. \A p \in Pages : /\ d.ref_count[p] = Held(d, p)
                       /\ d.ref_count[p] <= c.ref_count[p]
  <2> TAKE p \in Pages
  <2>1. /\ Cardinality(SourcesOn(c, p) \ E(p)) = Cardinality(SourcesOn(c, p)) - Cardinality(E(p))
        /\ Cardinality(E(p)) \in Nat /\ IsFiniteSet(E(p))
    BY <1>6, HoldersFinite, Minus, Subsets
  <2>2. /\ Cardinality(SlotsOn(c, p) \ D(p)) = Cardinality(SlotsOn(c, p)) - Cardinality(D(p))
        /\ Cardinality(D(p)) <= Cardinality(SlotsOn(c, p))
        /\ Cardinality(D(p)) \in Nat /\ IsFiniteSet(SlotsOn(c, p) \ D(p))
    <3>1. SlotsOn(c, p) \ D(p) \in SUBSET SlotsOn(c, p)
      OBVIOUS
    <3> QED
      BY <1>6, <3>1, HoldersFinite, Minus, Subsets
  <2>3. Cardinality((SlotsOn(c, p) \ D(p)) \cup E(p))
          = Cardinality(SlotsOn(c, p)) - Cardinality(D(p)) + Cardinality(E(p))
    BY <1>6, <2>1, <2>2, Plus
  <2>4. c.ref_count[p] = Held(c, p)
    BY DEF Sound, Counted
  <2>5. Cardinality(D(p)) <= c.ref_count[p]
    BY <2>2, <2>4, HoldersFinite DEF Held
  <2>6. d.ref_count[p] = c.ref_count[p] - Cardinality(D(p))
    BY <1>2, <1>3, <1>4, <2>5 DEF MapsReleased
  <2>7. /\ SourcesOn(d, p) = SourcesOn(c, p) \ E(p)
        /\ SlotsOn(d, p) = (SlotsOn(c, p) \ D(p)) \cup E(p)
        /\ PrefixesOn(d, p) = PrefixesOn(c, p)
    BY <1>6
  <2> QED
    BY <2>1, <2>2, <2>3, <2>4, <2>6, <2>7, HoldersFinite DEF Held
<1> HIDE DEF maps
<1>8. Counted(d)
  BY <1>3, <1>4, <1>7 DEF Counted, MapsReleased
<1>9. \A s \in Slots : Extent(d, s) = IF s \in S THEN c.kv_length[s] ELSE Extent(c, s)
  BY <1>1, <1>4, Typed, NothingReserved DEF Extent
<1>10. SlotsBacked(d)
  BY <1>4, <1>9, Restored DEF SlotsBacked, Sound
<1>11. AppendsPrivate(d)
  <2> SUFFICES ASSUME NEW s \in Slots, NEW l \in Logical, d.page_table[s][l] # Unmapped,
                      Start(l) + PageTokens > d.kv_length[s]
               PROVE  d.ref_count[d.page_table[s][l]] = 1
    BY DEF AppendsPrivate
  <2>1. d.page_table[s][l] = c.page_table[s][l]
    BY <1>4, Restored
  <2>2. c.ref_count[c.page_table[s][l]] = 1
    BY <1>4, <2>1 DEF AppendsPrivate, Sound
  <2>3. PICK p \in Pages : p = d.page_table[s][l]
    BY <1>5, Typed DEF PageMap
  <2>4. SlotsOn(d, p) # {}
    BY <2>3, InMap DEF SlotsOn
  <2>5. d.ref_count[p] # 0
    BY <1>5, <1>8, <2>4, Unheld
  <2>6. d.ref_count[p] \in Nat /\ d.ref_count[p] <= 1
    BY <1>5, <1>7, <2>1, <2>2, <2>3, Typed
  <2> QED
    BY <2>3, <2>5, <2>6
<1>12. GraftsCounted(d)
  BY <1>4 DEF GraftsCounted, Grafted, LiveKeys, Sound
<1>13. PrefixesWhole(d) /\ RecencyOrders(d)
  BY <1>4 DEF PrefixesWhole, RecencyOrders, LiveKeys, Sound
<1>14. ReservationsExplained(d)
  <2> SUFFICES ASSUME NEW s \in Slots
               PROVE  /\ ~Open(d, s) => d.reservation[s] = NoReservation
                      /\ FreshExplained(d, s, d.reservation[s])
                      /\ SourcesKept(d, s, d.reservation[s])
    BY DEF ReservationsExplained
  <2>1. CASE s \in S
    <3>1. d.reservation[s] = NoReservation /\ Extent(d, s) = d.kv_length[s]
      BY <1>4, <1>9, <2>1
    <3>2. FreshExplained(d, s, d.reservation[s])
      <4>1. d.kv_length[s] = 0 => \A l \in Logical : d.page_table[s][l] = Unmapped
        BY <1>4, <2>1, Restored
      <4> QED
        BY <3>1, <4>1, NothingReserved DEF FreshExplained
    <3>3. SourcesKept(d, s, d.reservation[s])
      BY <3>1, NothingReserved DEF SourcesKept, EmptyMap, Distinct
    <3> QED
      BY <3>1, <3>2, <3>3
  <2>2. CASE s \notin S
    BY <1>4, <1>9, <2>2 DEF ReservationsExplained, FreshExplained, SourcesKept, Open, Sound
  <2> QED
    BY <2>1, <2>2
<1>15. ReservedCounted(d)
  BY <1>1, <1>4, SettledCount DEF Sound
<1> QED
  BY <1>5, <1>8, <1>10, <1>11, <1>12, <1>13, <1>14, <1>15 DEF d, Sound

-----------------------------------------------------------------------------
(* vx_paged_kv_release_slot.                                               *)

(* The release of a slot, field by field. *)
LEMMA ReleaseSlotFields ==
  ASSUME NEW c \in CacheType, NEW s \in Slots
  PROVE  LET d == ReleaseSlot(c, s)
             r == ReleaseMaps(c, {s}, c.page_table)
         IN  /\ d.ref_count = r.ref_count /\ d.free = r.free
             /\ d.reservation = c.reservation /\ d.reserved_pages = c.reserved_pages
             /\ d.older = c.older /\ d.prefix = DropPrefix(c, s)
             /\ d.slot_prefix = [c.slot_prefix EXCEPT ![s] = NoKey]
             /\ d.page_table = [c.page_table EXCEPT ![s] = EmptyMap]
             /\ d.kv_length = [c.kv_length EXCEPT ![s] = 0]
             /\ d.slot_generation =
                  [c.slot_generation EXCEPT ![s] = NextGeneration(c.slot_generation[s])]
BY PutExcept DEF ReleaseSlot, ReleaseMaps, CacheType

(* The release of a slot with well-typed fields is a well-typed cache. *)
LEMMA ReleaseSlotTyped ==
  ASSUME NEW c \in CacheType, NEW s \in Slots,
         NEW d, d = ReleaseSlot(c, s),
         d.ref_count \in [Pages -> Nat], d.free \in SUBSET Pages,
         d.prefix \in [Keys -> Prefix], d.page_table \in [Slots -> PageMap],
         d.slot_prefix \in [Slots -> Keys \cup {NoKey}],
         d.kv_length \in [Slots -> Nat], d.slot_generation \in [Slots -> 0 .. MaxGeneration]
  PROVE  d \in CacheType
BY DEF ReleaseSlot, ReleaseMaps, CacheType

(* Generations wrap inside their range, and the next one differs. *)
LEMMA NextGenerationTyped ==
  ASSUME NEW g \in 0 .. MaxGeneration
  PROVE  /\ NextGeneration(g) \in 0 .. MaxGeneration
         /\ MaxGeneration > 0 => NextGeneration(g) # g
BY Sizes DEF NextGeneration

(* A slot without tokens and without a reservation. *)
LEMMA EmptySlot ==
  /\ \A l \in Logical : EmptyMap[l] = Unmapped
  /\ Backs(EmptyMap, 0)
<1>1. \A l \in Logical : EmptyMap[l] = Unmapped /\ ~(Start(l) < 0)
  BY Starts, Sizes DEF EmptyMap
<1> QED
  BY <1>1, Sizes DEF Backs, Distinct

(* A map that has a page for its tokens and no other backs those tokens.   *)
LEMMA CoversBacks ==
  ASSUME NEW m, NEW n, Covers(m, n)
  PROVE  Backs(m, n)
BY DEF Covers, Backs

(* A slot without tokens that holds no reservation maps no page: nothing   *)
(* stays mapped ahead of it.                                               *)
LEMMA EmptySlotMap ==
  ASSUME NEW c, Sound(c), NEW s \in Slots, ~Open(c, s), c.kv_length[s] = 0
  PROVE  c.page_table[s] = EmptyMap
<1>1. c.page_table[s] \in PageMap /\ c.reservation[s].fresh = {}
  BY Typed, Closed DEF Sound
<1>2. \A l \in Logical : c.page_table[s][l] = Unmapped
  BY <1>1 DEF Sound, ReservationsExplained, FreshExplained
<1> QED
  BY <1>1, <1>2 DEF PageMap, EmptyMap

(* What the graft of slot s was worth to its prefix. *)
LEMMA DroppedPrefix ==
  ASSUME NEW c \in CacheType, GraftsCounted(c), NEW s \in Slots
  PROVE  /\ DropPrefix(c, s) \in [Keys -> Prefix]
         /\ \A k \in Keys :
              /\ DropPrefix(c, s)[k].live = c.prefix[k].live
              /\ DropPrefix(c, s)[k].tokens = c.prefix[k].tokens
              /\ DropPrefix(c, s)[k].pages = c.prefix[k].pages
              /\ DropPrefix(c, s)[k].slot_references = Cardinality(Grafted(c, k) \ {s})
<1>1. \A k \in Keys : /\ IsFiniteSet(Grafted(c, k)) /\ Cardinality(Grafted(c, k)) \in Nat
                      /\ c.prefix[k].slot_references = Cardinality(Grafted(c, k))
  <2> TAKE k \in Keys
  <2>1. Grafted(c, k) \in SUBSET Slots
    BY DEF Grafted
  <2> QED
    BY <2>1, Sizes, Subsets DEF GraftsCounted
<1>2. \A k \in Keys : s \in Grafted(c, k) <=> c.slot_prefix[s] = k
  BY DEF Grafted
<1>3. \A k \in Keys : Cardinality(Grafted(c, k) \ {s}) =
         IF c.slot_prefix[s] = k THEN c.prefix[k].slot_references - 1
                                 ELSE c.prefix[k].slot_references
  BY <1>1, <1>2, FS_RemoveElement
<1>4. c.slot_prefix[s] \in Keys => c.slot_prefix[s] \in LiveKeys(c)
  BY Sizes DEF GraftsCounted
<1>5. CASE c.slot_prefix[s] \in LiveKeys(c)
  <2> DEFINE k == c.slot_prefix[s]
  <2>1. DropPrefix(c, s) = [c.prefix EXCEPT ![k].slot_references = @ - 1]
    BY <1>5, PutExcept DEF DropPrefix
  <2>2. k \in Keys
    BY <1>5 DEF LiveKeys
  <2>3. /\ c.prefix \in [Keys -> Prefix] /\ c.prefix[k] \in Prefix
        /\ c.prefix[k].slot_references - 1 \in Int
    BY <2>2, Typed DEF CacheType
  <2> HIDE DEF k
  <2>4. DropPrefix(c, s)[k] = [c.prefix[k] EXCEPT !.slot_references = @ - 1]
    BY <2>1, <2>2, <2>3
  <2>5. \A j \in Keys : j # k => DropPrefix(c, s)[j] = c.prefix[j]
    BY <2>1, <2>3
  <2>6. /\ DropPrefix(c, s)[k].live = c.prefix[k].live
        /\ DropPrefix(c, s)[k].tokens = c.prefix[k].tokens
        /\ DropPrefix(c, s)[k].pages = c.prefix[k].pages
        /\ DropPrefix(c, s)[k].slot_references = c.prefix[k].slot_references - 1
        /\ DropPrefix(c, s)[k] \in Prefix
    BY <2>3, <2>4 DEF Prefix
  <2>7. DropPrefix(c, s) \in [Keys -> Prefix]
    BY <2>1, <2>3, <2>5, <2>6
  <2> QED
    BY <1>3, <2>5, <2>6, <2>7 DEF k
<1>6. CASE c.slot_prefix[s] \notin LiveKeys(c)
  BY <1>3, <1>4, <1>6, Typed DEF DropPrefix, CacheType
<1> QED
  BY <1>5, <1>6

(* The release of a slot keeps the cache sound: its pages lose one holder  *)
(* each, its prefix one graft.                                             *)
LEMMA ReleaseSlotSound ==
  ASSUME NEW c, Sound(c), NEW s \in Slots, ReleaseSlotOK(c, s)
  PROVE  Sound(ReleaseSlot(c, s))
<1> DEFINE maps == c.page_table
           r == ReleaseMaps(c, {s}, maps)
           d == ReleaseSlot(c, s)
<1>1. c \in CacheType /\ IsFiniteSet({s}) /\ c.free = {p \in Pages : c.ref_count[p] = 0}
  BY FS_Singleton DEF Sound, Counted
<1>2. MapsReleased(c, r, {s}, maps)
  BY <1>1, ReleaseEffect
<1>3. /\ d.ref_count = r.ref_count /\ d.free = r.free
      /\ d.reservation = c.reservation /\ d.reserved_pages = c.reserved_pages
      /\ d.older = c.older /\ d.prefix = DropPrefix(c, s)
      /\ d.slot_prefix = [c.slot_prefix EXCEPT ![s] = NoKey]
      /\ d.page_table = [c.page_table EXCEPT ![s] = EmptyMap]
      /\ d.kv_length = [c.kv_length EXCEPT ![s] = 0]
      /\ d.slot_generation =
           [c.slot_generation EXCEPT ![s] = NextGeneration(c.slot_generation[s])]
  BY <1>1, ReleaseSlotFields
<1> HIDE DEF r, d
<1>4. /\ d.prefix \in [Keys -> Prefix]
      /\ \A k \in Keys :
           /\ d.prefix[k].live = c.prefix[k].live
           /\ d.prefix[k].tokens = c.prefix[k].tokens
           /\ d.prefix[k].pages = c.prefix[k].pages
           /\ d.prefix[k].slot_references = Cardinality(Grafted(c, k) \ {s})
  <2>1. GraftsCounted(c)
    BY DEF Sound
  <2> QED
    BY <1>1, <1>3, <2>1, DroppedPrefix
<1>5. d \in CacheType
  <2>1. d.ref_count \in [Pages -> Nat] /\ d.free \in SUBSET Pages
    BY <1>2, <1>3 DEF CacheType, MapsReleased
  <2>2. d.page_table \in [Slots -> PageMap]
    BY <1>1, <1>3, NothingReserved DEF CacheType
  <2>3. d.slot_prefix \in [Slots -> Keys \cup {NoKey}] /\ d.kv_length \in [Slots -> Nat]
    BY <1>1, <1>3 DEF CacheType
  <2>4. d.slot_generation \in [Slots -> 0 .. MaxGeneration]
    <3>1. NextGeneration(c.slot_generation[s]) \in 0 .. MaxGeneration
      BY <1>1, Typed, NextGenerationTyped
    <3> QED
      BY <1>1, <1>3, <3>1 DEF CacheType
  <2> QED
    BY <1>1, <1>4, <2>1, <2>2, <2>3, <2>4, ReleaseSlotTyped DEF d
<1>6. /\ c.reservation[s].tokens = 0 /\ c.reservation[s].fresh = {}
      /\ c.reservation[s].prior = EmptyMap /\ ~Open(c, s)
  BY <1>1, Closed DEF Sound, ReleaseSlotOK
<1>7. /\ d.page_table[s] = EmptyMap /\ d.kv_length[s] = 0 /\ d.slot_prefix[s] = NoKey
      /\ \A t \in Slots : t # s => /\ d.page_table[t] = c.page_table[t]
                                   /\ d.kv_length[t] = c.kv_length[t]
                                   /\ d.slot_prefix[t] = c.slot_prefix[t]
                                   /\ Extent(d, t) = Extent(c, t)
      /\ Extent(d, s) = 0
  BY <1>1, <1>3, <1>6 DEF CacheType, Extent
<1>8. LiveKeys(d) = LiveKeys(c)
  BY <1>4 DEF LiveKeys
<1>9. \A p \in Pages : /\ SlotsOn(d, p) = SlotsOn(c, p) \ {s}
                       /\ PrefixesOn(d, p) = PrefixesOn(c, p)
                       /\ SourcesOn(d, p) = SourcesOn(c, p)
  <2> TAKE p \in Pages
  <2>1. SlotsOn(d, p) = SlotsOn(c, p) \ {s}
    BY <1>7, NothingReserved DEF SlotsOn
  <2>2. \A k \in LiveKeys(c) : k \in Keys
    BY DEF LiveKeys
  <2>3. PrefixesOn(d, p) = PrefixesOn(c, p)
    BY <1>4, <1>8, <2>2 DEF PrefixesOn
  <2>4. SourcesOn(d, p) = SourcesOn(c, p)
    BY <1>3 DEF SourcesOn
  <2> QED
    BY <2>1, <2>3, <2>4
<1>10. \A p \in Pages : /\ d.ref_count[p] = Held(d, p)
                       /\ d.ref_count[p] <= c.ref_count[p]
  <2> TAKE p \in Pages
  <2> DEFINE drops == Drops({s}, maps, p)
  <2>1. {i \in {s} : p \in PagesOf(maps[i])} = IF s \in SlotsOn(c, p) THEN {s} ELSE {}
    BY DEF SlotsOn
  <2>2. drops = IF s \in SlotsOn(c, p) THEN 1 ELSE 0
    BY <2>1, FS_Singleton, FS_EmptySet DEF Drops
  <2> HIDE DEF drops
  <2>3. Cardinality(SlotsOn(c, p) \ {s}) = Cardinality(SlotsOn(c, p)) - drops
    <3>1. Cardinality(SlotsOn(c, p) \ {s}) =
            IF s \in SlotsOn(c, p) THEN Cardinality(SlotsOn(c, p)) - 1
                                    ELSE Cardinality(SlotsOn(c, p))
      BY HoldersFinite, FS_RemoveElement
    <3> QED
      BY <2>2, <3>1, HoldersFinite
  <2>4. c.ref_count[p] = Held(c, p)
    BY DEF Sound, Counted
  <2>5. Cardinality(SlotsOn(c, p) \ {s}) \in Nat
    BY <1>9, HoldersFinite
  <2>6. drops <= c.ref_count[p] /\ drops \in Nat
    BY <2>2, <2>3, <2>4, <2>5, HoldersFinite DEF Held
  <2>7. d.ref_count[p] = c.ref_count[p] - drops
    BY <1>2, <1>3, <2>6 DEF MapsReleased, drops
  <2>8. SlotsOn(d, p) = SlotsOn(c, p) \ {s} /\ PrefixesOn(d, p) = PrefixesOn(c, p)
        /\ SourcesOn(d, p) = SourcesOn(c, p)
    BY <1>9
  <2> QED
    BY <2>3, <2>4, <2>6, <2>7, <2>8, HoldersFinite DEF Held
<1>11. Counted(d)
  BY <1>2, <1>3, <1>10 DEF Counted, MapsReleased
<1>12. SlotsBacked(d)
  BY <1>7, EmptySlot DEF SlotsBacked, Sound
<1>13. AppendsPrivate(d)
  <2> SUFFICES ASSUME NEW t \in Slots, NEW l \in Logical, d.page_table[t][l] # Unmapped,
                      Start(l) + PageTokens > d.kv_length[t]
               PROVE  d.ref_count[d.page_table[t][l]] = 1
    BY DEF AppendsPrivate
  <2>1. t # s
    BY <1>7, EmptySlot
  <2>2. c.ref_count[c.page_table[t][l]] = 1
    BY <1>7, <2>1 DEF AppendsPrivate, Sound
  <2>3. PICK p \in Pages : p = d.page_table[t][l]
    BY <1>5, Typed DEF PageMap
  <2>4. SlotsOn(d, p) # {}
    BY <2>3, InMap DEF SlotsOn
  <2>5. d.ref_count[p] # 0
    BY <1>5, <1>11, <2>4, Unheld
  <2>6. d.ref_count[p] \in Nat /\ d.ref_count[p] <= 1
    BY <1>5, <1>7, <1>10, <2>1, <2>2, <2>3, Typed
  <2> QED
    BY <2>3, <2>5, <2>6
<1>14. GraftsCounted(d)
  <2>1. \A k \in Keys : Grafted(d, k) = Grafted(c, k) \ {s}
    BY <1>7, Sizes DEF Grafted
  <2> QED
    BY <1>4, <1>7, <1>8, <2>1 DEF GraftsCounted, Sound
<1>15. PrefixesWhole(d) /\ RecencyOrders(d)
  <2>1. \A k \in LiveKeys(c) : k \in Keys
    BY DEF LiveKeys
  <2>2. PrefixesWhole(d)
    BY <1>4, <1>8, <2>1 DEF PrefixesWhole, Sound
  <2>3. RecencyOrders(d)
    BY <1>3, <1>8 DEF RecencyOrders, Sound
  <2> QED
    BY <2>2, <2>3
<1>16. ReservationsExplained(d)
  <2>1. \A t \in Slots : t # s =>
          /\ ~Open(d, t) => d.reservation[t] = NoReservation
          /\ FreshExplained(d, t, d.reservation[t])
          /\ SourcesKept(d, t, d.reservation[t])
    BY <1>3, <1>7 DEF ReservationsExplained, FreshExplained, SourcesKept, Open, Sound
  <2>2. ~Open(d, s) => d.reservation[s] = NoReservation
    BY <1>3 DEF Sound, ReservationsExplained, Open
  <2>3. FreshExplained(d, s, d.reservation[s])
    BY <1>3, <1>6, <1>7, EmptySlot DEF FreshExplained
  <2>4. SourcesKept(d, s, d.reservation[s])
    BY <1>3, <1>6, EmptySlot DEF SourcesKept, Distinct
  <2> QED
    BY <2>1, <2>2, <2>3, <2>4 DEF ReservationsExplained
<1>17. ReservedCounted(d)
  BY <1>3 DEF ReservedCounted, ReservedBy, Sound
<1> QED
  BY <1>5, <1>11, <1>12, <1>13, <1>14, <1>15, <1>16, <1>17 DEF d, Sound

-----------------------------------------------------------------------------
(* vx_paged_kv_reset.                                                      *)

(* A reset, field by field, over the two releases it makes. *)
LEMMA ResetFields ==
  ASSUME NEW c \in CacheType, NEW q \in CacheType,
         q = ReleaseMaps(ReleaseMaps(c, Slots, c.page_table), LiveKeys(c),
                         [k \in Keys |-> c.prefix[k].pages]),
         q.reservation = c.reservation, q.reserved_pages = c.reserved_pages,
         q.slot_generation = c.slot_generation
  PROVE  LET d == Reset(c)
         IN  /\ d.ref_count = q.ref_count /\ d.free = q.free
             /\ d.reservation = c.reservation /\ d.reserved_pages = c.reserved_pages
             /\ d.older = {} /\ d.prefix = [k \in Keys |-> NoPrefix]
             /\ d.slot_prefix = [s \in Slots |-> NoKey]
             /\ d.page_table = [s \in Slots |-> EmptyMap]
             /\ d.kv_length = [s \in Slots |-> 0]
             /\ d.slot_generation = [s \in Slots |-> NextGeneration(c.slot_generation[s])]
             /\ /\ d.prefix \in [Keys -> Prefix] /\ d.page_table \in [Slots -> PageMap]
                /\ d.slot_generation \in [Slots -> 0 .. MaxGeneration]
                => d \in CacheType
<1> DEFINE d == Reset(c)
           prefix == [k \in Keys |-> NoPrefix]
           slots == [s \in Slots |-> NoKey]
           table == [s \in Slots |-> EmptyMap]
           lengths == [s \in Slots |-> 0]
           generation == [s \in Slots |-> NextGeneration(c.slot_generation[s])]
<1>1. d = [q EXCEPT !.prefix = prefix, !.older = {}, !.slot_prefix = slots,
                    !.page_table = table, !.kv_length = lengths,
                    !.slot_generation = generation]
  BY DEF Reset
<1>2. slots \in [Slots -> Keys \cup {NoKey}] /\ lengths \in [Slots -> Nat]
  OBVIOUS
<1> HIDE DEF d, prefix, slots, table, lengths, generation
<1>3. /\ d.ref_count = q.ref_count /\ d.free = q.free
      /\ d.reservation = q.reservation /\ d.reserved_pages = q.reserved_pages
      /\ d.older = {} /\ d.prefix = prefix /\ d.slot_prefix = slots
      /\ d.page_table = table /\ d.kv_length = lengths /\ d.slot_generation = generation
  BY <1>1 DEF CacheType
<1>4. ASSUME prefix \in [Keys -> Prefix], table \in [Slots -> PageMap],
             generation \in [Slots -> 0 .. MaxGeneration]
      PROVE  d \in CacheType
  BY <1>1, <1>2, <1>4 DEF CacheType
<1> QED
  BY <1>3, <1>4 DEF d, prefix, slots, table, lengths, generation

(* The empty prefix entry. *)
LEMMA NoPrefixTyped ==
  /\ NoPrefix \in Prefix /\ NoPrefix.live = FALSE /\ NoPrefix.slot_references = 0
BY NothingReserved DEF NoPrefix, Prefix

(* A reset leaves a sound cache without holders. *)
LEMMA ResetSound ==
  ASSUME NEW c, Sound(c), ResetOK(c)
  PROVE  Sound(Reset(c))
<1> DEFINE table == c.page_table
           listed == [k \in Keys |-> c.prefix[k].pages]
           r == ReleaseMaps(c, Slots, table)
           q == ReleaseMaps(r, LiveKeys(c), listed)
           d == Reset(c)
<1>1. /\ c \in CacheType /\ IsFiniteSet(Slots) /\ IsFiniteSet(LiveKeys(c))
      /\ c.free = {p \in Pages : c.ref_count[p] = 0}
  <2>1. LiveKeys(c) \in SUBSET Keys
    BY DEF LiveKeys
  <2> QED
    BY <2>1, Sizes, Subsets DEF Sound, Counted
<1>2. MapsReleased(c, r, Slots, table)
  BY <1>1, ReleaseEffect
<1>3. MapsReleased(r, q, LiveKeys(c), listed)
  <2>1. r \in CacheType /\ r.free = {p \in Pages : r.ref_count[p] = 0}
    BY <1>2 DEF MapsReleased
  <2> HIDE DEF r, listed
  <2> QED
    BY <1>1, <2>1, ReleaseEffect
<1>4. /\ q.reservation = c.reservation /\ q.reserved_pages = c.reserved_pages
      /\ q.slot_generation = c.slot_generation
  <2>1. /\ r.reservation = c.reservation /\ r.reserved_pages = c.reserved_pages
        /\ r.slot_generation = c.slot_generation
    BY <1>1 DEF ReleaseMaps, CacheType
  <2>2. r \in CacheType
    BY <1>2 DEF MapsReleased
  <2>3. /\ q.reservation = r.reservation /\ q.reserved_pages = r.reserved_pages
        /\ q.slot_generation = r.slot_generation
    <3> HIDE DEF r, listed
    <3> QED
      BY <2>2 DEF ReleaseMaps, CacheType
  <2> QED
    BY <2>1, <2>3
<1>5. /\ d.ref_count = q.ref_count /\ d.free = q.free
      /\ d.reservation = c.reservation /\ d.reserved_pages = c.reserved_pages
      /\ d.older = {} /\ d.prefix = [k \in Keys |-> NoPrefix]
      /\ d.slot_prefix = [s \in Slots |-> NoKey]
      /\ d.page_table = [s \in Slots |-> EmptyMap]
      /\ d.kv_length = [s \in Slots |-> 0]
      /\ d.slot_generation = [s \in Slots |-> NextGeneration(c.slot_generation[s])]
      /\ /\ d.prefix \in [Keys -> Prefix] /\ d.page_table \in [Slots -> PageMap]
         /\ d.slot_generation \in [Slots -> 0 .. MaxGeneration]
         => d \in CacheType
  <2>1. q \in CacheType
    BY <1>3 DEF MapsReleased
  <2>2. q = ReleaseMaps(ReleaseMaps(c, Slots, c.page_table), LiveKeys(c),
                        [k \in Keys |-> c.prefix[k].pages])
    OBVIOUS
  <2> HIDE DEF q
  <2> QED
    BY <1>1, <1>4, <2>1, <2>2, ResetFields
<1> HIDE DEF r, q, d
<1>6. d \in CacheType
  <2>1. d.slot_generation \in [Slots -> 0 .. MaxGeneration]
    BY <1>1, <1>5, Typed, NextGenerationTyped
  <2> QED
    BY <1>5, <2>1, NothingReserved, NoPrefixTyped
<1>7. \A s \in Slots : c.reservation[s] = NoReservation
  BY DEF ResetOK, Sound, ReservationsExplained
<1>8. ASSUME NEW p \in Pages
      PROVE  d.ref_count[p] = 0
  <2>1. c.ref_count[p] = Cardinality(SlotsOn(c, p)) + Cardinality(PrefixesOn(c, p))
    <3>1. SourcesOn(c, p) = {}
      BY <1>7, NothingReserved DEF SourcesOn
    <3> QED
      BY <3>1, FS_EmptySet, HoldersFinite DEF Sound, Counted, Held
  <2>2. Drops(Slots, table, p) = Cardinality(SlotsOn(c, p))
    BY DEF Drops, SlotsOn
  <2>3. Drops(LiveKeys(c), listed, p) = Cardinality(PrefixesOn(c, p))
    <3>1. {k \in LiveKeys(c) : p \in PagesOf(listed[k])} = PrefixesOn(c, p)
      BY DEF PrefixesOn, LiveKeys
    <3> QED
      BY <3>1 DEF Drops
  <2>4. r.ref_count[p] = Cardinality(PrefixesOn(c, p))
    BY <1>2, <2>1, <2>2, HoldersFinite DEF MapsReleased
  <2>5. q.ref_count[p] = 0
    BY <1>3, <2>3, <2>4, HoldersFinite DEF MapsReleased
  <2> QED
    BY <1>5, <2>5
<1>9. LiveKeys(d) = {}
  BY <1>5, NoPrefixTyped DEF LiveKeys
<1>10. \A s \in Slots : /\ d.page_table[s] = EmptyMap /\ d.kv_length[s] = 0
                        /\ d.slot_prefix[s] = NoKey
                        /\ d.reservation[s] = NoReservation /\ Extent(d, s) = 0
  BY <1>5, <1>7, NothingReserved DEF Extent
<1>11. Counted(d)
  <2>1. ASSUME NEW p \in Pages
        PROVE  Held(d, p) = 0
    <3>1. SlotsOn(d, p) = {} /\ PrefixesOn(d, p) = {} /\ SourcesOn(d, p) = {}
      BY <1>9, <1>10, NothingReserved DEF SlotsOn, PrefixesOn, SourcesOn
    <3> QED
      BY <3>1, FS_EmptySet DEF Held
  <2>2. d.free = {p \in Pages : d.ref_count[p] = 0}
    BY <1>3, <1>5 DEF MapsReleased
  <2> QED
    BY <1>8, <2>1, <2>2 DEF Counted
<1>12. SlotsBacked(d) /\ AppendsPrivate(d)
  BY <1>10, EmptySlot DEF SlotsBacked, AppendsPrivate
<1>13. GraftsCounted(d)
  <2>1. \A k \in Keys : Grafted(d, k) = {}
    BY <1>10, Sizes DEF Grafted
  <2> QED
    BY <1>5, <1>10, <2>1, NoPrefixTyped, FS_EmptySet DEF GraftsCounted
<1>14. PrefixesWhole(d) /\ RecencyOrders(d)
  BY <1>5, <1>9 DEF PrefixesWhole, RecencyOrders, Orders
<1>15. ReservationsExplained(d)
  <2> SUFFICES ASSUME NEW s \in Slots
               PROVE  /\ ~Open(d, s) => d.reservation[s] = NoReservation
                      /\ FreshExplained(d, s, d.reservation[s])
                      /\ SourcesKept(d, s, d.reservation[s])
    BY DEF ReservationsExplained
  <2> QED
    BY <1>10, NothingReserved, EmptySlot DEF FreshExplained, SourcesKept, Distinct
<1>16. ReservedCounted(d)
  BY <1>5 DEF ReservedCounted, ReservedBy, Sound
<1> QED
  BY <1>6, <1>11, <1>12, <1>13, <1>14, <1>15, <1>16 DEF d, Sound

-----------------------------------------------------------------------------
(* The order of last use.                                                  *)

(* A touched key is the youngest of the live prefixes in an order. *)
LEMMA TouchOrders ==
  ASSUME NEW c, RecencyOrders(c), NEW k \in Keys
  PROVE  Orders(Touch(c, k), LiveKeys(c) \cup {k})
<1> DEFINE L == LiveKeys(c)
           older == c.older
           now == Touch(c, k)
<1>1. Orders(older, L)
  BY DEF RecencyOrders
<1>2. \A i, j : <<i, j>> \in now <=> \/ <<i, j>> \in older /\ i # k /\ j # k
                                     \/ i \in L /\ i # k /\ j = k
  BY DEF Touch, Forget
<1>3. now \subseteq (L \cup {k}) \X (L \cup {k})
  BY <1>1 DEF Touch, Forget, Orders
<1> HIDE DEF L, older, now
<1> QED
  BY <1>1, <1>2, <1>3 DEF Orders, L, now

(* The prefixes that stay are still in order. *)
LEMMA ForgetOrders ==
  ASSUME NEW c, RecencyOrders(c), NEW V
  PROVE  Orders(Forget(c.older, V), LiveKeys(c) \ V)
BY DEF RecencyOrders, Orders, Forget

(* Whole pages end where the next one begins. *)
LEMMA WholePages ==
  ASSUME NEW n \in Nat, n % PageTokens = 0, NEW l \in Logical
  PROVE  /\ Start(l) < n <=> Start(l) + PageTokens <= n
         /\ l < n \div PageTokens <=> Start(l) < n
<1>1. \A b, m, i \in Nat : b > 0 /\ m % b = 0 => (i * b < m <=> i * b + b <= m)
  <2>1. \A b, m \in Nat : b > 0 /\ m % b = 0 => m = (m \div b) * b
    BY Z3
  <2>2. \A b, m \in Nat : b > 0 => m \div b \in Nat
    BY Z3
  <2>3. \A b, i, j \in Nat : b > 0 => (i * b < j * b <=> i * b + b <= j * b)
    BY Z3
  <2> TAKE b, m, i \in Nat
  <2> HAVE b > 0 /\ m % b = 0
  <2>4. m \div b \in Nat /\ m = (m \div b) * b
    BY <2>1, <2>2
  <2>5. i * b < (m \div b) * b <=> i * b + b <= (m \div b) * b
    BY <2>3, <2>4
  <2> HIDE <2>1, <2>2, <2>3
  <2> QED
    BY <2>4, <2>5
<1>2. Start(l) < n <=> Start(l) + PageTokens <= n
  BY <1>1, Sizes DEF Start
<1>3. l < n \div PageTokens <=> Start(l) + PageTokens <= n
  BY PageOfToken, Sizes
<1> QED
  BY <1>2, <1>3

-----------------------------------------------------------------------------
(* vx_paged_kv_publish_prefix.                                             *)

(* The publication of a new key, field by field. *)
LEMMA PublishFields ==
  ASSUME NEW c \in CacheType, NEW k \in Keys, NEW s \in Slots, NEW n \in Nat,
         NEW m, m = PublishedPages(c, s, n), ~c.prefix[k].live
  PROVE  LET d == Publish(c, k, s, n)
         IN  /\ d.page_table = c.page_table /\ d.kv_length = c.kv_length
             /\ d.slot_generation = c.slot_generation /\ d.slot_prefix = c.slot_prefix
             /\ d.reservation = c.reservation /\ d.reserved_pages = c.reserved_pages
             /\ d.free = c.free /\ d.older = Touch(c, k)
             /\ d.ref_count = [p \in Pages |->
                  IF p \in PagesOf(m) THEN c.ref_count[p] + 1 ELSE c.ref_count[p]]
             /\ d.prefix = [c.prefix EXCEPT ![k] =
                  [live |-> TRUE, tokens |-> n, slot_references |-> 0, pages |-> m]]
             /\ /\ d.ref_count \in [Pages -> Nat] /\ d.prefix \in [Keys -> Prefix]
                /\ d.older \in SUBSET (Keys \X Keys)
                => d \in CacheType
<1> DEFINE d == Publish(c, k, s, n)
           counts == [p \in Pages |->
                        IF p \in PagesOf(m) THEN c.ref_count[p] + 1 ELSE c.ref_count[p]]
           entries == [c.prefix EXCEPT ![k] =
                        [live |-> TRUE, tokens |-> n, slot_references |-> 0, pages |-> m]]
           order == Touch(c, k)
<1>1. d = [c EXCEPT !.ref_count = counts, !.prefix = entries, !.older = order]
  BY PutExcept DEF Publish, CacheType
<1> HIDE DEF d, counts, entries, order
<1>2. /\ d.page_table = c.page_table /\ d.kv_length = c.kv_length
      /\ d.slot_generation = c.slot_generation /\ d.slot_prefix = c.slot_prefix
      /\ d.reservation = c.reservation /\ d.reserved_pages = c.reserved_pages
      /\ d.free = c.free /\ d.older = order /\ d.ref_count = counts /\ d.prefix = entries
  BY <1>1 DEF CacheType
<1>3. ASSUME counts \in [Pages -> Nat], entries \in [Keys -> Prefix],
             order \in SUBSET (Keys \X Keys)
      PROVE  d \in CacheType
  BY <1>1, <1>3 DEF CacheType
<1> QED
  BY <1>2, <1>3 DEF d, counts, entries, order

(* A page listed by the prefix of a key is no append target of anybody. *)
LEMMA SharedNotAppended ==
  ASSUME NEW c, Sound(c), NEW p \in Pages, NEW t \in Slots, NEW l \in Logical,
         c.page_table[t][l] = p, Start(l) + PageTokens > c.kv_length[t]
  PROVE  c.ref_count[p] = 1 /\ SlotsOn(c, p) = {t} /\ PrefixesOn(c, p) = {}
<1>1. c.ref_count[p] = 1
  BY Sizes DEF Sound, AppendsPrivate
<1>2. t \in SlotsOn(c, p)
  BY InMap DEF SlotsOn
<1> QED
  BY <1>1, <1>2, SoleHolder DEF Sound

(* The order of last use relates keys. *)
LEMMA TouchTyped ==
  ASSUME NEW c \in CacheType, NEW k \in Keys
  PROVE  Touch(c, k) \in SUBSET (Keys \X Keys)
BY DEF CacheType, Touch, Forget, LiveKeys

(* Publishing keeps the cache sound: whole committed pages gain one        *)
(* holder, and none of them is an append target of the slot.               *)
LEMMA PublishSound ==
  ASSUME NEW c, Sound(c), NEW k \in Keys, NEW s \in Slots, NEW n \in Nat,
         PublishOK(c, k, s, n)
  PROVE  Sound(Publish(c, k, s, n))
<1> DEFINE d == Publish(c, k, s, n)
           m == PublishedPages(c, s, n)
<1>1. c \in CacheType
  BY DEF Sound
<1>2. CASE c.prefix[k].live
  <2>1. d = [c EXCEPT !.older = Touch(c, k)]
    BY <1>2 DEF Publish
  <2>2. LiveKeys(c) \cup {k} = LiveKeys(c)
    BY <1>2 DEF LiveKeys
  <2>3. Orders(Touch(c, k), LiveKeys(c))
    BY <2>2, TouchOrders DEF Sound
  <2> HIDE DEF d
  <2>4. /\ d.page_table = c.page_table /\ d.kv_length = c.kv_length
        /\ d.slot_generation = c.slot_generation /\ d.slot_prefix = c.slot_prefix
        /\ d.reservation = c.reservation /\ d.reserved_pages = c.reserved_pages
        /\ d.free = c.free /\ d.older = Touch(c, k)
        /\ d.ref_count = c.ref_count /\ d.prefix = c.prefix
    BY <1>1, <2>1 DEF CacheType
  <2>5. d \in CacheType
    <3>1. Touch(c, k) \in SUBSET (Keys \X Keys)
      BY <1>1, TouchTyped
    <3> QED
      BY <1>1, <2>1, <3>1 DEF CacheType
  <2>6. RecencyOrders(d)
    BY <2>3, <2>4 DEF RecencyOrders, LiveKeys
  <2>7. Counted(d)
    BY <2>4 DEF Sound, Counted, Held, SlotsOn, PrefixesOn, SourcesOn, LiveKeys
  <2>8. SlotsBacked(d) /\ AppendsPrivate(d) /\ GraftsCounted(d) /\ PrefixesWhole(d)
    BY <2>4 DEF Sound, SlotsBacked, AppendsPrivate, GraftsCounted, PrefixesWhole,
                Extent, Grafted, LiveKeys
  <2>9. ReservationsExplained(d) /\ ReservedCounted(d)
    BY <2>4 DEF Sound, ReservationsExplained, ReservedCounted, ReservedBy,
                FreshExplained, SourcesKept, Extent, Open
  <2> QED
    BY <2>5, <2>6, <2>7, <2>8, <2>9 DEF Sound, d
<1>3. CASE ~c.prefix[k].live
  <2>1. /\ d.page_table = c.page_table /\ d.kv_length = c.kv_length
        /\ d.slot_generation = c.slot_generation /\ d.slot_prefix = c.slot_prefix
        /\ d.reservation = c.reservation /\ d.reserved_pages = c.reserved_pages
        /\ d.free = c.free /\ d.older = Touch(c, k)
        /\ d.ref_count = [p \in Pages |->
             IF p \in PagesOf(m) THEN c.ref_count[p] + 1 ELSE c.ref_count[p]]
        /\ d.prefix = [c.prefix EXCEPT ![k] =
             [live |-> TRUE, tokens |-> n, slot_references |-> 0, pages |-> m]]
        /\ /\ d.ref_count \in [Pages -> Nat] /\ d.prefix \in [Keys -> Prefix]
           /\ d.older \in SUBSET (Keys \X Keys)
           => d \in CacheType
    <3>1. PICK x : x = m
      OBVIOUS
    <3> HIDE DEF m
    <3> QED
      BY <1>1, <1>3, <3>1, PublishFields DEF m
  <2>2. /\ 0 < n /\ n <= c.kv_length[s] /\ n % PageTokens = 0
        /\ \A l \in Logical : l < n \div PageTokens => c.page_table[s][l] # Unmapped
    BY DEF PublishOK
  <2>3. /\ m \in PageMap
        /\ \A l \in Logical : m[l] = IF Start(l) < n THEN c.page_table[s][l] ELSE Unmapped
        /\ \A l \in Logical : Start(l) < n => c.page_table[s][l] # Unmapped
    <3>1. \A l \in Logical : l < n \div PageTokens <=> Start(l) < n
      BY <2>2, WholePages
    <3>2. \A l \in Logical : c.page_table[s][l] \in Pages \cup {Unmapped}
      BY <1>1, Typed DEF PageMap
    <3> QED
      BY <2>2, <3>1, <3>2 DEF PublishedPages, PageMap
  <2> HIDE DEF d, m
  <2>4. d \in CacheType
    <3>1. d.ref_count \in [Pages -> Nat]
      BY <1>1, <2>1, Typed
    <3>2. [live |-> TRUE, tokens |-> n, slot_references |-> 0, pages |-> m] \in Prefix
      BY <2>3 DEF Prefix
    <3>3. d.prefix \in [Keys -> Prefix]
      BY <1>1, <2>1, <3>2 DEF CacheType
    <3> QED
      BY <1>1, <2>1, <3>1, <3>3, TouchTyped
  <2>5. /\ d.prefix[k].live /\ d.prefix[k].tokens = n /\ d.prefix[k].pages = m
        /\ d.prefix[k].slot_references = 0
        /\ \A j \in Keys : j # k => d.prefix[j] = c.prefix[j]
    BY <1>1, <2>1 DEF CacheType
  <2>6. LiveKeys(d) = LiveKeys(c) \cup {k} /\ k \notin LiveKeys(c)
    BY <1>3, <2>5 DEF LiveKeys
  <2>7. /\ Distinct(c.page_table[s]) /\ c.kv_length[s] <= SlotTokenCapacity
    BY <1>1, Typed, Sizes DEF Sound, SlotsBacked, Backs, Extent
  <2>8. Covers(m, n)
    <3>1. Distinct(m)
      BY <2>3, <2>7 DEF Distinct
    <3> QED
      BY <1>1, <2>2, <2>3, <2>7, <3>1, Typed, Sizes DEF Covers
  <2>9. \A p \in Pages : /\ SlotsOn(d, p) = SlotsOn(c, p)
                         /\ SourcesOn(d, p) = SourcesOn(c, p)
                         /\ PrefixesOn(d, p) = IF p \in PagesOf(m) THEN PrefixesOn(c, p) \cup {k}
                                                                   ELSE PrefixesOn(c, p)
                         /\ k \notin PrefixesOn(c, p)
    <3> TAKE p \in Pages
    <3>1. SlotsOn(d, p) = SlotsOn(c, p) /\ SourcesOn(d, p) = SourcesOn(c, p)
      BY <2>1 DEF SlotsOn, SourcesOn
    <3>2. \A j \in LiveKeys(c) : j \in Keys /\ j # k
      BY <2>6 DEF LiveKeys
    <3>3. \A j \in LiveKeys(c) : d.prefix[j].pages = c.prefix[j].pages
      BY <2>5, <3>2
    <3>4. PrefixesOn(d, p) = IF p \in PagesOf(m) THEN PrefixesOn(c, p) \cup {k}
                                                 ELSE PrefixesOn(c, p)
      BY <2>5, <2>6, <3>3 DEF PrefixesOn
    <3> QED
      BY <2>6, <3>1, <3>4 DEF PrefixesOn
  <2>10. Counted(d)
    <3>1. ASSUME NEW p \in Pages
          PROVE  d.ref_count[p] = Held(d, p)
      <4>1. c.ref_count[p] = Held(c, p)
        BY DEF Sound, Counted
      <4>2. Cardinality(PrefixesOn(c, p) \cup {k}) = Cardinality(PrefixesOn(c, p)) + 1
        BY <2>9, HoldersFinite, FS_AddElement
      <4>3. CASE p \in PagesOf(m)
        <5>1. d.ref_count[p] = c.ref_count[p] + 1 /\ SlotsOn(d, p) = SlotsOn(c, p)
              /\ SourcesOn(d, p) = SourcesOn(c, p) /\ PrefixesOn(d, p) = PrefixesOn(c, p) \cup {k}
          BY <2>1, <2>9, <4>3
        <5> QED
          BY <4>1, <4>2, <5>1, HoldersFinite DEF Held
      <4>4. CASE p \notin PagesOf(m)
        BY <2>1, <2>9, <4>1, <4>4 DEF Held
      <4> QED
        BY <4>3, <4>4
    <3>2. \A p \in Pages : p \in PagesOf(m) => c.ref_count[p] # 0
      <4> TAKE p \in Pages
      <4> HAVE p \in PagesOf(m)
      <4>1. s \in SlotsOn(c, p)
        BY <2>3, InMap, Sizes DEF SlotsOn
      <4> QED
        BY <1>1, <4>1, Unheld DEF Sound
    <3>3. \A p \in Pages : d.ref_count[p] = 0 <=> c.ref_count[p] = 0
      BY <1>1, <2>1, <3>2, Typed
    <3>4. d.free = {p \in Pages : d.ref_count[p] = 0}
      BY <2>1, <3>3 DEF Sound, Counted
    <3> QED
      BY <3>1, <3>4 DEF Counted
  <2>11. SlotsBacked(d)
    BY <2>1 DEF Sound, SlotsBacked, Extent
  <2>12. AppendsPrivate(d)
    <3> SUFFICES ASSUME NEW t \in Slots, NEW l \in Logical, d.page_table[t][l] # Unmapped,
                        Start(l) + PageTokens > d.kv_length[t]
                 PROVE  d.ref_count[d.page_table[t][l]] = 1
      BY DEF AppendsPrivate
    <3>1. PICK p \in Pages : p = d.page_table[t][l]
      BY <2>4, Typed DEF PageMap
    <3>2. c.ref_count[p] = 1 /\ SlotsOn(c, p) = {t}
      BY <2>1, <3>1, SharedNotAppended
    <3>3. p \notin PagesOf(m)
      <4>1. SUFFICES ASSUME NEW i \in Logical, m[i] = p
                     PROVE  FALSE
        BY InMap
      <4>2. Start(i) < n /\ c.page_table[s][i] = p
        BY <2>3, <4>1, Sizes
      <4>3. s = t
        BY <3>2, <4>2, InMap DEF SlotsOn
      <4>4. i = l
        BY <2>1, <2>7, <3>1, <4>2, <4>3, Sizes DEF Distinct
      <4>5. Start(i) + PageTokens <= n
        BY <2>2, <4>2, WholePages
      <4>6. Start(i) \in Nat /\ c.kv_length[s] \in Nat
        BY <1>1, Typed, Starts, Sizes
      <4> QED
        BY <2>1, <2>2, <4>3, <4>4, <4>5, <4>6, Sizes
    <3> QED
      BY <2>1, <3>1, <3>2, <3>3
  <2>13. GraftsCounted(d)
    <3>1. \A j \in Keys : Grafted(d, j) = Grafted(c, j)
      BY <2>1 DEF Grafted
    <3>2. k # NoKey
      BY Sizes
    <3>3. Grafted(c, k) = {}
      BY <2>6, <3>2 DEF Grafted, GraftsCounted, Sound
    <3>4. \A j \in Keys : d.prefix[j].slot_references = Cardinality(Grafted(d, j))
      BY <2>5, <3>1, <3>3, FS_EmptySet DEF GraftsCounted, Sound
    <3> QED
      BY <2>1, <2>6, <3>4 DEF GraftsCounted, Sound
  <2>14. PrefixesWhole(d)
    <3>1. \A j \in LiveKeys(c) : j \in Keys /\ j # k
      BY <2>6 DEF LiveKeys
    <3> QED
      BY <2>2, <2>5, <2>6, <2>8, <3>1 DEF PrefixesWhole, Sound
  <2>15. ReservationsExplained(d) /\ ReservedCounted(d)
    BY <2>1 DEF Sound, ReservationsExplained, ReservedCounted, ReservedBy,
                FreshExplained, SourcesKept, Extent, Open
  <2>16. RecencyOrders(d)
    BY <2>1, <2>6, TouchOrders DEF RecencyOrders, Sound
  <2> QED
    BY <2>4, <2>10, <2>11, <2>12, <2>13, <2>14, <2>15, <2>16 DEF Sound, d
<1> QED
  BY <1>2, <1>3

-----------------------------------------------------------------------------
(* vx_paged_kv_acquire_prefix.                                             *)

(* A graft, field by field. *)
LEMMA AcquireFields ==
  ASSUME NEW c \in CacheType, NEW k \in Keys, NEW s \in Slots,
         NEW m, m = c.prefix[k].pages
  PROVE  LET d == Acquire(c, k, s)
         IN  /\ d.slot_generation = c.slot_generation /\ d.free = c.free
             /\ d.reservation = c.reservation /\ d.reserved_pages = c.reserved_pages
             /\ d.older = Touch(c, k)
             /\ d.page_table = [c.page_table EXCEPT ![s] =
                  [l \in Logical |-> IF m[l] = Unmapped THEN c.page_table[s][l] ELSE m[l]]]
             /\ d.ref_count = [p \in Pages |->
                  IF p \in PagesOf(m) THEN c.ref_count[p] + 1 ELSE c.ref_count[p]]
             /\ d.prefix = [c.prefix EXCEPT ![k].slot_references = @ + 1]
             /\ d.slot_prefix = [c.slot_prefix EXCEPT ![s] = k]
             /\ d.kv_length = [c.kv_length EXCEPT ![s] = c.prefix[k].tokens]
             /\ /\ d.ref_count \in [Pages -> Nat] /\ d.prefix \in [Keys -> Prefix]
                /\ d.page_table \in [Slots -> PageMap] /\ d.kv_length \in [Slots -> Nat]
                /\ d.slot_prefix \in [Slots -> Keys \cup {NoKey}]
                /\ d.older \in SUBSET (Keys \X Keys)
                => d \in CacheType
<1> DEFINE d == Acquire(c, k, s)
           table == [c.page_table EXCEPT ![s] =
                      [l \in Logical |-> IF m[l] = Unmapped THEN c.page_table[s][l] ELSE m[l]]]
           counts == [p \in Pages |->
                        IF p \in PagesOf(m) THEN c.ref_count[p] + 1 ELSE c.ref_count[p]]
           entries == [c.prefix EXCEPT ![k].slot_references = @ + 1]
           slots == [c.slot_prefix EXCEPT ![s] = k]
           lengths == [c.kv_length EXCEPT ![s] = c.prefix[k].tokens]
           order == Touch(c, k)
<1>1. d = [c EXCEPT !.page_table = table, !.ref_count = counts, !.prefix = entries,
                    !.slot_prefix = slots, !.kv_length = lengths, !.older = order]
  <2>1. Put(c.prefix, k, [c.prefix[k] EXCEPT !.slot_references = @ + 1]) = entries
    BY PutExcept
  <2>2. d = [c EXCEPT !.page_table = table, !.ref_count = counts,
                      !.prefix = Put(c.prefix, k, [c.prefix[k] EXCEPT !.slot_references = @ + 1]),
                      !.slot_prefix = slots, !.kv_length = lengths, !.older = order]
    BY PutExcept DEF Acquire, CacheType
  <2> QED
    BY <2>1, <2>2
<1> HIDE DEF d, table, counts, entries, slots, lengths, order
<1>2. /\ d.slot_generation = c.slot_generation /\ d.free = c.free
      /\ d.reservation = c.reservation /\ d.reserved_pages = c.reserved_pages
      /\ d.older = order /\ d.page_table = table /\ d.ref_count = counts
      /\ d.prefix = entries /\ d.slot_prefix = slots /\ d.kv_length = lengths
  BY <1>1 DEF CacheType
<1>3. ASSUME counts \in [Pages -> Nat], entries \in [Keys -> Prefix],
             table \in [Slots -> PageMap], lengths \in [Slots -> Nat],
             slots \in [Slots -> Keys \cup {NoKey}], order \in SUBSET (Keys \X Keys)
      PROVE  d \in CacheType
  BY <1>1, <1>3 DEF CacheType
<1> QED
  BY <1>2, <1>3 DEF d, table, counts, entries, slots, lengths, order

(* A graft keeps the cache sound: the prefix's pages gain the slot, which  *)
(* appends only behind them.                                               *)
LEMMA AcquireSound ==
  ASSUME NEW c, Sound(c), NEW k \in Keys, NEW s \in Slots, AcquireOK(c, k, s)
  PROVE  Sound(Acquire(c, k, s))
<1> DEFINE d == Acquire(c, k, s)
           m == c.prefix[k].pages
           n == c.prefix[k].tokens
<1>1. c \in CacheType /\ ~Open(c, s) /\ c.prefix[k].live /\ c.kv_length[s] = 0
  BY DEF Sound, AcquireOK
<1>2. /\ c.reservation[s].tokens = 0 /\ c.reservation[s].fresh = {}
      /\ c.reservation[s].prior = EmptyMap /\ Extent(c, s) = 0
  BY <1>1, Closed DEF Sound
<1>3. \A l \in Logical : c.page_table[s][l] = Unmapped
  BY <1>1, EmptySlotMap DEF EmptyMap
<1>4. k \in LiveKeys(c) /\ c.slot_prefix[s] = NoKey
  BY <1>1 DEF LiveKeys, Sound, GraftsCounted
<1>5. /\ n > 0 /\ n % PageTokens = 0 /\ Covers(m, n) /\ m \in PageMap /\ n \in Nat
  BY <1>1, <1>4, Typed DEF Sound, PrefixesWhole
<1>6. /\ d.slot_generation = c.slot_generation /\ d.free = c.free
      /\ d.reservation = c.reservation /\ d.reserved_pages = c.reserved_pages
      /\ d.older = Touch(c, k)
      /\ d.page_table = [c.page_table EXCEPT ![s] =
           [l \in Logical |-> IF m[l] = Unmapped THEN c.page_table[s][l] ELSE m[l]]]
      /\ d.ref_count = [p \in Pages |->
           IF p \in PagesOf(m) THEN c.ref_count[p] + 1 ELSE c.ref_count[p]]
      /\ d.prefix = [c.prefix EXCEPT ![k].slot_references = @ + 1]
      /\ d.slot_prefix = [c.slot_prefix EXCEPT ![s] = k]
      /\ d.kv_length = [c.kv_length EXCEPT ![s] = n]
      /\ /\ d.ref_count \in [Pages -> Nat] /\ d.prefix \in [Keys -> Prefix]
         /\ d.page_table \in [Slots -> PageMap] /\ d.kv_length \in [Slots -> Nat]
         /\ d.slot_prefix \in [Slots -> Keys \cup {NoKey}]
         /\ d.older \in SUBSET (Keys \X Keys)
         => d \in CacheType
  <2>1. PICK x : x = m
    OBVIOUS
  <2> HIDE DEF m
  <2> QED
    BY <1>1, <2>1, AcquireFields DEF m
<1> HIDE DEF d, m, n
<1>7. /\ d.page_table[s] = m
      /\ \A t \in Slots : t # s => d.page_table[t] = c.page_table[t]
  <2>1. [l \in Logical |-> IF m[l] = Unmapped THEN c.page_table[s][l] ELSE m[l]] = m
    BY <1>3, <1>5 DEF PageMap
  <2> QED
    BY <1>1, <1>6, <2>1 DEF CacheType
<1>8. /\ d.kv_length[s] = n /\ d.slot_prefix[s] = k
      /\ \A t \in Slots : t # s => /\ d.kv_length[t] = c.kv_length[t]
                                   /\ d.slot_prefix[t] = c.slot_prefix[t]
                                   /\ Extent(d, t) = Extent(c, t)
      /\ Extent(d, s) = n
  BY <1>1, <1>2, <1>5, <1>6 DEF CacheType, Extent
<1>9. /\ d.prefix \in [Keys -> Prefix]
      /\ \A j \in Keys : /\ d.prefix[j].live = c.prefix[j].live
                         /\ d.prefix[j].tokens = c.prefix[j].tokens
                         /\ d.prefix[j].pages = c.prefix[j].pages
                         /\ d.prefix[j].slot_references =
                              c.prefix[j].slot_references + (IF j = k THEN 1 ELSE 0)
  <2>1. /\ c.prefix \in [Keys -> Prefix] /\ c.prefix[k] \in Prefix
        /\ c.prefix[k].slot_references + 1 \in Int
    BY <1>1, Typed DEF CacheType
  <2>2. d.prefix[k] = [c.prefix[k] EXCEPT !.slot_references = @ + 1]
    BY <1>6, <2>1
  <2>3. \A j \in Keys : j # k => d.prefix[j] = c.prefix[j]
    BY <1>6, <2>1
  <2>4. /\ d.prefix[k].live = c.prefix[k].live
        /\ d.prefix[k].tokens = c.prefix[k].tokens
        /\ d.prefix[k].pages = c.prefix[k].pages
        /\ d.prefix[k].slot_references = c.prefix[k].slot_references + 1
        /\ d.prefix[k] \in Prefix
    BY <2>1, <2>2 DEF Prefix
  <2>5. \A j \in Keys : c.prefix[j].slot_references + 0 = c.prefix[j].slot_references
    BY <1>1, Typed
  <2>6. d.prefix \in [Keys -> Prefix]
    BY <1>6, <2>1, <2>3, <2>4
  <2> QED
    BY <2>3, <2>4, <2>5, <2>6
<1>10. d \in CacheType
  <2>1. d.ref_count \in [Pages -> Nat]
    BY <1>1, <1>6, Typed
  <2>2. d.page_table \in [Slots -> PageMap]
    BY <1>1, <1>5, <1>6, <1>7 DEF CacheType
  <2>3. d.kv_length \in [Slots -> Nat] /\ d.slot_prefix \in [Slots -> Keys \cup {NoKey}]
    BY <1>1, <1>5, <1>6 DEF CacheType
  <2> QED
    BY <1>1, <1>6, <1>9, <2>1, <2>2, <2>3, TouchTyped
<1>11. LiveKeys(d) = LiveKeys(c) /\ \A j \in LiveKeys(c) : j \in Keys
  BY <1>9 DEF LiveKeys
<1>12. \A p \in Pages : /\ SourcesOn(d, p) = SourcesOn(c, p)
                        /\ PrefixesOn(d, p) = PrefixesOn(c, p)
                        /\ SlotsOn(d, p) = IF p \in PagesOf(m) THEN SlotsOn(c, p) \cup {s}
                                                               ELSE SlotsOn(c, p)
                        /\ s \notin SlotsOn(c, p)
  <2> TAKE p \in Pages
  <2>1. SourcesOn(d, p) = SourcesOn(c, p)
    BY <1>6 DEF SourcesOn
  <2>2. PrefixesOn(d, p) = PrefixesOn(c, p)
    BY <1>9, <1>11 DEF PrefixesOn
  <2>3. p \notin PagesOf(c.page_table[s])
    BY <1>3, InMap, Sizes
  <2>4. s \notin SlotsOn(c, p)
    BY <2>3 DEF SlotsOn
  <2>5. SlotsOn(d, p) = IF p \in PagesOf(m) THEN SlotsOn(c, p) \cup {s} ELSE SlotsOn(c, p)
    BY <1>7, <2>3 DEF SlotsOn
  <2> QED
    BY <2>1, <2>2, <2>4, <2>5
<1>13. \A p \in Pages : p \in PagesOf(m) => k \in PrefixesOn(c, p)
  BY <1>4 DEF PrefixesOn, m
<1>14. Counted(d)
  <2>1. ASSUME NEW p \in Pages
        PROVE  d.ref_count[p] = Held(d, p)
    <3>1. c.ref_count[p] = Held(c, p)
      BY DEF Sound, Counted
    <3>2. Cardinality(SlotsOn(c, p) \cup {s}) = Cardinality(SlotsOn(c, p)) + 1
      BY <1>12, HoldersFinite, FS_AddElement
    <3>3. CASE p \in PagesOf(m)
      <4>1. d.ref_count[p] = c.ref_count[p] + 1 /\ SlotsOn(d, p) = SlotsOn(c, p) \cup {s}
            /\ SourcesOn(d, p) = SourcesOn(c, p) /\ PrefixesOn(d, p) = PrefixesOn(c, p)
        BY <1>6, <1>12, <3>3
      <4> QED
        BY <3>1, <3>2, <4>1, HoldersFinite DEF Held
    <3>4. CASE p \notin PagesOf(m)
      BY <1>6, <1>12, <3>1, <3>4 DEF Held
    <3> QED
      BY <3>3, <3>4
  <2>2. \A p \in Pages : p \in PagesOf(m) => c.ref_count[p] # 0
    BY <1>1, <1>13, Unheld DEF Sound
  <2>3. \A p \in Pages : d.ref_count[p] = 0 <=> c.ref_count[p] = 0
    BY <1>1, <1>6, <2>2, Typed
  <2>4. d.free = {p \in Pages : d.ref_count[p] = 0}
    BY <1>6, <2>3 DEF Sound, Counted
  <2> QED
    BY <2>1, <2>4 DEF Counted
<1>15. SlotsBacked(d)
  BY <1>5, <1>7, <1>8, CoversBacks DEF Sound, SlotsBacked
<1>16. AppendsPrivate(d)
  <2> SUFFICES ASSUME NEW t \in Slots, NEW l \in Logical, d.page_table[t][l] # Unmapped,
                      Start(l) + PageTokens > d.kv_length[t]
               PROVE  d.ref_count[d.page_table[t][l]] = 1
    BY DEF AppendsPrivate
  <2>1. CASE t = s
    <3>1. Start(l) < n
      BY <1>5, <1>7, <2>1 DEF Covers
    <3>2. Start(l) + PageTokens <= n
      BY <1>5, <3>1, WholePages
    <3>3. Start(l) \in Nat
      BY Starts, Sizes
    <3> QED
      BY <1>5, <1>8, <2>1, <3>2, <3>3, Sizes
  <2>2. CASE t # s
    <3>1. PICK p \in Pages : p = d.page_table[t][l]
      BY <1>10, Typed DEF PageMap
    <3>2. c.ref_count[p] = 1 /\ PrefixesOn(c, p) = {}
      BY <1>7, <1>8, <2>2, <3>1, SharedNotAppended
    <3> QED
      BY <1>6, <1>13, <3>1, <3>2
  <2> QED
    BY <2>1, <2>2
<1>17. GraftsCounted(d)
  <2>1. \A j \in Keys : Grafted(d, j) = IF j = k THEN Grafted(c, j) \cup {s} ELSE Grafted(c, j)
    BY <1>4, <1>8, Sizes DEF Grafted
  <2>2. \A j \in Keys : /\ IsFiniteSet(Grafted(c, j)) /\ s \notin Grafted(c, j)
                        /\ c.prefix[j].slot_references = Cardinality(Grafted(c, j))
                        /\ Cardinality(Grafted(c, j)) \in Nat
    <3> TAKE j \in Keys
    <3>1. Grafted(c, j) \in SUBSET Slots
      BY DEF Grafted
    <3>2. s \notin Grafted(c, j)
      BY <1>4, Sizes DEF Grafted
    <3> QED
      BY <3>1, <3>2, Sizes, Subsets DEF GraftsCounted, Sound
  <2>3. \A j \in Keys : d.prefix[j].slot_references = Cardinality(Grafted(d, j))
    <3> TAKE j \in Keys
    <3>1. Cardinality(Grafted(c, j) \cup {s}) = Cardinality(Grafted(c, j)) + 1
      BY <2>2, FS_AddElement
    <3>2. CASE j = k
      BY <1>9, <2>1, <2>2, <3>1, <3>2
    <3>3. CASE j # k
      <4>1. d.prefix[j].slot_references = c.prefix[j].slot_references
        BY <1>9, <2>2, <3>3
      <4>2. Grafted(d, j) = Grafted(c, j)
        BY <2>1, <3>3
      <4> QED
        BY <2>2, <4>1, <4>2
    <3> QED
      BY <3>2, <3>3
  <2> QED
    BY <1>4, <1>5, <1>8, <1>11, <2>3 DEF GraftsCounted, Sound
<1>18. PrefixesWhole(d)
  BY <1>9, <1>11 DEF PrefixesWhole, Sound
<1>19. RecencyOrders(d)
  <2>1. LiveKeys(c) \cup {k} = LiveKeys(d)
    BY <1>4, <1>11
  <2> QED
    BY <1>6, <2>1, TouchOrders DEF RecencyOrders, Sound
<1>20. ReservationsExplained(d)
  <2>1. \A t \in Slots : t # s =>
          /\ ~Open(d, t) => d.reservation[t] = NoReservation
          /\ FreshExplained(d, t, d.reservation[t])
          /\ SourcesKept(d, t, d.reservation[t])
    BY <1>6, <1>7, <1>8 DEF ReservationsExplained, FreshExplained, SourcesKept, Open, Sound
  <2>2. ~Open(d, s) => d.reservation[s] = NoReservation
    BY <1>6 DEF Sound, ReservationsExplained, Open
  <2>3. FreshExplained(d, s, d.reservation[s])
    <3>1. d.kv_length[s] # 0
      BY <1>5, <1>8
    <3> QED
      BY <1>2, <1>6, <3>1 DEF FreshExplained
  <2>4. SourcesKept(d, s, d.reservation[s])
    BY <1>2, <1>6, EmptySlot DEF SourcesKept, Distinct
  <2> QED
    BY <2>1, <2>2, <2>3, <2>4 DEF ReservationsExplained
<1>21. ReservedCounted(d)
  BY <1>6 DEF ReservedCounted, ReservedBy, Sound
<1> QED
  BY <1>10, <1>14, <1>15, <1>16, <1>17, <1>18, <1>19, <1>20, <1>21 DEF d, Sound


-----------------------------------------------------------------------------
(* vx_paged_kv_copy_on_write.                                              *)

(* A copy at once, field by field. *)
LEMMA CopyOnWriteFields ==
  ASSUME NEW c \in CacheType, NEW s \in Slots, NEW l \in Logical,
         NEW source \in Pages, source = c.page_table[s][l], c.ref_count[source] > 1,
         Allocate(c, s, {l}) \in CacheType
  PROVE  LET d == CopyOnWrite(c, s, l)
             a == Allocate(c, s, {l})
         IN  /\ d.page_table = a.page_table /\ d.free = a.free
             /\ d.ref_count = [a.ref_count EXCEPT ![source] = @ - 1]
             /\ d.kv_length = c.kv_length /\ d.slot_generation = c.slot_generation
             /\ d.slot_prefix = c.slot_prefix /\ d.reservation = c.reservation
             /\ d.reserved_pages = c.reserved_pages
             /\ d.prefix = c.prefix /\ d.older = c.older
             /\ d.ref_count \in [Pages -> Nat] => d \in CacheType
<1> DEFINE d == CopyOnWrite(c, s, l)
           a == Allocate(c, s, {l})
<1>1. d = [a EXCEPT !.ref_count[source] = @ - 1]
  <2>1. d = [a EXCEPT !.ref_count = Put(@, source, @[source] - 1)]
    BY Typed DEF CopyOnWrite
  <2>2. a \in CacheType
    OBVIOUS
  <2> HIDE DEF d, a
  <2>3. d = [a EXCEPT !.ref_count = Put(a.ref_count, source, a.ref_count[source] - 1)]
    BY <2>1, <2>2 DEF CacheType
  <2>4. Put(a.ref_count, source, a.ref_count[source] - 1) = [a.ref_count EXCEPT ![source] = @ - 1]
    BY PutExcept
  <2> QED
    BY <2>2, <2>3, <2>4 DEF CacheType
<1>2. /\ a.kv_length = c.kv_length /\ a.slot_generation = c.slot_generation
      /\ a.slot_prefix = c.slot_prefix /\ a.reservation = c.reservation
      /\ a.reserved_pages = c.reserved_pages
      /\ a.prefix = c.prefix /\ a.older = c.older
  BY DEF Allocate, CacheType
<1>3. a \in CacheType
  OBVIOUS
<1> HIDE DEF d, a
<1> DEFINE counts == [a.ref_count EXCEPT ![source] = @ - 1]
<1>4. d = [a EXCEPT !.ref_count = counts]
  BY <1>1, <1>3 DEF CacheType
<1> HIDE DEF counts
<1>5. /\ d.page_table = a.page_table /\ d.free = a.free /\ d.ref_count = counts
      /\ d.kv_length = a.kv_length /\ d.slot_generation = a.slot_generation
      /\ d.slot_prefix = a.slot_prefix /\ d.reservation = a.reservation
      /\ d.reserved_pages = a.reserved_pages
      /\ d.prefix = a.prefix /\ d.older = a.older
  BY <1>3, <1>4 DEF CacheType
<1>6. ASSUME counts \in [Pages -> Nat]
      PROVE  d \in CacheType
  BY <1>3, <1>4, <1>6 DEF CacheType
<1> QED
  BY <1>2, <1>5, <1>6 DEF d, a, counts

(* A copy at once keeps the cache sound: the shared page loses the slot    *)
(* and keeps another holder.                                               *)
LEMMA CopyOnWriteSound ==
  ASSUME NEW c, Sound(c), NEW s \in Slots, NEW l \in Logical, CopyOnWriteOK(c, s, l)
  PROVE  Sound(CopyOnWrite(c, s, l))
<1> DEFINE source == c.page_table[s][l]
           page == Allocation(c, s, {l})[l]
           a == Allocate(c, s, {l})
           d == CopyOnWrite(c, s, l)
<1>1. /\ c \in CacheType /\ source \in Pages /\ ~Open(c, s)
      /\ Distinct(c.page_table[s]) /\ Counted(c)
  <2>1. c \in CacheType /\ Distinct(c.page_table[s]) /\ Counted(c)
    BY DEF Sound, SlotsBacked, Backs
  <2> QED
    BY <2>1, Typed DEF CopyOnWriteOK, PageMap
<1>2. CASE ~(c.ref_count[source] > 1)
  <2>1. c.ref_count[source] <= 1
    BY <1>1, <1>2, Typed
  <2>2. d = c
    BY <2>1 DEF CopyOnWrite
  <2> QED
    BY <2>2
<1>3. CASE c.ref_count[source] > 1
  <2>1. OnePageAllocated(c, a, s, l, page)
    BY <1>1, <1>3, AllocateOne DEF CopyOnWriteOK
  <2>2. a \in CacheType
    BY <2>1 DEF OnePageAllocated
  <2>3. /\ d.page_table = a.page_table /\ d.free = a.free
        /\ d.ref_count = [a.ref_count EXCEPT ![source] = @ - 1]
        /\ d.kv_length = c.kv_length /\ d.slot_generation = c.slot_generation
        /\ d.slot_prefix = c.slot_prefix /\ d.reservation = c.reservation
        /\ d.reserved_pages = c.reserved_pages
        /\ d.prefix = c.prefix /\ d.older = c.older
        /\ d.ref_count \in [Pages -> Nat] => d \in CacheType
    <3>1. PICK x \in Pages : x = source
      BY <1>1
    <3>2. /\ d.page_table = a.page_table /\ d.free = a.free
          /\ d.ref_count = [a.ref_count EXCEPT ![x] = @ - 1]
          /\ d.kv_length = c.kv_length /\ d.slot_generation = c.slot_generation
          /\ d.slot_prefix = c.slot_prefix /\ d.reservation = c.reservation
          /\ d.reserved_pages = c.reserved_pages
          /\ d.prefix = c.prefix /\ d.older = c.older
          /\ d.ref_count \in [Pages -> Nat] => d \in CacheType
      BY <1>1, <1>3, <2>2, <3>1, CopyOnWriteFields
    <3> QED
      BY <3>1, <3>2
  <2> HIDE DEF a, d, source, page
  <2>4. /\ page \in Pages /\ c.ref_count[page] = 0 /\ page # source
        /\ SlotsOn(c, page) = {} /\ source # Unmapped
    BY <1>1, <1>3, <2>1, Typed, Unheld, Sizes DEF OnePageAllocated
  <2>5. /\ d.ref_count[source] = c.ref_count[source] - 1
        /\ \A p \in Pages : p # source => d.ref_count[p] = a.ref_count[p]
        /\ d.ref_count \in [Pages -> Nat]
    <3>1. a.ref_count[source] = c.ref_count[source] /\ c.ref_count[source] - 1 \in Nat
      BY <1>1, <1>3, <2>1, <2>4, Typed DEF OnePageAllocated
    <3> QED
      BY <1>1, <2>2, <2>3, <3>1 DEF CacheType
  <2>6. d \in CacheType
    BY <2>3, <2>5
  <2>7. \A p \in Pages : /\ SlotsOn(d, p) = SlotsOn(a, p)
                         /\ PrefixesOn(d, p) = PrefixesOn(c, p)
                         /\ SourcesOn(d, p) = SourcesOn(c, p)
    BY <2>3 DEF SlotsOn, PrefixesOn, SourcesOn, LiveKeys
  <2>8. Counted(d)
    <3>1. d.ref_count[page] = Held(d, page)
      <4>1. /\ d.ref_count[page] = 1 /\ SlotsOn(d, page) = {s}
            /\ PrefixesOn(d, page) = {} /\ SourcesOn(d, page) = {}
        BY <2>1, <2>4, <2>5, <2>7 DEF OnePageAllocated
      <4> QED
        BY <4>1, FS_Singleton, FS_EmptySet DEF Held
    <3>2. d.ref_count[source] = Held(d, source)
      <4>1. /\ SlotsOn(d, source) = SlotsOn(c, source) \ {s} /\ s \in SlotsOn(c, source)
            /\ PrefixesOn(d, source) = PrefixesOn(c, source)
            /\ SourcesOn(d, source) = SourcesOn(c, source)
        BY <1>1, <2>1, <2>4, <2>7, InMap DEF OnePageAllocated, SlotsOn, source
      <4>2. Cardinality(SlotsOn(d, source)) = Cardinality(SlotsOn(c, source)) - 1
        BY <4>1, HoldersFinite, FS_RemoveElement
      <4>3. c.ref_count[source] = Held(c, source)
        BY <1>1 DEF Counted
      <4> QED
        BY <2>5, <4>1, <4>2, <4>3, HoldersFinite DEF Held
    <3>3. ASSUME NEW p \in Pages, p # page, p # source
          PROVE  d.ref_count[p] = Held(d, p)
      <4>1. d.ref_count[p] = c.ref_count[p] /\ SlotsOn(d, p) = SlotsOn(c, p)
        BY <2>1, <2>5, <2>7, <3>3 DEF OnePageAllocated, source
      <4> QED
        BY <1>1, <2>7, <4>1 DEF Counted, Held
    <3>4. \A p \in Pages : d.ref_count[p] = 0 <=> a.ref_count[p] = 0
      <4>1. a.ref_count[source] # 0 /\ d.ref_count[source] # 0
        BY <1>1, <1>3, <2>1, <2>4, <2>5, Typed DEF OnePageAllocated
      <4> QED
        BY <2>5, <4>1
    <3>5. d.free = {p \in Pages : d.ref_count[p] = 0}
      BY <2>1, <2>3, <3>4 DEF OnePageAllocated
    <3> QED
      BY <3>1, <3>2, <3>3, <3>5 DEF Counted
  <2>9. /\ \A t \in Slots : t # s => d.page_table[t] = c.page_table[t]
        /\ d.page_table[s][l] = page
        /\ \A i \in Logical : i # l => d.page_table[s][i] = c.page_table[s][i]
        /\ Distinct(d.page_table[s])
        /\ \A t \in Slots : Extent(d, t) = Extent(c, t)
    BY <2>1, <2>3 DEF OnePageAllocated, Extent
  <2>10. SlotsBacked(d)
    <3>1. Backs(d.page_table[s], Extent(d, s))
      <4>1. \A i \in Logical : d.page_table[s][i] # Unmapped <=> c.page_table[s][i] # Unmapped
        BY <2>4, <2>9, Sizes DEF source
      <4>2. Backs(c.page_table[s], Extent(c, s))
        BY DEF Sound, SlotsBacked
      <4> QED
        BY <2>9, <4>1, <4>2 DEF Backs
    <3> QED
      BY <2>9, <3>1 DEF Sound, SlotsBacked
  <2>11. AppendsPrivate(d)
    <3> SUFFICES ASSUME NEW t \in Slots, NEW i \in Logical, d.page_table[t][i] # Unmapped,
                        Start(i) + PageTokens > d.kv_length[t]
                 PROVE  d.ref_count[d.page_table[t][i]] = 1
      BY DEF AppendsPrivate
    <3>1. CASE t = s /\ i = l
      BY <2>1, <2>4, <2>5, <2>9, <3>1 DEF OnePageAllocated
    <3>2. CASE ~(t = s /\ i = l)
      <4>1. PICK p \in Pages : p = d.page_table[t][i]
        BY <2>6, Typed DEF PageMap
      <4>2. c.page_table[t][i] = p
        BY <2>9, <3>2, <4>1
      <4>3. c.ref_count[p] = 1
        BY <2>3, <2>9, <3>2, <4>1, <4>2 DEF Sound, AppendsPrivate
      <4>4. p # source /\ p # page
        BY <1>3, <2>4, <4>3
      <4> QED
        BY <2>1, <2>5, <4>1, <4>3, <4>4 DEF OnePageAllocated
    <3> QED
      BY <3>1, <3>2
  <2>12. GraftsCounted(d)
    BY <2>3 DEF Sound, GraftsCounted, Grafted, LiveKeys
  <2>13. PrefixesWhole(d) /\ RecencyOrders(d)
    BY <2>3 DEF Sound, PrefixesWhole, RecencyOrders, LiveKeys
  <2>14. ReservationsExplained(d)
    <3>1. \A t \in Slots : t # s =>
            /\ ~Open(d, t) => d.reservation[t] = NoReservation
            /\ FreshExplained(d, t, d.reservation[t])
            /\ SourcesKept(d, t, d.reservation[t])
      BY <2>3, <2>9 DEF Sound, ReservationsExplained, FreshExplained, SourcesKept, Open
    <3>2. ~Open(d, s) => d.reservation[s] = NoReservation
      BY <2>3 DEF Sound, ReservationsExplained, Open
    <3>3. FreshExplained(d, s, d.reservation[s])
      <4>1. c.kv_length[s] # 0 /\ c.reservation[s].fresh = {}
        <5>1. c.page_table[s] # EmptyMap
          BY <1>1, <1>3 DEF CopyOnWriteOK, EmptyMap
        <5> QED
          BY <1>1, <5>1, Closed, EmptySlotMap DEF Sound
      <4> QED
        BY <2>3, <4>1 DEF FreshExplained
    <3>4. SourcesKept(d, s, d.reservation[s])
      <4>1. c.reservation[s].prior = EmptyMap
        BY <1>1, Closed DEF Sound
      <4> QED
        BY <2>3, <4>1, EmptySlot DEF SourcesKept, Distinct
    <3> QED
      BY <3>1, <3>2, <3>3, <3>4 DEF ReservationsExplained
  <2>15. ReservedCounted(d)
    BY <2>3 DEF Sound, ReservedCounted, ReservedBy
  <2> QED
    BY <2>6, <2>8, <2>10, <2>11, <2>12, <2>13, <2>14, <2>15 DEF d, Sound
<1> QED
  BY <1>2, <1>3


-----------------------------------------------------------------------------
(* vx_paged_kv_evict: prefixes that no slot is grafted on go.              *)

(* The removal of a set of prefixes, field by field. *)
LEMMA WithoutPrefixesFields ==
  ASSUME NEW c \in CacheType, NEW V,
         ReleaseMaps(c, V, [k \in Keys |-> c.prefix[k].pages]) \in CacheType
  PROVE  LET d == WithoutPrefixes(c, V)
             r == ReleaseMaps(c, V, [k \in Keys |-> c.prefix[k].pages])
         IN  /\ d.ref_count = r.ref_count /\ d.free = r.free
             /\ d.page_table = c.page_table /\ d.kv_length = c.kv_length
             /\ d.slot_generation = c.slot_generation /\ d.slot_prefix = c.slot_prefix
             /\ d.reservation = c.reservation /\ d.reserved_pages = c.reserved_pages
             /\ d.prefix = [k \in Keys |-> IF k \in V THEN NoPrefix ELSE c.prefix[k]]
             /\ d.older = Forget(c.older, V)
             /\ d \in CacheType
<1> DEFINE d == WithoutPrefixes(c, V)
           r == ReleaseMaps(c, V, [k \in Keys |-> c.prefix[k].pages])
           prefix == [k \in Keys |-> IF k \in V THEN NoPrefix ELSE c.prefix[k]]
           older == Forget(c.older, V)
<1>1. /\ r.page_table = c.page_table /\ r.kv_length = c.kv_length
      /\ r.slot_generation = c.slot_generation /\ r.slot_prefix = c.slot_prefix
      /\ r.reservation = c.reservation /\ r.reserved_pages = c.reserved_pages
      /\ r.prefix = c.prefix /\ r.older = c.older
  BY DEF ReleaseMaps, CacheType
<1>2. d = [r EXCEPT !.prefix = [k \in Keys |-> IF k \in V THEN NoPrefix ELSE @[k]],
                    !.older = Forget(@, V)]
  BY DEF WithoutPrefixes
<1>3. r \in CacheType
  OBVIOUS
<1> HIDE DEF d, r
<1>4. d = [r EXCEPT !.prefix = prefix, !.older = older]
  BY <1>1, <1>2, <1>3 DEF CacheType
<1>5. prefix \in [Keys -> Prefix] /\ older \in SUBSET (Keys \X Keys)
  BY NoPrefixTyped DEF CacheType, Forget
<1> HIDE DEF prefix, older
<1>6. /\ d.ref_count = r.ref_count /\ d.free = r.free
      /\ d.page_table = r.page_table /\ d.kv_length = r.kv_length
      /\ d.slot_generation = r.slot_generation /\ d.slot_prefix = r.slot_prefix
      /\ d.reservation = r.reservation /\ d.reserved_pages = r.reserved_pages
      /\ d.prefix = prefix /\ d.older = older
  BY <1>3, <1>4 DEF CacheType
<1>7. d \in CacheType
  BY <1>3, <1>4, <1>5 DEF CacheType
<1> QED
  BY <1>1, <1>6, <1>7 DEF d, r, prefix, older

(* No slot is grafted on an idle prefix. *)
LEMMA IdleUngrafted ==
  ASSUME NEW c, Sound(c), NEW k \in Idle(c), NEW s \in Slots
  PROVE  c.slot_prefix[s] # k /\ k \in LiveKeys(c) /\ k \in Keys
<1>1. k \in Keys /\ k \in LiveKeys(c) /\ c.prefix[k].slot_references <= 0
  BY DEF Idle, LiveKeys
<1>2. c.prefix[k].slot_references = Cardinality(Grafted(c, k))
  BY <1>1 DEF Sound, GraftsCounted
<1>3. Grafted(c, k) \in SUBSET Slots
  BY DEF Grafted
<1>4. Cardinality(Grafted(c, k)) \in Nat /\ (Cardinality(Grafted(c, k)) = 0 <=> Grafted(c, k) = {})
  BY <1>3, Sizes, Subsets
<1>5. Cardinality(Grafted(c, k)) <= 0
  BY <1>1, <1>2
<1>6. Grafted(c, k) = {}
  BY <1>4, <1>5
<1> QED
  BY <1>1, <1>6 DEF Grafted

(* Removing idle prefixes keeps the cache sound. *)
LEMMA WithoutPrefixesSound ==
  ASSUME NEW c, Sound(c), NEW V \in SUBSET Idle(c)
  PROVE  Sound(WithoutPrefixes(c, V))
<1> DEFINE maps == [k \in Keys |-> c.prefix[k].pages]
           r == ReleaseMaps(c, V, maps)
           d == WithoutPrefixes(c, V)
<1>1. /\ c \in CacheType /\ c.free = {p \in Pages : c.ref_count[p] = 0}
      /\ V \in SUBSET Keys /\ IsFiniteSet(V)
  <2>1. V \in SUBSET Keys
    BY DEF Idle, LiveKeys
  <2> QED
    BY <2>1, Sizes, Subsets DEF Sound, Counted
<1>2. MapsReleased(c, r, V, maps)
  BY <1>1, ReleaseEffect
<1>3. r \in CacheType
  BY <1>2 DEF MapsReleased
<1>4. /\ d.ref_count = r.ref_count /\ d.free = r.free
      /\ d.page_table = c.page_table /\ d.kv_length = c.kv_length
      /\ d.slot_generation = c.slot_generation /\ d.slot_prefix = c.slot_prefix
      /\ d.reservation = c.reservation /\ d.reserved_pages = c.reserved_pages
      /\ d.prefix = [k \in Keys |-> IF k \in V THEN NoPrefix ELSE c.prefix[k]]
      /\ d.older = Forget(c.older, V)
      /\ d \in CacheType
  BY <1>1, <1>3, WithoutPrefixesFields
<1> HIDE DEF r, d
<1>5. /\ LiveKeys(d) = LiveKeys(c) \ V
      /\ \A k \in LiveKeys(d) : k \in Keys /\ d.prefix[k] = c.prefix[k]
  <2>1. \A k \in Keys : k \in V => ~d.prefix[k].live
    BY <1>4, NoPrefixTyped
  <2>2. \A k \in Keys : k \notin V => d.prefix[k] = c.prefix[k]
    BY <1>4
  <2> QED
    BY <2>1, <2>2 DEF LiveKeys
<1>6. \A p \in Pages : /\ SlotsOn(d, p) = SlotsOn(c, p)
                       /\ PrefixesOn(d, p) = PrefixesOn(c, p) \ V
                       /\ SourcesOn(d, p) = SourcesOn(c, p)
  BY <1>4, <1>5 DEF SlotsOn, PrefixesOn, SourcesOn
<1>7. \A p \in Pages : /\ d.ref_count[p] = Held(d, p)
                       /\ d.ref_count[p] <= c.ref_count[p]
  <2> TAKE p \in Pages
  <2> DEFINE gone == PrefixesOn(c, p) \cap V
  <2>1. Drops(V, maps, p) = Cardinality(gone)
    <3>1. \A k \in V : k \in LiveKeys(c) /\ maps[k] = c.prefix[k].pages
      BY <1>1 DEF Idle
    <3>2. {k \in V : p \in PagesOf(maps[k])} = gone
      BY <3>1 DEF PrefixesOn
    <3> QED
      BY <3>2 DEF Drops
  <2>2. /\ Cardinality(PrefixesOn(c, p) \ gone) = Cardinality(PrefixesOn(c, p)) - Cardinality(gone)
        /\ Cardinality(gone) <= Cardinality(PrefixesOn(c, p))
        /\ Cardinality(gone) \in Nat
    <3>1. gone \in SUBSET PrefixesOn(c, p) /\ IsFiniteSet(PrefixesOn(c, p))
      BY HoldersFinite
    <3> QED
      BY <3>1, Minus, Subsets
  <2>3. PrefixesOn(d, p) = PrefixesOn(c, p) \ gone
    BY <1>6
  <2>4. c.ref_count[p] = Held(c, p)
    BY DEF Sound, Counted
  <2> HIDE DEF gone, maps
  <2>5. Drops(V, maps, p) <= c.ref_count[p]
    BY <2>1, <2>2, <2>4, HoldersFinite DEF Held
  <2>6. d.ref_count[p] = c.ref_count[p] - Cardinality(gone)
    BY <1>2, <1>4, <2>1, <2>5 DEF MapsReleased
  <2>7. SlotsOn(d, p) = SlotsOn(c, p) /\ SourcesOn(d, p) = SourcesOn(c, p)
    BY <1>6
  <2> QED
    BY <2>2, <2>3, <2>4, <2>6, <2>7, HoldersFinite DEF Held
<1>8. Counted(d)
  BY <1>2, <1>4, <1>7 DEF Counted, MapsReleased
<1>9. SlotsBacked(d)
  BY <1>4 DEF SlotsBacked, Extent, Sound
<1>10. AppendsPrivate(d)
  <2> SUFFICES ASSUME NEW t \in Slots, NEW l \in Logical, d.page_table[t][l] # Unmapped,
                      Start(l) + PageTokens > d.kv_length[t]
               PROVE  d.ref_count[d.page_table[t][l]] = 1
    BY DEF AppendsPrivate
  <2>1. PICK p \in Pages : p = d.page_table[t][l]
    BY <1>4, Typed DEF PageMap
  <2>2. c.ref_count[p] = 1
    BY <1>4, <2>1 DEF AppendsPrivate, Sound
  <2>3. SlotsOn(d, p) # {}
    BY <2>1, InMap DEF SlotsOn
  <2>4. d.ref_count[p] # 0
    BY <1>4, <1>8, <2>3, Unheld
  <2>5. d.ref_count[p] \in Nat /\ d.ref_count[p] <= 1
    BY <1>4, <1>7, <2>2, Typed
  <2> QED
    BY <2>1, <2>4, <2>5
<1>11. GraftsCounted(d)
  <2>1. \A k \in Keys : Grafted(d, k) = Grafted(c, k)
    BY <1>4 DEF Grafted
  <2>2. \A k \in V : Grafted(c, k) = {}
    BY IdleUngrafted DEF Grafted
  <2>3. \A k \in Keys : d.prefix[k].slot_references = Cardinality(Grafted(d, k))
    BY <1>4, <2>1, <2>2, NoPrefixTyped, FS_EmptySet DEF Sound, GraftsCounted
  <2>4. \A s \in Slots : d.slot_prefix[s] # NoKey =>
          d.slot_prefix[s] \in LiveKeys(d) /\ d.kv_length[s] > 0
    BY <1>4, <1>5, IdleUngrafted DEF Sound, GraftsCounted
  <2> QED
    BY <2>3, <2>4 DEF GraftsCounted
<1>12. PrefixesWhole(d)
  BY <1>5 DEF PrefixesWhole, Sound
<1>13. RecencyOrders(d)
  BY <1>4, <1>5, ForgetOrders DEF RecencyOrders, Sound
<1>14. ReservationsExplained(d)
  BY <1>4 DEF ReservationsExplained, FreshExplained, SourcesKept, Open, Extent, Sound
<1>15. ReservedCounted(d)
  BY <1>4 DEF ReservedCounted, ReservedBy, Sound
<1> QED
  BY <1>4, <1>8, <1>9, <1>10, <1>11, <1>12, <1>13, <1>14, <1>15 DEF d, Sound

(* An eviction keeps the cache sound: its victims are idle. *)
LEMMA EvictSound ==
  ASSUME NEW c, Sound(c), NEW n \in Nat
  PROVE  Sound(Evict(c, n))
<1>1. Victims(c, n) \in SUBSET Idle(c)
  BY DEF Victims
<1> QED
  BY <1>1, WithoutPrefixesSound DEF Evict

-----------------------------------------------------------------------------
(* vx_paged_kv_create. *)

(* A new cache is sound. *)
LEMMA EmptyCacheSound == Sound(EmptyCache)
<1> DEFINE c == EmptyCache
<1>1. /\ \A s \in Slots : /\ c.page_table[s] = EmptyMap /\ c.kv_length[s] = 0
                          /\ c.slot_prefix[s] = NoKey
                          /\ c.reservation[s] = NoReservation /\ Extent(c, s) = 0
      /\ \A k \in Keys : c.prefix[k] = NoPrefix
      /\ \A p \in Pages : c.ref_count[p] = 0
      /\ c.free = Pages /\ c.older = {} /\ c.reserved_pages = 0
  BY NothingReserved DEF EmptyCache, Extent
<1>2. c \in CacheType
  BY NothingReserved, NoPrefixTyped, Sizes DEF EmptyCache, CacheType
<1> HIDE DEF c
<1>3. LiveKeys(c) = {}
  BY <1>1, NoPrefixTyped DEF LiveKeys
<1>4. Counted(c)
  <2>1. ASSUME NEW p \in Pages
        PROVE  Held(c, p) = 0
    <3>1. SlotsOn(c, p) = {} /\ PrefixesOn(c, p) = {} /\ SourcesOn(c, p) = {}
      BY <1>1, <1>3, NothingReserved DEF SlotsOn, PrefixesOn, SourcesOn
    <3> QED
      BY <3>1, FS_EmptySet DEF Held
  <2> QED
    BY <1>1, <2>1 DEF Counted
<1>5. SlotsBacked(c) /\ AppendsPrivate(c)
  BY <1>1, EmptySlot DEF SlotsBacked, AppendsPrivate
<1>6. GraftsCounted(c)
  <2>1. \A k \in Keys : Grafted(c, k) = {}
    BY <1>1, Sizes DEF Grafted
  <2> QED
    BY <1>1, <2>1, NoPrefixTyped, FS_EmptySet DEF GraftsCounted
<1>7. PrefixesWhole(c) /\ RecencyOrders(c)
  BY <1>1, <1>3 DEF PrefixesWhole, RecencyOrders, Orders
<1>8. ReservationsExplained(c)
  <2> SUFFICES ASSUME NEW s \in Slots
               PROVE  /\ ~Open(c, s) => c.reservation[s] = NoReservation
                      /\ FreshExplained(c, s, c.reservation[s])
                      /\ SourcesKept(c, s, c.reservation[s])
    BY DEF ReservationsExplained
  <2> QED
    BY <1>1, NothingReserved, EmptySlot DEF FreshExplained, SourcesKept, Distinct
<1>9. ReservedCounted(c)
  BY <1>1, TakenByNone DEF ReservedCounted
<1> QED
  BY <1>2, <1>4, <1>5, <1>6, <1>7, <1>8, <1>9 DEF Sound, c

-----------------------------------------------------------------------------
(* Open reservations can be settled.                                       *)

(* Each fresh page of an open reservation is mapped and held, and so is    *)
(* the page it replaced.                                                   *)
LEMMA FreshHeld ==
  ASSUME NEW c, Sound(c), NEW s \in Slots, NEW l \in c.reservation[s].fresh
  PROVE  /\ c.page_table[s][l] # Unmapped
         /\ c.ref_count[c.page_table[s][l]] > 0
         /\ c.reservation[s].prior[l] # Unmapped => c.ref_count[c.reservation[s].prior[l]] > 0
<1>1. c \in CacheType /\ l \in Logical
  BY Typed DEF Sound
<1>3. c.page_table[s][l] # Unmapped
  BY DEF Sound, ReservationsExplained, FreshExplained
<1>4. c.ref_count[c.page_table[s][l]] > 0
  <2>1. PICK p \in Pages : p = c.page_table[s][l]
    BY <1>1, <1>3, Typed DEF PageMap
  <2>2. SlotsOn(c, p) # {}
    BY <1>1, <2>1, InMap DEF SlotsOn
  <2>3. c.ref_count[p] # 0 /\ c.ref_count[p] \in Nat
    BY <1>1, <2>2, Unheld, Typed DEF Sound
  <2> QED
    BY <2>1, <2>3
<1>5. ASSUME c.reservation[s].prior[l] # Unmapped
      PROVE  c.ref_count[c.reservation[s].prior[l]] > 0
  <2>1. PICK p \in Pages : p = c.reservation[s].prior[l]
    BY <1>1, <1>5, Typed DEF PageMap
  <2>2. SourcesOn(c, p) # {}
    BY <1>1, <2>1, InMap DEF SourcesOn
  <2>3. c.ref_count[p] # 0 /\ c.ref_count[p] \in Nat
    BY <1>1, <2>2, Unheld, Typed DEF Sound
  <2> QED
    BY <2>1, <2>3
<1> QED
  BY <1>3, <1>4, <1>5

(* A commit or a rollback of open reservations is never refused. *)
LEMMA OpenSettles ==
  ASSUME NEW c, Sound(c), NEW S \in SUBSET {s \in Slots : Open(c, s)}
  PROVE  CommitOK(c, S)
<1>1. S \in SUBSET Slots
  OBVIOUS
<1>2. Settleable(c, S)
  BY FreshHeld DEF Settleable
<1>3. /\ ReservedBy(c, Slots) = ReservedBy(c, S) + ReservedBy(c, Slots \ S)
      /\ ReservedBy(c, S) \in Nat /\ ReservedBy(c, Slots \ S) \in Nat
  BY <1>1, TakenSplits, TakenFinite
<1>4. ReservedBy(c, S) <= c.reserved_pages
  BY <1>3 DEF Sound, ReservedCounted
<1> QED
  BY <1>2, <1>4 DEF CommitOK

=============================================================================
