------------------------ MODULE BatchSchedulerProofs ------------------------
(***************************************************************************)
(* Theorems about the paged cache under any legal sequence of calls        *)
(* (PagedKV) and about the batch scheduler that works on one               *)
(* (BatchScheduler), for every pool, page size, number of slots, set of    *)
(* works and keys, width, token budget and queue depth.                    *)
(*                                                                         *)
(* The cache's inductive invariant is Sound of PagedKVCacheProofs.  The    *)
(* scheduler's is IInv: the cache is sound, and every work is where its    *)
(* record, the lists, the slots and the pending dispatches say, with F as  *)
(* the witness of what flies.  Inside a call the works pass through states *)
(* no caller sees, so that the lemmas are about Whole(q, F), which allows  *)
(* them: each helper of the code that changes the scheduler has a lemma    *)
(* that says what it keeps and whom it concerns (Elsewhere), loops are     *)
(* folds whose invariant is proved by Folding!InOrder, and the calls put   *)
(* them together.                                                          *)
(***************************************************************************)
EXTENDS BatchScheduler, PagedKV, PagedKVCacheProofs, SequenceTheorems

-----------------------------------------------------------------------------
(* The inputs the steps quantify over are natural numbers. *)
LEMMA Inputs ==
  /\ \A n \in Lengths : n \in Nat
  /\ \A n \in 0 .. MaxPages : n \in Nat
BY Sizes DEF Lengths

(* Every public call leaves a sound cache sound. *)
LEMMA StepSound ==
  ASSUME Sound(cache), [CacheNext]_cache
  PROVE  Sound(cache')
<1>1. ASSUME NEW s \in Slots, ReserveStep(s)
      PROVE  Sound(cache')
  BY <1>1, Inputs, ReserveSound DEF ReserveStep
<1>2. ASSUME NEW s \in Slots, ReserveWriteStep(s)
      PROVE  Sound(cache')
  BY <1>2, Inputs, ReserveWriteSound DEF ReserveWriteStep
<1>3. ASSUME NEW s \in Slots, AppendStep(s)
      PROVE  Sound(cache')
  BY <1>3, Inputs, AppendSound DEF AppendStep
<1>4. ASSUME NEW s \in Slots, ReleaseStep(s)
      PROVE  Sound(cache')
  BY <1>4, ReleaseSlotSound DEF ReleaseStep
<1>5. ASSUME NEW s \in Slots, CopyOnWriteStep(s)
      PROVE  Sound(cache')
  BY <1>5, CopyOnWriteSound DEF CopyOnWriteStep
<1>6. ASSUME NEW k \in Keys, NEW s \in Slots, PublishStep(k, s)
      PROVE  Sound(cache')
  BY <1>6, Inputs, PublishSound DEF PublishStep
<1>7. ASSUME NEW k \in Keys, NEW s \in Slots, AcquireStep(k, s)
      PROVE  Sound(cache')
  BY <1>7, AcquireSound DEF AcquireStep
<1>8. CASE CommitBatch
  BY <1>8, CommitSound DEF CommitBatch
<1>9. CASE RollbackBatch
  BY <1>9, RollbackSound DEF RollbackBatch
<1>10. CASE ResetStep
  BY <1>10, ResetSound DEF ResetStep
<1>11. CASE EvictStep
  BY <1>11, Inputs, EvictSound DEF EvictStep
<1>12. ASSUME NEW s \in Slots, ShortenStep(s)
       PROVE  Sound(cache')
  BY <1>12, Inputs, ShortenSound DEF ShortenStep
<1>13. CASE UNCHANGED cache
  BY <1>13
<1> QED
  BY <1>1, <1>2, <1>3, <1>4, <1>5, <1>6, <1>7, <1>8, <1>9, <1>10, <1>11, <1>12, <1>13
     DEF CacheNext

(* The inductive invariant: from an empty cache, any legal sequence of     *)
(* public calls leads to a sound one.                                      *)
THEOREM CacheAlwaysSound == CacheSpec => []Sound(cache)
<1>1. CacheInit => Sound(cache)
  BY EmptyCacheSound DEF CacheInit
<1>2. Sound(cache) /\ [CacheNext]_cache => Sound(cache)'
  BY StepSound
<1> QED
  BY <1>1, <1>2, PTL DEF CacheSpec

(* Lengths, generations and counts keep their types: no reference count,   *)
(* length or generation ever goes below zero and every mapped page exists. *)
THEOREM CacheTypeCorrect == CacheSpec => []CacheTypeOK
<1>1. Sound(cache) => CacheTypeOK
  BY DEF Sound, CacheTypeOK
<1> QED
  BY <1>1, CacheAlwaysSound, PTL

-----------------------------------------------------------------------------
(* What a sound cache promises its callers.                                *)

(* The holders of a page, tagged by kind, are as many as the three kinds   *)
(* add up to.                                                              *)
LEMMA HoldersHeld ==
  ASSUME NEW p \in Pages
  PROVE  Cardinality(Holders(p)) = Held(cache, p)
<1> DEFINE A == {"slot"} \X SlotsOn(cache, p)
           B == {"prefix"} \X PrefixesOn(cache, p)
           C == {"source"} \X SourcesOn(cache, p)
<1>1. \A x, S : IsFiniteSet(S) => /\ IsFiniteSet({x} \X S)
                                  /\ Cardinality({x} \X S) = Cardinality(S)
  <2> TAKE x, S
  <2> HAVE IsFiniteSet(S)
  <2>1. IsFiniteSet({x}) /\ Cardinality({x}) = 1 /\ Cardinality(S) \in Nat
    BY FS_Singleton, FS_CardinalityType
  <2>2. IsFiniteSet({x} \X S) /\ Cardinality({x} \X S) = 1 * Cardinality(S)
    BY <2>1, FS_Product
  <2> QED
    BY <2>1, <2>2
<1>2. /\ IsFiniteSet(A) /\ Cardinality(A) = Cardinality(SlotsOn(cache, p))
      /\ IsFiniteSet(B) /\ Cardinality(B) = Cardinality(PrefixesOn(cache, p))
      /\ IsFiniteSet(C) /\ Cardinality(C) = Cardinality(SourcesOn(cache, p))
  BY <1>1, HoldersFinite
<1>3. A \cap B = {} /\ (A \cup B) \cap C = {}
  OBVIOUS
<1>4. Holders(p) = (A \cup B) \cup C
  BY DEF Holders, SlotsOn, PrefixesOn, SourcesOn
<1> HIDE DEF A, B, C
<1>5. IsFiniteSet(A \cup B)
  BY <1>2, FS_Union
<1>6. /\ Cardinality(A \cup B) = Cardinality(A) + Cardinality(B)
      /\ Cardinality((A \cup B) \cup C) = Cardinality(A \cup B) + Cardinality(C)
  BY <1>2, <1>3, <1>5, Plus
<1> QED
  BY <1>2, <1>4, <1>6 DEF Held

(* A sound cache accounts for its pages. *)
LEMMA SoundAccounts ==
  ASSUME Sound(cache)
  PROVE  PagesAccounted
<1>1. RefCountIsHolders
  BY HoldersHeld DEF RefCountIsHolders, Sound, Counted
<1>2. FreeIffUnreferenced
  BY DEF FreeIffUnreferenced, Sound, Counted
<1>3. PrefixHoldersCounted
  <2>1. \A k \in Keys : cache.prefix[k].slot_references =
                          Cardinality({s \in Slots : cache.slot_prefix[s] = k})
    BY DEF Sound, GraftsCounted, Grafted
  <2>2. \A s \in Slots : cache.slot_prefix[s] \in LiveKeys(cache) \cup {NoKey}
    BY DEF Sound, GraftsCounted
  <2> QED
    BY <2>1, <2>2 DEF PrefixHoldersCounted
<1>4. TokensMapped
  <2> SUFFICES ASSUME NEW s \in Slots, NEW l \in Logical
               PROVE  /\ Start(l) < Extent(cache, s) => cache.page_table[s][l] # Unmapped
                      /\ cache.page_table[s][l] # Unmapped =>
                           /\ \A k \in Logical \ {l} :
                                cache.page_table[s][k] # cache.page_table[s][l]
                           /\ cache.kv_length[s] = 0 => l \in cache.reservation[s].fresh
    BY DEF TokensMapped, Start, Extent
  <2>1. Backs(cache.page_table[s], Extent(cache, s))
    BY DEF Sound, SlotsBacked
  <2>2. FreshExplained(cache, s, cache.reservation[s])
    BY DEF Sound, ReservationsExplained
  <2> QED
    BY <2>1, <2>2 DEF Backs, Distinct, FreshExplained
<1>5. AppendTargetExclusive
  <2> SUFFICES ASSUME NEW s \in Slots, NEW l \in Logical,
                      l >= cache.kv_length[s] \div PageTokens,
                      cache.page_table[s][l] # Unmapped
               PROVE  cache.ref_count[cache.page_table[s][l]] = 1
    BY DEF AppendTargetExclusive
  <2>1. cache.kv_length[s] \in Nat /\ l \in Nat
    BY Typed, Sizes DEF Sound
  <2>2. PICK q \in Nat : q = cache.kv_length[s] \div PageTokens
    BY <2>1, PageOfToken
  <2>3. ~(l < q)
    BY <2>1, <2>2
  <2>4. ~(Start(l) + PageTokens <= cache.kv_length[s])
    BY <2>1, <2>2, <2>3, PageOfToken
  <2>5. Start(l) + PageTokens > cache.kv_length[s]
    BY <2>1, <2>4, Starts, Sizes
  <2> QED
    BY <2>5 DEF Sound, AppendsPrivate
<1> QED
  BY <1>1, <1>2, <1>3, <1>4, <1>5 DEF PagesAccounted

(* Pages are accounted for after any mixture of reservations, rollbacks,   *)
(* early stops, sharing and eviction: counted by holder, free when         *)
(* unheld, mapped wherever tokens need them, and private where a slot may  *)
(* write, the pages mapped ahead of its tokens included.                   *)
THEOREM PagesAlwaysAccounted == CacheSpec => []PagesAccounted
<1>1. Sound(cache) => PagesAccounted
  BY SoundAccounts
<1> QED
  BY <1>1, CacheAlwaysSound, PTL

(* reserved_pages agrees with the open reservations, so that the statuses  *)
(* of commit and rollback may be cast to void: neither is ever refused     *)
(* over reservations that are open, alone or in a batch.                   *)
THEOREM ReservationsAlwaysSettle == CacheSpec => []ReservationsSettle
<1>1. ASSUME Sound(cache)
      PROVE  ReservationsSettle
  <2>1. ReservedIsOpen
    BY <1>1 DEF ReservedIsOpen, Sound, ReservedCounted
  <2>2. \A S \in SUBSET {s \in Slots : Open(cache, s)} : CommitOK(cache, S)
    BY <1>1, OpenSettles
  <2> QED
    BY <2>1, <2>2 DEF ReservationsSettle, AlwaysSettleable
<1>2. Sound(cache) => ReservationsSettle
  BY <1>1
<1> QED
  BY <1>2, CacheAlwaysSound, PTL


-----------------------------------------------------------------------------
(* What a call leaves to the readers of prefixes and the owners of work.   *)

KeepsReaders(c, d) ==
  /\ PrefixPagesStable(c, d)
  /\ OccupantChangesGeneration(c, d)
  /\ EvictionTakesOldestIdle(c, d)

(* When the prefixes that stay list what they listed, none of their pages  *)
(* is free.                                                                *)
LEMMA PagesStay ==
  ASSUME NEW c, NEW d, Sound(d),
         \A k \in LiveKeys(c) \cap LiveKeys(d) : d.prefix[k].pages = c.prefix[k].pages
  PROVE  PrefixPagesStable(c, d)
<1> SUFFICES ASSUME NEW k \in LiveKeys(c) \cap LiveKeys(d),
                    NEW p \in d.free, p \in PagesOf(c.prefix[k].pages)
             PROVE  FALSE
  BY DEF PrefixPagesStable
<1>1. d \in CacheType /\ p \in Pages
  BY Typed DEF Sound
<1>2. k \in PrefixesOn(d, p)
  BY DEF PrefixesOn
<1> QED
  BY <1>1, <1>2, Unheld DEF Sound

(* A call that evicts nothing, moves no prefix and shortens no slot. *)
LEMMA QuietCall ==
  ASSUME NEW c, NEW d, Sound(c), Sound(d),
         LiveKeys(c) \subseteq LiveKeys(d),
         \A k \in LiveKeys(c) : d.prefix[k].pages = c.prefix[k].pages,
         \A s \in Slots : d.kv_length[s] >= c.kv_length[s]
  PROVE  KeepsReaders(c, d)
<1>1. PrefixPagesStable(c, d)
  BY PagesStay
<1>2. OccupantChangesGeneration(c, d)
  <2>1. \A s \in Slots : c.kv_length[s] \in Nat /\ d.kv_length[s] \in Nat
    BY Typed DEF Sound
  <2> QED
    BY <2>1 DEF OccupantChangesGeneration
<1>3. EvictionTakesOldestIdle(c, d)
  BY DEF EvictionTakesOldestIdle
<1> QED
  BY <1>1, <1>2, <1>3 DEF KeepsReaders

(* A reservation touches neither prefixes nor lengths. *)
LEMMA ReserveQuiet ==
  ASSUME NEW c, Sound(c), NEW s \in Slots, NEW n \in Nat
  PROVE  Reserve(c, s, n).prefix = c.prefix /\ Reserve(c, s, n).kv_length = c.kv_length
BY ReserveFields DEF Sound

(* Nor does a reservation for a write. *)
LEMMA ReserveWriteQuiet ==
  ASSUME NEW c, Sound(c), NEW s \in Slots, NEW n \in Nat, NEW position,
         Reserve(c, s, n) \in CacheType
  PROVE  /\ ReserveWrite(c, s, n, position).prefix = c.prefix
         /\ ReserveWrite(c, s, n, position).kv_length = c.kv_length
<1> DEFINE r == Reserve(c, s, n)
           d == ReserveWrite(c, s, n, position)
<1>1. r.prefix = c.prefix /\ r.kv_length = c.kv_length
  BY ReserveQuiet
<1>2. d.prefix = r.prefix /\ d.kv_length = r.kv_length
  <2>1. r \in CacheType
    OBVIOUS
  <2>2. d = IF ~NeedsCopy(c, s, n, position) THEN r
            ELSE [Allocate(r, s, {position \div PageTokens}) EXCEPT
                   !.reserved_pages = @ + 1,
                   !.reservation = Put(@, s, [r.reservation[s] EXCEPT
                     !.fresh = @ \cup {position \div PageTokens},
                     !.prior = Put(@, position \div PageTokens, WriteSource(r, s, position))])]
    BY DEF ReserveWrite
  <2> HIDE DEF r, d
  <2> QED
    BY <2>1, <2>2 DEF Allocate, CacheType
<1> QED
  BY <1>1, <1>2

(* A commit touches no prefix and shortens no slot. *)
LEMMA CommitQuiet ==
  ASSUME NEW c, Sound(c), NEW S \in SUBSET Slots
  PROVE  /\ Commit(c, S).prefix = c.prefix
         /\ \A s \in Slots : Commit(c, S).kv_length[s] >= c.kv_length[s]
<1>1. c \in CacheType
  BY DEF Sound
<1>2. /\ Commit(c, S).prefix = c.prefix
      /\ Commit(c, S).kv_length = [s \in Slots |->
           IF s \in S THEN c.kv_length[s] + c.reservation[s].tokens ELSE c.kv_length[s]]
  BY <1>1, CommitFields
<1> QED
  BY <1>1, <1>2, Typed

(* A slot that changes hands changes generation. *)
LEMMA ReleaseKeepsReaders ==
  ASSUME NEW c, Sound(c), NEW s \in Slots, ReleaseSlotOK(c, s)
  PROVE  KeepsReaders(c, ReleaseSlot(c, s))
<1> DEFINE d == ReleaseSlot(c, s)
<1>1. c \in CacheType /\ GraftsCounted(c) /\ Sound(d)
  BY ReleaseSlotSound DEF Sound
<1>2. /\ d.prefix = DropPrefix(c, s)
      /\ d.kv_length = [c.kv_length EXCEPT ![s] = 0]
      /\ d.slot_generation = [c.slot_generation EXCEPT ![s] = NextGeneration(c.slot_generation[s])]
  BY <1>1, ReleaseSlotFields
<1> HIDE DEF d
<1>3. \A k \in Keys : d.prefix[k].live = c.prefix[k].live /\ d.prefix[k].pages = c.prefix[k].pages
  <2>1. \A k \in Keys : /\ DropPrefix(c, s)[k].live = c.prefix[k].live
                        /\ DropPrefix(c, s)[k].pages = c.prefix[k].pages
    BY <1>1, DroppedPrefix
  <2> QED
    BY <1>2, <2>1
<1>4. LiveKeys(d) = LiveKeys(c)
  BY <1>3 DEF LiveKeys
<1>5. PrefixPagesStable(c, d)
  BY <1>1, <1>3, PagesStay DEF LiveKeys
<1>6. OccupantChangesGeneration(c, d)
  <2> SUFFICES ASSUME NEW t \in Slots, d.kv_length[t] < c.kv_length[t], MaxGeneration > 0
               PROVE  d.slot_generation[t] # c.slot_generation[t]
    BY DEF OccupantChangesGeneration
  <2>1. t = s
    BY <1>1, <1>2, Typed DEF CacheType
  <2>2. NextGeneration(c.slot_generation[s]) # c.slot_generation[s]
    BY <1>1, Typed, NextGenerationTyped
  <2> QED
    BY <1>1, <1>2, <2>1, <2>2 DEF CacheType
<1>7. EvictionTakesOldestIdle(c, d)
  BY <1>4 DEF EvictionTakesOldestIdle
<1> QED
  BY <1>5, <1>6, <1>7 DEF KeepsReaders, d

(* A reset changes every generation and leaves no prefix to read. *)
LEMMA ResetKeepsReaders ==
  ASSUME NEW c, Sound(c), ResetOK(c)
  PROVE  KeepsReaders(c, Reset(c))
<1> DEFINE d == Reset(c)
<1>1. c \in CacheType /\ Sound(d)
  BY ResetSound DEF Sound
<1>2. /\ \A k \in Keys : d.prefix[k] = NoPrefix
      /\ \A s \in Slots : /\ d.kv_length[s] = 0
                          /\ d.slot_generation[s] = NextGeneration(c.slot_generation[s])
  BY <1>1 DEF Reset, ReleaseMaps, CacheType
<1> HIDE DEF d
<1>3. LiveKeys(d) = {}
  BY <1>2, NoPrefixTyped DEF LiveKeys
<1>4. PrefixPagesStable(c, d)
  BY <1>3 DEF PrefixPagesStable
<1>5. OccupantChangesGeneration(c, d)
  BY <1>1, <1>2, Typed, NextGenerationTyped DEF OccupantChangesGeneration
<1>6. EvictionTakesOldestIdle(c, d)
  <2> SUFFICES ASSUME NEW k \in LiveKeys(c), d.kv_length = c.kv_length
               PROVE  \A s \in Slots : c.slot_prefix[s] # k
    BY <1>3 DEF EvictionTakesOldestIdle
  <2>1. \A s \in Slots : c.kv_length[s] = 0
    BY <1>2
  <2>2. \A s \in Slots : c.slot_prefix[s] = NoKey
    BY <2>1 DEF Sound, GraftsCounted
  <2> QED
    BY <2>2, Sizes DEF LiveKeys
<1> QED
  BY <1>4, <1>5, <1>6 DEF KeepsReaders, d

(* The more prefixes go, the more pages are free. *)
LEMMA MoreGoneMoreFree ==
  ASSUME NEW c, Sound(c), NEW V \in SUBSET Keys, NEW W \in SUBSET V
  PROVE  /\ FreeCount(WithoutPrefixes(c, W)) <= FreeCount(WithoutPrefixes(c, V))
         /\ FreeCount(WithoutPrefixes(c, W)) \in Nat
         /\ FreeCount(WithoutPrefixes(c, V)) \in Nat
<1> DEFINE maps == [k \in Keys |-> c.prefix[k].pages]
           Freed(X) == WithoutPrefixes(c, X).free
<1>1. c \in CacheType /\ \A p \in Pages : c.ref_count[p] \in Nat
  BY Typed DEF Sound
<1>2. \A X \in SUBSET Keys :
        Freed(X) = c.free \cup {p \in Pages : /\ c.ref_count[p] > 0
                                              /\ Drops(X, maps, p) >= c.ref_count[p]}
  BY <1>1 DEF WithoutPrefixes, ReleaseMaps, CacheType
<1>3. \A p \in Pages : /\ Drops(W, maps, p) <= Drops(V, maps, p)
                       /\ Drops(W, maps, p) \in Nat /\ Drops(V, maps, p) \in Nat
  <2> TAKE p \in Pages
  <2> DEFINE On(X) == {k \in X : p \in PagesOf(maps[k])}
  <2>1. On(W) \in SUBSET On(V) /\ On(V) \in SUBSET Keys
    OBVIOUS
  <2>2. IsFiniteSet(On(V)) /\ Cardinality(On(V)) \in Nat
    BY <2>1, Sizes, Subsets
  <2>3. Cardinality(On(W)) <= Cardinality(On(V)) /\ Cardinality(On(W)) \in Nat
    BY <2>1, <2>2, Subsets
  <2> QED
    BY <2>2, <2>3 DEF Drops
<1>4. W \in SUBSET Keys
  OBVIOUS
<1> HIDE DEF maps, Freed
<1>5. Freed(W) \in SUBSET Freed(V)
  BY <1>1, <1>2, <1>3, <1>4
<1>6. Freed(V) \in SUBSET Pages
  BY <1>1, <1>2, Typed
<1>7. IsFiniteSet(Freed(V)) /\ Cardinality(Freed(V)) \in Nat
  BY <1>6, Sizes, Subsets
<1>8. Cardinality(Freed(W)) <= Cardinality(Freed(V)) /\ Cardinality(Freed(W)) \in Nat
  BY <1>5, <1>7, Subsets
<1> QED
  BY <1>7, <1>8 DEF FreeCount, Freed

(* An idle prefix that stays was used after every one that goes. *)
LEMMA OldestFirst ==
  ASSUME NEW c, Sound(c), NEW n \in Nat,
         NEW k \in Victims(c, n), NEW j \in Idle(c), j \notin Victims(c, n)
  PROVE  <<k, j>> \in c.older
<1>1. Orders(c.older, LiveKeys(c))
  BY DEF Sound, RecencyOrders
<1>2. k \in Idle(c) /\ k \in LiveKeys(c) /\ j \in LiveKeys(c) /\ j # k
  BY DEF Victims, Idle
<1>3. SUFFICES ASSUME <<j, k>> \in c.older
               PROVE  FALSE
  BY <1>1, <1>2 DEF Orders
<1>4. OlderIdle(c, j) \in SUBSET OlderIdle(c, k)
  <2> SUFFICES ASSUME NEW i \in Idle(c), <<i, j>> \in c.older
               PROVE  <<i, k>> \in c.older
    BY DEF OlderIdle
  <2>1. i \in LiveKeys(c)
    BY DEF Idle
  <2> QED
    BY <1>1, <1>2, <1>3, <2>1 DEF Orders
<1>5. OlderIdle(c, k) \in SUBSET Keys
  BY DEF OlderIdle, Idle, LiveKeys
<1>6. /\ FreeCount(WithoutPrefixes(c, OlderIdle(c, j))) <= FreeCount(WithoutPrefixes(c, OlderIdle(c, k)))
      /\ FreeCount(WithoutPrefixes(c, OlderIdle(c, j))) \in Nat
      /\ FreeCount(WithoutPrefixes(c, OlderIdle(c, k))) \in Nat
  BY <1>4, <1>5, MoreGoneMoreFree
<1>7. FreeCount(WithoutPrefixes(c, OlderIdle(c, k))) < n
  BY DEF Victims
<1>8. ~(FreeCount(WithoutPrefixes(c, OlderIdle(c, j))) < n)
  BY DEF Victims
<1> QED
  BY <1>6, <1>7, <1>8

(* An eviction leaves the prefixes that stay alone, and takes the oldest   *)
(* idle ones.                                                              *)
LEMMA EvictKeepsReaders ==
  ASSUME NEW c, Sound(c), NEW n \in Nat
  PROVE  KeepsReaders(c, Evict(c, n))
<1> DEFINE V == Victims(c, n)
           d == Evict(c, n)
<1>1. c \in CacheType /\ Sound(d) /\ V \in SUBSET Idle(c)
  BY EvictSound DEF Sound, Victims
<1>2. /\ d.prefix = [k \in Keys |-> IF k \in V THEN NoPrefix ELSE c.prefix[k]]
      /\ d.kv_length = c.kv_length
  BY <1>1 DEF Evict, WithoutPrefixes, ReleaseMaps, CacheType
<1> HIDE DEF d, V
<1>3. \A k \in Keys : k \notin V => d.prefix[k] = c.prefix[k]
  BY <1>2
<1>4. /\ LiveKeys(d) = LiveKeys(c) \ V
      /\ \A k \in LiveKeys(d) : k \in Keys /\ d.prefix[k] = c.prefix[k]
  BY <1>2, <1>3, NoPrefixTyped DEF LiveKeys
<1>5. PrefixPagesStable(c, d)
  BY <1>1, <1>4, PagesStay
<1>6. OccupantChangesGeneration(c, d)
  BY <1>1, <1>2, Typed DEF OccupantChangesGeneration
<1>7. EvictionTakesOldestIdle(c, d)
  <2> SUFFICES ASSUME NEW k \in LiveKeys(c) \ LiveKeys(d)
               PROVE  /\ \A s \in Slots : c.slot_prefix[s] # k
                      /\ \A j \in LiveKeys(d) : d.prefix[j].slot_references = 0 =>
                           <<k, j>> \in c.older
    BY DEF EvictionTakesOldestIdle
  <2>1. k \in V /\ k \in Idle(c)
    BY <1>1, <1>4
  <2>2. \A s \in Slots : c.slot_prefix[s] # k
    BY <2>1, IdleUngrafted
  <2>3. ASSUME NEW j \in LiveKeys(d), d.prefix[j].slot_references = 0
        PROVE  <<k, j>> \in c.older
    <3>1. j \in LiveKeys(c) /\ j \notin V /\ c.prefix[j].slot_references <= 0
      BY <1>4, <2>3
    <3>2. j \in Idle(c)
      BY <3>1 DEF Idle
    <3> QED
      BY <2>1, <3>1, <3>2, OldestFirst DEF V
  <2> QED
    BY <2>2, <2>3
<1> QED
  BY <1>5, <1>6, <1>7 DEF KeepsReaders, d


(* Publishing moves no live prefix and no length. *)
LEMMA PublishKeepsReaders ==
  ASSUME NEW c, Sound(c), NEW k \in Keys, NEW s \in Slots, NEW n \in Nat,
         PublishOK(c, k, s, n)
  PROVE  KeepsReaders(c, Publish(c, k, s, n))
<1> DEFINE d == Publish(c, k, s, n)
<1>1. Sound(d) /\ c \in CacheType /\ \A t \in Slots : c.kv_length[t] \in Nat
  BY PublishSound, Typed DEF Sound
<1>2. CASE c.prefix[k].live
  <2>1. d = [c EXCEPT !.older = Touch(c, k)]
    BY <1>2 DEF Publish
  <2> HIDE DEF d
  <2>2. d.prefix = c.prefix /\ d.kv_length = c.kv_length
    BY <1>1, <2>1 DEF CacheType
  <2>3. LiveKeys(d) = LiveKeys(c)
    BY <2>2 DEF LiveKeys
  <2> QED
    BY <1>1, <2>2, <2>3, QuietCall DEF d
<1>3. CASE ~c.prefix[k].live
  <2>1. PICK m : m = PublishedPages(c, s, n)
    OBVIOUS
  <2>2. /\ d.kv_length = c.kv_length
        /\ d.prefix = [c.prefix EXCEPT ![k] =
             [live |-> TRUE, tokens |-> n, slot_references |-> 0, pages |-> m]]
    <3>1. d.kv_length = c.kv_length
      BY <1>1, <1>3 DEF Publish, CacheType
    <3>2. d.prefix = [c.prefix EXCEPT ![k] =
            [live |-> TRUE, tokens |-> n, slot_references |-> 0, pages |-> m]]
      BY <1>1, <1>3, <2>1, PutExcept DEF Publish, CacheType
    <3> QED
      BY <3>1, <3>2
  <2> HIDE DEF d
  <2>3. \A j \in Keys : j # k => d.prefix[j] = c.prefix[j]
    BY <1>1, <2>2 DEF CacheType
  <2>4. d.prefix[k].live
    BY <1>1, <2>2 DEF CacheType
  <2>5. /\ LiveKeys(c) \subseteq LiveKeys(d)
        /\ \A j \in LiveKeys(c) : d.prefix[j].pages = c.prefix[j].pages
    BY <1>3, <2>3 DEF LiveKeys
  <2>6. \A t \in Slots : d.kv_length[t] >= c.kv_length[t]
    BY <1>1, <2>2
  <2> QED
    BY <1>1, <2>5, <2>6, QuietCall DEF d
<1> QED
  BY <1>2, <1>3

(* A graft moves no prefix and lengthens an empty slot. *)
LEMMA AcquireKeepsReaders ==
  ASSUME NEW c, Sound(c), NEW k \in Keys, NEW s \in Slots, AcquireOK(c, k, s)
  PROVE  KeepsReaders(c, Acquire(c, k, s))
<1> DEFINE d == Acquire(c, k, s)
<1>1. Sound(d) /\ c \in CacheType /\ \A t \in Slots : c.kv_length[t] \in Nat
  BY AcquireSound, Typed DEF Sound
<1>2. /\ d.prefix = [c.prefix EXCEPT ![k].slot_references = @ + 1]
      /\ d.kv_length = [c.kv_length EXCEPT ![s] = c.prefix[k].tokens]
  <2>1. d.prefix = [c.prefix EXCEPT ![k].slot_references = @ + 1]
    <3>1. d.prefix = Put(c.prefix, k, [c.prefix[k] EXCEPT !.slot_references = @ + 1])
      BY <1>1 DEF Acquire, CacheType
    <3>2. Put(c.prefix, k, [c.prefix[k] EXCEPT !.slot_references = @ + 1])
            = [c.prefix EXCEPT ![k].slot_references = @ + 1]
      BY PutExcept
    <3> QED
      BY <3>1, <3>2
  <2>2. d.kv_length = [c.kv_length EXCEPT ![s] = c.prefix[k].tokens]
    BY <1>1, PutExcept DEF Acquire, CacheType
  <2> QED
    BY <2>1, <2>2
<1> HIDE DEF d
<1>3. \A t \in Slots : d.kv_length[t] >= c.kv_length[t]
  <2>1. c.kv_length[s] = 0 /\ c.prefix[k].tokens \in Nat
    BY <1>1, Typed DEF AcquireOK
  <2> QED
    BY <1>1, <1>2, <2>1 DEF CacheType
<1>4. \A j \in Keys : d.prefix[j].live = c.prefix[j].live /\ d.prefix[j].pages = c.prefix[j].pages
  <2>1. c.prefix \in [Keys -> Prefix] /\ c.prefix[k] \in Prefix
    BY <1>1, Typed DEF CacheType
  <2>2. d.prefix[k] = [c.prefix[k] EXCEPT !.slot_references = @ + 1]
    BY <1>2, <2>1
  <2>3. \A j \in Keys : j # k => d.prefix[j] = c.prefix[j]
    BY <1>2, <2>1
  <2>4. d.prefix[k].live = c.prefix[k].live /\ d.prefix[k].pages = c.prefix[k].pages
    BY <2>1, <2>2 DEF Prefix
  <2> QED
    BY <2>3, <2>4
<1>5. /\ LiveKeys(d) = LiveKeys(c)
      /\ \A j \in LiveKeys(c) : d.prefix[j].pages = c.prefix[j].pages
  BY <1>4 DEF LiveKeys
<1> QED
  BY <1>1, <1>3, <1>5, QuietCall DEF d

(* Every public call keeps what readers and owners rely on. *)
LEMMA StepKeepsReaders ==
  ASSUME Sound(cache), [CacheNext]_cache
  PROVE  KeepsReaders(cache, cache')
<1> DEFINE c == cache
           d == cache'
<1>1. Sound(d) /\ c \in CacheType
  BY StepSound DEF Sound
<1>2. \A s \in Slots : c.kv_length[s] \in Nat
  BY <1>1, Typed
<1>3. ASSUME d.prefix = c.prefix, \A s \in Slots : d.kv_length[s] >= c.kv_length[s]
      PROVE  KeepsReaders(c, d)
  <2>1. LiveKeys(d) = LiveKeys(c)
    BY <1>3 DEF LiveKeys
  <2> QED
    BY <1>1, <1>3, <2>1, QuietCall
<1>4. ASSUME NEW s \in Slots, ReserveStep(s)
      PROVE  KeepsReaders(c, d)
  BY <1>2, <1>3, <1>4, Inputs, ReserveQuiet DEF ReserveStep
<1>5. ASSUME NEW s \in Slots, ReserveWriteStep(s)
      PROVE  KeepsReaders(c, d)
  <2>1. PICK n \in Nat, position \in 0 .. SlotTokenCapacity - 1 :
          ReserveWriteOK(cache, s, n, position) /\ cache' = ReserveWrite(cache, s, n, position)
    BY <1>5, Inputs DEF ReserveWriteStep
  <2>2. Reserve(cache, s, n) \in CacheType
    BY <2>1, ReserveSound DEF ReserveWriteOK, Sound
  <2>3. d.prefix = c.prefix /\ d.kv_length = c.kv_length
    BY <2>1, <2>2, ReserveWriteQuiet
  <2> QED
    BY <1>2, <1>3, <2>3
<1>6. ASSUME NEW s \in Slots, AppendStep(s)
      PROVE  KeepsReaders(c, d)
  <2>1. PICK n \in Nat : ReserveOK(cache, s, n) /\ cache' = AppendTokens(cache, s, n)
    BY <1>6, Inputs DEF AppendStep, AppendOK
  <2>2. PICK r : r = Reserve(cache, s, n)
    OBVIOUS
  <2>3. Sound(r) /\ r.prefix = c.prefix /\ r.kv_length = c.kv_length
    BY <2>1, <2>2, ReserveSound, ReserveQuiet
  <2>4. d = Commit(r, {s})
    BY <2>1, <2>2 DEF AppendTokens
  <2> QED
    BY <1>3, <2>3, <2>4, CommitQuiet
<1>7. ASSUME NEW s \in Slots, ReleaseStep(s)
      PROVE  KeepsReaders(c, d)
  BY <1>7, ReleaseKeepsReaders DEF ReleaseStep
<1>8. ASSUME NEW s \in Slots, CopyOnWriteStep(s)
      PROVE  KeepsReaders(c, d)
  <2>1. PICK l \in Logical : cache' = CopyOnWrite(cache, s, l)
    BY <1>8 DEF CopyOnWriteStep
  <2>2. d.prefix = c.prefix /\ d.kv_length = c.kv_length
    BY <1>1, <2>1 DEF CopyOnWrite, Allocate, CacheType
  <2> QED
    BY <1>2, <1>3, <2>2
<1>9. ASSUME NEW k \in Keys, NEW s \in Slots, PublishStep(k, s)
      PROVE  KeepsReaders(c, d)
  BY <1>9, Inputs, PublishKeepsReaders DEF PublishStep
<1>10. ASSUME NEW k \in Keys, NEW s \in Slots, AcquireStep(k, s)
       PROVE  KeepsReaders(c, d)
  BY <1>10, AcquireKeepsReaders DEF AcquireStep
<1>11. CASE CommitBatch
  <2>1. PICK S \in SUBSET Slots : d = Commit(c, S)
    BY <1>11 DEF CommitBatch
  <2> QED
    BY <1>3, <2>1, CommitQuiet
<1>12. CASE RollbackBatch
  <2>1. PICK S \in SUBSET Slots : d = Rollback(c, S)
    BY <1>12 DEF RollbackBatch
  <2>2. d.prefix = c.prefix /\ d.kv_length = c.kv_length
    BY <1>1, <2>1, RollbackFields
  <2> QED
    BY <1>2, <1>3, <2>2
<1>13. CASE ResetStep
  BY <1>13, ResetKeepsReaders DEF ResetStep
<1>14. CASE EvictStep
  BY <1>14, Inputs, EvictKeepsReaders DEF EvictStep
<1>15. ASSUME NEW s \in Slots, ShortenStep(s)
       PROVE  KeepsReaders(c, d)
  <2>1. PICK n : cache' = Shorten(cache, s, n)
    BY <1>15 DEF ShortenStep
  <2>2. d.prefix = c.prefix /\ d.kv_length = c.kv_length
    BY <1>1, <2>1 DEF Shorten, CacheType
  <2> QED
    BY <1>2, <1>3, <2>2
<1>16. CASE UNCHANGED cache
  BY <1>2, <1>3, <1>16
<1> QED
  BY <1>4, <1>5, <1>6, <1>7, <1>8, <1>9, <1>10, <1>11, <1>12, <1>13, <1>14, <1>15, <1>16
     DEF CacheNext

(* No call of anybody disturbs what others rely on: the pages behind a     *)
(* live prefix, the generation that tells a slot's occupants apart, and    *)
(* the prefix a slot is grafted on; eviction takes the oldest idle ones.   *)
THEOREM ReadersNeverDisturbed == CacheSpec => ReadersUndisturbed
<1>1. Sound(cache) /\ [CacheNext]_cache =>
        [/\ PrefixPagesStable(cache, cache')
         /\ OccupantChangesGeneration(cache, cache')
         /\ EvictionTakesOldestIdle(cache, cache')]_cache
  BY StepKeepsReaders DEF KeepsReaders
<1> QED
  BY <1>1, CacheAlwaysSound, PTL DEF CacheSpec, ReadersUndisturbed

-----------------------------------------------------------------------------
(* The inductive invariant.  It is stated of a scheduler q and of F, which *)
(* says of every work where it is on its way: at rest, leaving the queue,  *)
(* flying in a pending dispatch, or settling, its tokens committed but not *)
(* yet counted.  Between calls F is what the pending dispatches say of     *)
(* their members (Carried), and nothing is leaving or settling.            *)

Scheds ==
  [cache: CacheType, rec: [Works -> Record], requests: Seq(Works), queue: Seq(Works),
   results: Seq(Result), pending: Seq(Dispatches),
   occupants: [Slots -> Works \cup {NoWork}], aged: SUBSET Works,
   closed: BOOLEAN, draining: BOOLEAN, in_round: BOOLEAN]

Kinds == {"stateless", "prefill", "decode"}
(* Where a work is, and what its dispatch says of it. *)
Flight == [at: {"rest", "leaving", "flying", "settling"}, kind: Kinds, rows: Nat,
           slot: Slots \cup {NoSlot}, generation: 0 .. MaxGeneration]
Rest == [at |-> "rest", kind |-> "stateless", rows |-> 0, slot |-> NoSlot, generation |-> 0]
Leaving == [at |-> "leaving", kind |-> "stateless", rows |-> 0, slot |-> NoSlot,
            generation |-> 0]
Flights == [Works -> Flight]
AllRest == [w \in Works |-> Rest]

Admitted == {"prefill", "decoding"}
HasResult(q, w) == \E i \in DOMAIN q.results : q.results[i].work = w

(* No list names a work twice. *)
NamedOnce(q) ==
  /\ IsInjective(q.queue) /\ IsInjective(q.requests)
  /\ \A i, j \in DOMAIN q.results : q.results[i].work = q.results[j].work => i = j

(* A slot without occupant is empty, and an occupant knows its slot. *)
SlotFine(q, s) ==
  IF q.occupants[s] = NoWork THEN q.cache.kv_length[s] = 0 /\ ~Open(q.cache, s)
                             ELSE q.rec[q.occupants[s]].slot = s

(* Where a work is listed follows from its state. *)
Listed(q, w, f) ==
  LET e == q.rec[w]
  IN  /\ w \in Range(q.requests) <=> e.state # "unknown"
      /\ e.state = "unknown" => e = NoRecord
      /\ e.state # "unknown" => Acceptable(w)
      /\ e.state \in Live => ~HasResult(q, w)
      /\ w \in Range(q.queue) => e.state = "queued" /\ ~e.cancel_requested /\ f.at = "rest"
      /\ e.state = "queued" => e.generated = 0 /\ (w \in Range(q.queue) \/ f.at # "rest")
      /\ e.slot # NoSlot <=> e.state \in Admitted
      /\ e.pending => e.state = "prefill" /\ f.at = "rest"

(* What an admitted work owns. *)
Ahead(f) == IF f.at = "settling" /\ f.kind # "stateless" THEN f.rows ELSE 0
Owning(q, w, f) ==
  LET e == q.rec[w]
  IN  e.slot # NoSlot =>
        /\ ~Stateless(w)
        /\ q.occupants[e.slot] = w
        /\ q.cache.slot_generation[e.slot] = e.slot_generation
        /\ e.prefilled <= Work[w].prompt_tokens
        /\ e.generated < Work[w].max_tokens \/ f.at = "leaving"
        /\ e.state = "prefill" => e.generated = 0
        /\ q.cache.kv_length[e.slot] = e.prefilled + e.generated + Ahead(f)
        /\ Open(q.cache, e.slot) <=> e.pending \/ f.at = "flying"
        /\ e.pending => /\ e.prefilled < Work[w].prompt_tokens
                        /\ q.cache.reservation[e.slot].tokens =
                             Least(Work[w].prompt_tokens - e.prefilled, TokenBudget)

(* What a dispatched work keeps until its dispatch is settled. *)
Travelling(q, w, f) ==
  LET e == q.rec[w]
  IN  f.at \in {"flying", "settling"} =>
        IF f.kind = "stateless" THEN Stateless(w) /\ e.state \in {"queued"} \cup Terminal
        ELSE /\ f.slot # NoSlot /\ e.slot = f.slot /\ e.slot_generation = f.generation
             /\ f.at = "flying" => q.cache.reservation[f.slot].tokens = f.rows
             /\ IF f.kind = "prefill"
                THEN e.state = "prefill" /\ e.prefilled + f.rows <= Work[w].prompt_tokens
                ELSE e.state = "decoding" /\ f.rows = 1

Good(q, w, f) == Listed(q, w, f) /\ Owning(q, w, f) /\ Travelling(q, w, f)

(* Types, the cache, the lists, the slots, and every work where F says. *)
Whole(q, F) ==
  /\ q \in Scheds /\ F \in Flights
  /\ Sound(q.cache)
  /\ NamedOnce(q)
  /\ \A s \in Slots : SlotFine(q, s)
  /\ \A w \in Works : Good(q, w, F[w])

(* A pending dispatch as it was made. *)
FlightOf(d, m) == [at |-> "flying", kind |-> d.kind, rows |-> d.rows, slot |-> d.slot[m],
                   generation |-> d.generation[m]]
Padding(d) == IF d.kind = "stateless" THEN (- Len(d.members)) % MultipleOf ELSE 0
Made(d) ==
  /\ Len(d.slot) = Len(d.members) /\ Len(d.generation) = Len(d.members)
  /\ Len(d.members) > 0
  /\ Len(d.members) + Padding(d) <= MaxSlots
  /\ (Len(d.members) + Padding(d)) * d.rows <= TokenBudget
  /\ \A v, w \in Range(d.members) : KeyOf(v) = KeyOf(w)
  /\ d.kind = "stateless" => \A m \in DOMAIN d.members : d.slot[m] = NoSlot

(* F is what the pending dispatches P say of their members, each of which  *)
(* is in one place of one of them.                                         *)
Carried(P, F) ==
  /\ \A i \in DOMAIN P : Made(P[i])
  /\ \A i \in DOMAIN P : \A m \in DOMAIN P[i].members : F[P[i].members[m]] = FlightOf(P[i], m)
  /\ \A i, j \in DOMAIN P : \A m \in DOMAIN P[i].members, n \in DOMAIN P[j].members :
       P[i].members[m] = P[j].members[n] => i = j /\ m = n
  /\ \A w \in Works : F[w] # Rest =>
       \E i \in DOMAIN P : \E m \in DOMAIN P[i].members : P[i].members[m] = w

(* Admission's reservations have all been taken over. *)
Settled(q) == \A w \in Works : ~q.rec[w].pending

(* Nothing is left over between rounds. *)
Between(q) ==
  \A w \in Works : q.rec[w].state \notin Terminal /\ ~q.rec[w].cancel_requested

(* Between calls. *)
Sane(q) ==
  /\ \E F \in Flights : Whole(q, F) /\ Carried(q.pending, F)
  /\ Settled(q)
  /\ q.in_round <=> q.pending # <<>>
  /\ ~q.in_round => Between(q)

IInv == Sane(sched)

-----------------------------------------------------------------------------
(* Constants, and the order of the slots.                                  *)

(* The constants are what SchedulerConstants says of them. *)
LEMMA Numbers ==
  /\ MaxQueueDepth \in Nat /\ MaxQueueDepth > 0
  /\ ResultCapacity \in Nat /\ ResultCapacity > 0
  /\ MaxSlots \in Nat /\ MaxSlots > 0 /\ TokenBudget \in Nat /\ TokenBudget > 0
  /\ MultipleOf \in Nat /\ MultipleOf > 0 /\ MultipleOf <= MaxSlots
  /\ IsFiniteSet(Works) /\ NoWork \notin Works /\ FillFirst \in BOOLEAN
  /\ \A w \in Works :
       /\ Work[w].kind \in {"decode", "stateless"} /\ Work[w].rows \in Nat
       /\ Work[w].prompt_tokens \in Nat /\ Work[w].max_tokens \in Nat
       /\ Work[w].prompt_key \in Keys \cup {NoKey}
  /\ NoSlot \notin Slots /\ \A s \in Slots : s \in Nat /\ s # NoSlot
BY SchedulerConstants DEF NoSlot, Slots

(* The slots in their order: each is visited once. *)
LEMMA Visits ==
  /\ SlotOrder \in Seq(Slots) /\ Len(SlotOrder) = NumSlots /\ DOMAIN SlotOrder = 1 .. NumSlots
  /\ \A i \in 1 .. NumSlots : SlotOrder[i] = i - 1 /\ SlotOrder[i] \in Slots
  /\ NumSlots \in Nat
<1>1. NumSlots \in Nat
  BY Sizes
<1>2. SlotOrder \in [1 .. NumSlots -> Slots]
  BY <1>1 DEF SlotOrder, Slots
<1>3. SlotOrder \in Seq(Slots)
  BY <1>1, <1>2
<1>4. DOMAIN SlotOrder = 1 .. NumSlots /\ \A i \in 1 .. NumSlots : SlotOrder[i] = i - 1
  BY DEF SlotOrder
<1>5. Len(SlotOrder) = NumSlots
  BY <1>1, <1>3, <1>4
<1> QED
  BY <1>1, <1>2, <1>3, <1>4, <1>5

(* A record without a slot is a record. *)
LEMMA RecordTypes ==
  /\ NoRecord \in Record /\ Rest \in Flight /\ Leaving \in Flight /\ AllRest \in Flights
  /\ Rest.at = "rest" /\ Leaving.at = "leaving" /\ Rest.kind = "stateless"
  /\ Leaving.kind = "stateless" /\ NoRecord.state = "unknown" /\ NoRecord.slot = NoSlot
  /\ NoRecord.pending = FALSE /\ NoRecord.cancel_requested = FALSE /\ NoRecord.generated = 0
<1>1. 0 \in 0 .. MaxGeneration
  BY Sizes
<1> QED
  BY <1>1 DEF NoRecord, Record, Rest, Leaving, Flight, Flights, AllRest, Kinds, Live, Terminal

-----------------------------------------------------------------------------
(* What the scheduler sees of the cache, call by call.                     *)

Untouched(c, d, s) ==
  /\ d.kv_length[s] = c.kv_length[s] /\ d.slot_generation[s] = c.slot_generation[s]
  /\ d.reservation[s] = c.reservation[s]

(* A reservation opens one slot. *)
LEMMA ReserveSeen ==
  ASSUME NEW c, Sound(c), NEW s \in Slots, NEW n \in Nat, ReserveOK(c, s, n),
         NEW d, d = Reserve(c, s, n)
  PROVE  /\ Sound(d) /\ \A t \in Slots : t # s => Untouched(c, d, t)
         /\ d.kv_length[s] = c.kv_length[s] /\ d.slot_generation[s] = c.slot_generation[s]
         /\ Open(d, s) /\ d.reservation[s].tokens = n
<1>1. c \in CacheType /\ c.reservation \in [Slots -> Reservation]
  BY DEF Sound, CacheType
<1>2. Sound(d)
  BY ReserveSound
<1>3. /\ d.kv_length = c.kv_length /\ d.slot_generation = c.slot_generation
      /\ d.reservation = [c.reservation EXCEPT ![s] =
                           [open |-> TRUE, tokens |-> n, fresh |-> Missing(c, s, n),
                            prior |-> EmptyMap]]
  BY <1>1, ReserveFields
<1> QED
  BY <1>1, <1>2, <1>3 DEF Untouched, Open

(* A commit closes slots, and their tokens count. *)
LEMMA CommitSeen ==
  ASSUME NEW c, Sound(c), NEW S \in SUBSET Slots, NEW d, d = Commit(c, S)
  PROVE  /\ Sound(d) /\ \A t \in Slots : t \notin S => Untouched(c, d, t)
         /\ \A s \in S : /\ d.kv_length[s] = c.kv_length[s] + c.reservation[s].tokens
                         /\ d.slot_generation[s] = c.slot_generation[s]
                         /\ ~Open(d, s)
<1>1. c \in CacheType
  BY DEF Sound
<1>2. Sound(d)
  BY CommitSound
<1>3. /\ d.slot_generation = c.slot_generation
      /\ d.kv_length = [s \in Slots |-> IF s \in S THEN c.kv_length[s] + c.reservation[s].tokens
                                                  ELSE c.kv_length[s]]
      /\ d.reservation = [s \in Slots |-> IF s \in S THEN NoReservation ELSE c.reservation[s]]
  BY <1>1, CommitFields
<1> QED
  BY <1>2, <1>3, NothingReserved DEF Untouched, Open

(* A rollback closes slots, and nothing else changes. *)
LEMMA RollbackSeen ==
  ASSUME NEW c, Sound(c), NEW S \in SUBSET Slots, NEW d, d = Rollback(c, S)
  PROVE  /\ Sound(d) /\ \A t \in Slots : t \notin S => Untouched(c, d, t)
         /\ \A s \in S : /\ d.kv_length[s] = c.kv_length[s]
                         /\ d.slot_generation[s] = c.slot_generation[s]
                         /\ ~Open(d, s)
<1>1. c \in CacheType
  BY DEF Sound
<1>2. Sound(d)
  BY RollbackSound
<1>3. /\ d.slot_generation = c.slot_generation /\ d.kv_length = c.kv_length
      /\ d.reservation = [s \in Slots |-> IF s \in S THEN NoReservation ELSE c.reservation[s]]
  BY <1>1, RollbackFields
<1> QED
  BY <1>2, <1>3, NothingReserved DEF Untouched, Open

(* A released slot is empty, under its next generation. *)
LEMMA ReleaseSeen ==
  ASSUME NEW c, Sound(c), NEW s \in Slots, ~Open(c, s), NEW d, d = ReleaseSlot(c, s)
  PROVE  /\ Sound(d) /\ \A t \in Slots : t # s => Untouched(c, d, t)
         /\ d.kv_length[s] = 0 /\ ~Open(d, s)
<1>1. /\ c \in CacheType /\ c.kv_length \in [Slots -> Nat]
      /\ c.slot_generation \in [Slots -> 0 .. MaxGeneration]
  BY DEF Sound, CacheType
<1>2. Sound(d)
  BY ReleaseSlotSound DEF ReleaseSlotOK
<1>3. /\ d.reservation = c.reservation /\ d.kv_length = [c.kv_length EXCEPT ![s] = 0]
      /\ d.slot_generation =
           [c.slot_generation EXCEPT ![s] = NextGeneration(c.slot_generation[s])]
  BY <1>1, ReleaseSlotFields
<1> QED
  BY <1>1, <1>2, <1>3 DEF Untouched, Open

(* A grafted prefix has tokens. *)
LEMMA AcquireSeen ==
  ASSUME NEW c, Sound(c), NEW k \in Keys, NEW s \in Slots, AcquireOK(c, k, s),
         NEW d, d = Acquire(c, k, s)
  PROVE  /\ Sound(d) /\ \A t \in Slots : t # s => Untouched(c, d, t)
         /\ d.kv_length[s] \in Nat /\ d.kv_length[s] > 0
         /\ d.slot_generation[s] = c.slot_generation[s] /\ ~Open(d, s)
<1>1. /\ c \in CacheType /\ c.kv_length \in [Slots -> Nat]
      /\ c.prefix[k].tokens \in Nat /\ c.prefix[k].tokens > 0
  <2>1. k \in LiveKeys(c) /\ c \in CacheType
    BY DEF AcquireOK, LiveKeys, Sound
  <2> QED
    BY <2>1, Typed DEF Sound, PrefixesWhole, CacheType
<1>2. Sound(d) /\ ~Open(c, s)
  BY AcquireSound DEF AcquireOK
<1>3. /\ d.reservation = c.reservation /\ d.slot_generation = c.slot_generation
      /\ d.kv_length = [c.kv_length EXCEPT ![s] = c.prefix[k].tokens]
  <2>1. PICK a, b, e, g, h : d = [c EXCEPT !.page_table = a, !.ref_count = b, !.prefix = e,
                               !.slot_prefix = g,
                               !.kv_length = Put(@, s, c.prefix[k].tokens), !.older = h]
    BY DEF Acquire
  <2>2. Put(c.kv_length, s, c.prefix[k].tokens) = [c.kv_length EXCEPT ![s] = c.prefix[k].tokens]
    BY PutExcept
  <2> QED
    BY <1>1, <2>1, <2>2 DEF CacheType
<1> QED
  BY <1>1, <1>2, <1>3 DEF Untouched, Open

(* Slots do not notice an eviction. *)
LEMMA EvictSeen ==
  ASSUME NEW c, Sound(c), NEW n \in Nat, NEW d, d = Evict(c, n)
  PROVE  Sound(d) /\ \A t \in Slots : Untouched(c, d, t)
<1> DEFINE V == Victims(c, n)  maps == [k \in Keys |-> c.prefix[k].pages]
<1>1. /\ c \in CacheType /\ c.free = {p \in Pages : c.ref_count[p] = 0}
      /\ IsFiniteSet(V)
  <2>1. V \in SUBSET Keys
    BY DEF Victims, Idle, LiveKeys
  <2> HIDE DEF V
  <2> QED
    BY <2>1, Sizes, Subsets DEF Sound, Counted
<1>2. ReleaseMaps(c, V, maps) \in CacheType
  <2> HIDE DEF V, maps
  <2> QED
    BY <1>1, ReleaseEffect DEF MapsReleased
<1> USE DEF maps
<1>3. /\ d.kv_length = c.kv_length /\ d.slot_generation = c.slot_generation
      /\ d.reservation = c.reservation
  <2>1. d = WithoutPrefixes(c, V)
    BY DEF Evict
  <2> HIDE DEF V
  <2> DEFINE e == WithoutPrefixes(c, V)  r == ReleaseMaps(c, V, maps)
  <2>2. /\ e.ref_count = r.ref_count /\ e.free = r.free
        /\ e.page_table = c.page_table /\ e.kv_length = c.kv_length
        /\ e.slot_generation = c.slot_generation /\ e.slot_prefix = c.slot_prefix
        /\ e.reservation = c.reservation /\ e.reserved_pages = c.reserved_pages
        /\ e.prefix = [k \in Keys |-> IF k \in V THEN NoPrefix ELSE c.prefix[k]]
        /\ e.older = Forget(c.older, V)
        /\ e \in CacheType
    BY <1>1, <1>2, WithoutPrefixesFields
  <2> QED
    BY <2>1, <2>2
<1>4. Sound(d)
  BY EvictSound
<1> QED
  BY <1>3, <1>4 DEF Untouched

(* Nor a publication. *)
LEMMA PublishSeen ==
  ASSUME NEW c, Sound(c), NEW k \in Keys, NEW s \in Slots, NEW n \in Nat,
         PublishOK(c, k, s, n), NEW d, d = Publish(c, k, s, n)
  PROVE  Sound(d) /\ \A t \in Slots : Untouched(c, d, t)
<1>1. c \in CacheType
  BY DEF Sound
<1>2. Sound(d)
  BY PublishSound
<1>3. /\ d.kv_length = c.kv_length /\ d.slot_generation = c.slot_generation
      /\ d.reservation = c.reservation
  <2>1. CASE c.prefix[k].live
    <3>1. d = [c EXCEPT !.older = Touch(c, k)]
      BY <2>1 DEF Publish
    <3> QED
      BY <1>1, <3>1 DEF CacheType
  <2>2. CASE ~c.prefix[k].live
    <3>1. PICK m : m = PublishedPages(c, s, n)
      OBVIOUS
    <3> DEFINE e == Publish(c, k, s, n)
    <3>2. /\ e.page_table = c.page_table /\ e.kv_length = c.kv_length
          /\ e.slot_generation = c.slot_generation /\ e.slot_prefix = c.slot_prefix
          /\ e.reservation = c.reservation /\ e.reserved_pages = c.reserved_pages
          /\ e.free = c.free /\ e.older = Touch(c, k)
          /\ e.ref_count = [p \in Pages |->
               IF p \in PagesOf(m) THEN c.ref_count[p] + 1 ELSE c.ref_count[p]]
          /\ e.prefix = [c.prefix EXCEPT ![k] =
               [live |-> TRUE, tokens |-> n, slot_references |-> 0, pages |-> m]]
          /\ /\ e.ref_count \in [Pages -> Nat] /\ e.prefix \in [Keys -> Prefix]
             /\ e.older \in SUBSET (Keys \X Keys)
             => e \in CacheType
      BY <1>1, <2>2, <3>1, PublishFields
    <3> QED
      BY <3>2
  <2> QED
    BY <2>1, <2>2
<1> QED
  BY <1>2, <1>3 DEF Untouched

-----------------------------------------------------------------------------
(* Lists: one more at the end, some kept, the first one gone.              *)

KeepOp(p, i, kept) == IF p.seq[i] \in p.set THEN Append(kept, p.seq[i]) ELSE kept
KeepFold == INSTANCE Folding WITH Op <- KeepOp, Choose <- Max

(* A fold of a sequence takes its positions from the greatest down, and    *)
(* comes to an end.                                                        *)
LEMMA Greatest ==
  ASSUME NEW n \in Nat
  PROVE  /\ \A X \in SUBSET (1 .. n) : X # {} => Max(X) \in X /\ \A y \in X : Max(X) >= y
         /\ Grounded(1 .. n)
<1>1. 1 \in Int /\ n \in Int
  OBVIOUS
<1>2. Grounded(1 .. n)
  BY <1>1, IntervalGrounded
<1>3. ASSUME NEW X \in SUBSET (1 .. n), X # {}
      PROVE  Max(X) \in X /\ \A y \in X : Max(X) >= y
  <2>1. KeepFold!Max(X) = Max(X)
    BY DEF KeepFold!Max, Max
  <2>2. KeepFold!Grounded(1 .. n)
    BY <1>2 DEF Grounded, KeepFold!Grounded
  <2>3. KeepFold!Max(X) \in X /\ \A y \in X : KeepFold!Max(X) >= y
    BY <1>1, <1>3, <2>2, KeepFold!Ends
  <2> QED
    BY <2>1, <2>3
<1> QED
  BY <1>2, <1>3

(* One more. *)
LEMMA AppendSeen ==
  ASSUME NEW T, NEW seq \in Seq(T), NEW x \in T
  PROVE  LET new == Append(seq, x)
         IN  /\ new \in Seq(T) /\ Range(new) = Range(seq) \cup {x}
             /\ Len(new) = Len(seq) + 1 /\ new[Len(seq) + 1] = x
             /\ DOMAIN new = 1 .. Len(seq) + 1 /\ DOMAIN seq = 1 .. Len(seq)
             /\ Len(seq) \in Nat /\ \A i \in 1 .. Len(seq) : new[i] = seq[i]
             /\ IsInjective(seq) /\ x \notin Range(seq) => IsInjective(new)
<1> DEFINE n == Len(seq)  new == Append(seq, x)
<1>1. /\ new \in Seq(T) /\ n \in Nat /\ Len(new) = n + 1 /\ new[n + 1] = x
      /\ \A i \in 1 .. n : new[i] = seq[i]
      /\ DOMAIN new = 1 .. n + 1 /\ DOMAIN seq = 1 .. n
  BY AppendProperties
<1>2. 1 .. n + 1 = (1 .. n) \cup {n + 1}
  BY <1>1
<1> HIDE DEF n, new
<1>3. Range(new) = Range(seq) \cup {x}
  BY <1>1, <1>2 DEF Range
<1>4. IsInjective(seq) /\ x \notin Range(seq) => IsInjective(new)
  BY <1>1, <1>2 DEF Range, IsInjective
<1> QED
  BY <1>1, <1>3, <1>4 DEF n, new

(* Nothing of S is there twice. *)
Apart(seq, S) == \A i, j \in DOMAIN seq : seq[i] = seq[j] /\ seq[i] \in S => i = j

(* Some kept. *)
LEMMA KeepSeen ==
  ASSUME NEW T, NEW seq \in Seq(T), NEW S
  PROVE  /\ Keep(seq, S) \in Seq(T)
         /\ Range(Keep(seq, S)) = Range(seq) \cap S
         /\ IsInjective(seq) \/ Apart(seq, S) => IsInjective(Keep(seq, S))
<1> DEFINE n == Len(seq)  p == [seq |-> seq, set |-> S]
           From(i) == {seq[j] : j \in 1 .. i}
           Fine(i, kept) ==
             /\ Range(kept) = From(i) \cap S
             /\ Apart(seq, S) => IsInjective(kept)
           H == [i \in 0 .. n |-> {kept \in Seq(T) : Fine(i, kept)}]
<1>1. n \in Nat /\ DOMAIN seq = 1 .. n
  OBVIOUS
<1> HIDE DEF n
<1>2. Keep(seq, S) = KeepFold!Fold(p, <<>>, 1 .. n)[1 .. n]
  BY <1>1 DEF Keep, FoldLeft, MapThenFoldSet, KeepFold!Fold, KeepFold!Iteration, KeepOp
<1>3. <<>> \in H[0]
  <2>1. <<>> \in Seq(T) /\ Range(<<>>) = {} /\ IsInjective(<<>>) /\ From(0) = {}
    BY DEF Range, IsInjective
  <2> QED
    BY <1>1, <2>1
<1>4. ASSUME NEW i \in 1 .. n, NEW kept \in H[i - 1]
      PROVE  KeepOp(p, i, kept) \in H[i]
  <2>1. i - 1 \in 0 .. n /\ i \in 0 .. n
    BY <1>1
  <2>2. kept \in Seq(T) /\ Fine(i - 1, kept)
    BY <2>1
  <2>3. seq[i] \in T
    BY <1>1
  <2>4. From(i) = From(i - 1) \cup {seq[i]}
    <3>1. 1 .. i = (1 .. i - 1) \cup {i}
      BY <1>1
    <3> QED
      BY <3>1
  <2>5. KeepOp(p, i, kept) = IF seq[i] \in S THEN Append(kept, seq[i]) ELSE kept
    BY DEF KeepOp
  <2>6. CASE seq[i] \notin S
    <3>1. Fine(i, kept)
      BY <2>2, <2>4, <2>6
    <3> QED
      BY <2>1, <2>2, <2>5, <2>6, <3>1
  <2>7. CASE seq[i] \in S
    <3> DEFINE new == Append(kept, seq[i])
    <3>2. /\ new \in Seq(T) /\ Range(new) = Range(kept) \cup {seq[i]}
          /\ IsInjective(kept) /\ seq[i] \notin Range(kept) => IsInjective(new)
      <4>1. kept \in Seq(T)
        BY <2>2
      <4> HIDE DEF Fine, H, From, p
      <4> QED
        BY <2>3, <4>1, AppendSeen
    <3> HIDE DEF new
    <3>3. Apart(seq, S) => seq[i] \notin Range(kept)
      <4> SUFFICES ASSUME Apart(seq, S), seq[i] \in From(i - 1) PROVE FALSE
        BY <2>2
      <4>1. PICK j \in 1 .. i - 1 : seq[j] = seq[i]
        OBVIOUS
      <4> QED
        BY <1>1, <2>7, <4>1 DEF Apart
    <3>4. Fine(i, new)
      BY <2>2, <2>4, <2>7, <3>2, <3>3
    <3> QED
      BY <2>1, <2>5, <2>7, <3>2, <3>4 DEF new
  <2> QED
    BY <2>6, <2>7
<1> HIDE DEF H, p
<1>5. KeepFold!Fold(p, <<>>, 1 .. n)[1 .. n] \in H[n]
  BY <1>1, <1>3, <1>4, Greatest, KeepFold!InOrder DEF Grounded, KeepFold!Grounded
<1>6. Keep(seq, S) \in Seq(T) /\ Fine(n, Keep(seq, S))
  <2>1. n \in 0 .. n
    BY <1>1
  <2>2. H[n] = {kept \in Seq(T) : Fine(n, kept)}
    BY <2>1 DEF H
  <2> HIDE DEF Fine
  <2> QED
    BY <1>2, <1>5, <2>2
<1>7. From(n) = Range(seq)
  BY <1>1 DEF Range
<1>8. IsInjective(seq) => Apart(seq, S)
  BY DEF IsInjective, Apart
<1> QED
  BY <1>6, <1>7, <1>8

(* One work taken out. *)
LEMMA WithoutSeen ==
  ASSUME NEW seq \in Seq(Works), NEW w
  PROVE  /\ Without(seq, w) \in Seq(Works)
         /\ Range(Without(seq, w)) = Range(seq) \ {w}
         /\ IsInjective(seq) => IsInjective(Without(seq, w))
<1>1. Range(seq) \subseteq Works
  BY DEF Range
<1> QED
  BY <1>1, KeepSeen DEF Without

(* The first one gone. *)
LEMMA TailSeen ==
  ASSUME NEW T, NEW seq \in Seq(T), seq # <<>>
  PROVE  /\ Tail(seq) \in Seq(T) /\ Len(Tail(seq)) = Len(seq) - 1
         /\ DOMAIN Tail(seq) = 1 .. Len(seq) - 1 /\ DOMAIN seq = 1 .. Len(seq)
         /\ Len(seq) \in Nat /\ Len(seq) > 0 /\ Head(seq) = seq[1] /\ seq[1] \in T
         /\ \A i \in 1 .. Len(seq) - 1 : Tail(seq)[i] = seq[i + 1]
<1>1. /\ Tail(seq) \in Seq(T) /\ Len(Tail(seq)) = Len(seq) - 1
      /\ \A i \in 1 .. Len(Tail(seq)) : Tail(seq)[i] = seq[i + 1]
      /\ Head(seq) = seq[1] /\ Len(seq) \in Nat /\ Len(seq) > 0
  BY HeadTailProperties, EmptySeq
<1> QED
  BY <1>1

-----------------------------------------------------------------------------
(* What a step leaves alone.                                               *)

(* The works outside W, their slots and their places in the lists are the  *)
(* same in r as in q; a result may have been pushed out of the ring.       *)
Elsewhere(q, r, W) ==
  \A v \in Works \ W :
    /\ r.rec[v] = q.rec[v]
    /\ v \in Range(r.queue) <=> v \in Range(q.queue)
    /\ v \in Range(r.requests) <=> v \in Range(q.requests)
    /\ HasResult(r, v) => HasResult(q, v)
    /\ q.rec[v].slot # NoSlot =>
         /\ r.occupants[q.rec[v].slot] = q.occupants[q.rec[v].slot]
         /\ Untouched(q.cache, r.cache, q.rec[v].slot)

(* What concerns one work is a matter of these. *)
LEMMA GoodElsewhere ==
  ASSUME NEW q, NEW r, NEW W, Elsewhere(q, r, W), NEW v \in Works \ W, NEW f,
         Good(q, v, f)
  PROVE  Good(r, v, f)
<1>1. /\ r.rec[v] = q.rec[v]
      /\ v \in Range(r.queue) <=> v \in Range(q.queue)
      /\ v \in Range(r.requests) <=> v \in Range(q.requests)
      /\ HasResult(r, v) => HasResult(q, v)
      /\ q.rec[v].slot # NoSlot =>
           /\ r.occupants[q.rec[v].slot] = q.occupants[q.rec[v].slot]
           /\ Untouched(q.cache, r.cache, q.rec[v].slot)
  BY DEF Elsewhere
<1>2. Listed(r, v, f)
  BY <1>1 DEF Good, Listed
<1>3. Owning(r, v, f)
  <2> SUFFICES ASSUME q.rec[v].slot # NoSlot PROVE Owning(r, v, f)
    BY <1>1 DEF Owning
  <2>1. Owning(q, v, f) /\ Untouched(q.cache, r.cache, q.rec[v].slot)
    BY <1>1 DEF Good
  <2> QED
    BY <1>1, <2>1 DEF Owning, Untouched, Open
<1>4. Travelling(r, v, f)
  <2> SUFFICES ASSUME f.at \in {"flying", "settling"} PROVE Travelling(r, v, f)
    BY DEF Travelling
  <2>1. Travelling(q, v, f)
    BY DEF Good
  <2>2. CASE f.kind = "stateless"
    BY <1>1, <2>1, <2>2 DEF Travelling
  <2>3. CASE f.kind # "stateless"
    <3>1. f.slot # NoSlot /\ q.rec[v].slot = f.slot
      BY <2>1, <2>3 DEF Travelling
    <3>2. Untouched(q.cache, r.cache, f.slot)
      BY <1>1, <3>1
    <3> QED
      BY <1>1, <2>1, <2>3, <3>1, <3>2 DEF Travelling, Untouched
  <2> QED
    BY <2>2, <2>3
<1> QED
  BY <1>2, <1>3, <1>4 DEF Good

(* A step that concerns the works of W keeps the invariant when it does so *)
(* for them, the lists, and the slots that were theirs or free.            *)
LEMMA WholeElsewhere ==
  ASSUME NEW q, NEW F, Whole(q, F), NEW W \in SUBSET Works,
         NEW r \in Scheds, NEW G \in Flights, Sound(r.cache), NamedOnce(r),
         Elsewhere(q, r, W),
         \A s \in Slots : q.occupants[s] \in W \cup {NoWork} => SlotFine(r, s),
         \A w \in W : Good(r, w, G[w]),
         \A v \in Works \ W : G[v] = F[v]
  PROVE  Whole(r, G)
<1>1. ASSUME NEW s \in Slots PROVE SlotFine(r, s)
  <2>1. CASE q.occupants[s] \in W \cup {NoWork}
    BY <2>1
  <2>2. CASE q.occupants[s] \notin W \cup {NoWork}
    <3> DEFINE v == q.occupants[s]
    <3>1. v \in Works \ W /\ v # NoWork
      BY <2>2 DEF Whole, Scheds
    <3>2. q.rec[v].slot = s
      BY <3>1 DEF Whole, SlotFine
    <3>3. s # NoSlot
      BY Numbers
    <3>4. r.occupants[s] = v /\ r.rec[v].slot = s
      BY <3>1, <3>2, <3>3 DEF Elsewhere
    <3> QED
      BY <3>1, <3>4 DEF SlotFine
  <2> QED
    BY <2>1, <2>2
<1>2. ASSUME NEW w \in Works PROVE Good(r, w, G[w])
  <2>1. CASE w \in W
    BY <2>1
  <2>2. CASE w \notin W
    <3>1. Good(q, w, F[w]) /\ G[w] = F[w]
      BY <2>2 DEF Whole
    <3> QED
      BY <2>2, <3>1, GoodElsewhere
  <2> QED
    BY <2>1, <2>2
<1> QED
  BY <1>1, <1>2 DEF Whole

(* Everything but the records, the cache, the slots, the queue and the     *)
(* results.                                                                *)
Quietly(q, r) ==
  /\ r.requests = q.requests /\ r.pending = q.pending /\ r.aged = q.aged
  /\ r.closed = q.closed /\ r.draining = q.draining /\ r.in_round = q.in_round

(* Others' slots are their own. *)
LEMMA SlotsApart ==
  ASSUME NEW q, NEW F, Whole(q, F), NEW w \in Works, NEW v \in Works, v # w,
         q.rec[v].slot # NoSlot
  PROVE  q.rec[v].slot # q.rec[w].slot /\ q.rec[v].slot \in Slots
<1>1. /\ Good(q, v, F[v]) /\ Good(q, w, F[w]) /\ q.rec[v] \in Record
  BY DEF Whole, Scheds
<1>2. q.occupants[q.rec[v].slot] = v
  BY <1>1 DEF Good, Owning
<1>3. q.rec[w].slot # NoSlot => q.occupants[q.rec[w].slot] = w
  BY <1>1 DEF Good, Owning
<1>4. q.rec[v].slot \in Slots
  BY <1>1 DEF Record
<1> QED
  BY <1>2, <1>3, <1>4

-----------------------------------------------------------------------------
(* A work ends.                                                            *)

(* The ring of results. *)
LEMMA RingSeen ==
  ASSUME NEW rs \in Seq(Result), NEW x \in Result,
         \A i, j \in DOMAIN rs : rs[i].work = rs[j].work => i = j,
         \A i \in DOMAIN rs : rs[i].work # x.work
  PROVE  LET new == ResultAppend(rs, x)
         IN  /\ new \in Seq(Result)
             /\ \A i, j \in DOMAIN new : new[i].work = new[j].work => i = j
             /\ \A i \in DOMAIN new : new[i].work = x.work \/ \E j \in DOMAIN rs : new[i].work = rs[j].work
<1> DEFINE old == IF Len(rs) = ResultCapacity THEN Tail(rs) ELSE rs
           new == ResultAppend(rs, x)
<1>1. /\ old \in Seq(Result) /\ \A i, j \in DOMAIN old : old[i].work = old[j].work => i = j
      /\ \A i \in DOMAIN old : old[i].work # x.work
      /\ \A i \in DOMAIN old : \E j \in DOMAIN rs : old[i].work = rs[j].work
  <2>1. CASE Len(rs) = ResultCapacity
    <3>1. rs # <<>>
      BY <2>1, Numbers
    <3>2. /\ Tail(rs) \in Seq(Result) /\ DOMAIN Tail(rs) = 1 .. Len(rs) - 1
          /\ DOMAIN rs = 1 .. Len(rs) /\ Len(rs) \in Nat
          /\ \A i \in 1 .. Len(rs) - 1 : Tail(rs)[i] = rs[i + 1]
      BY <3>1, TailSeen
    <3>3. \A i \in 1 .. Len(rs) - 1 : i + 1 \in DOMAIN rs
      BY <3>2
    <3> QED
      BY <2>1, <3>2, <3>3
  <2>2. CASE Len(rs) # ResultCapacity
    BY <2>2
  <2> QED
    BY <2>1, <2>2
<1>2. new = Append(old, x)
  BY DEF ResultAppend
<1> HIDE DEF old, new
<1>3. /\ Append(old, x) \in Seq(Result) /\ Append(old, x)[Len(old) + 1] = x
      /\ DOMAIN Append(old, x) = 1 .. Len(old) + 1 /\ DOMAIN old = 1 .. Len(old)
      /\ Len(old) \in Nat /\ \A i \in 1 .. Len(old) : Append(old, x)[i] = old[i]
  BY <1>1, AppendSeen
<1>4. 1 .. Len(old) + 1 = (1 .. Len(old)) \cup {Len(old) + 1}
  BY <1>3
<1>5. \A i \in DOMAIN new : \/ i = Len(old) + 1 /\ new[i] = x
                            \/ i \in DOMAIN old /\ new[i] = old[i]
  BY <1>2, <1>3, <1>4
<1>6. \A i, j \in DOMAIN new : new[i].work = new[j].work => i = j
  BY <1>1, <1>5
<1>7. \A i \in DOMAIN new : new[i].work = x.work \/ \E j \in DOMAIN rs : new[i].work = rs[j].work
  BY <1>1, <1>5
<1>8. new \in Seq(Result)
  BY <1>2, <1>3
<1> QED
  BY <1>6, <1>7, <1>8 DEF new

(* release_slot, where no dispatch has a reservation open. *)
LEMMA Released ==
  ASSUME NEW q \in Scheds, Sound(q.cache), NEW w \in Works, NEW s \in Slots, q.rec[w].slot = s,
         Open(q.cache, s) => q.rec[w].pending
  PROVE  LET p == ReleaseRequest(q, w)
         IN  /\ p \in Scheds /\ Sound(p.cache)
             /\ \A t \in Slots : t # s => Untouched(q.cache, p.cache, t)
             /\ p.cache.kv_length[s] = 0 /\ ~Open(p.cache, s)
             /\ p.rec = [q.rec EXCEPT ![w] = [q.rec[w] EXCEPT !.slot = NoSlot, !.pending = FALSE]]
             /\ p.occupants = [q.occupants EXCEPT ![s] = NoWork]
             /\ p.queue = q.queue /\ p.results = q.results /\ Quietly(q, p)
<1> DEFINE r == RollbackPending(q, w)  p == ReleaseRequest(q, w)
           e == [q.rec[w] EXCEPT !.pending = FALSE]
<1>0. s # NoSlot /\ q.rec \in [Works -> Record] /\ q.rec[w] \in Record /\ q.rec[w].pending \in BOOLEAN
  BY Numbers DEF Scheds, Record
<1>1. /\ r \in Scheds /\ Sound(r.cache) /\ ~Open(r.cache, s)
      /\ \A t \in Slots : t # s => Untouched(q.cache, r.cache, t)
      /\ r.rec = [q.rec EXCEPT ![w] = e] /\ r.occupants = q.occupants
      /\ r.queue = q.queue /\ r.results = q.results /\ Quietly(q, r)
  <2>1. CASE ~q.rec[w].pending
    <3>1. r = q
      BY <2>1 DEF RollbackPending
    <3>2. e = q.rec[w]
      BY <1>0, <2>1 DEF Record
    <3>3. q.rec = [q.rec EXCEPT ![w] = e]
      BY <1>0, <3>2
    <3> HIDE DEF r, e
    <3> QED
      BY <2>1, <3>1, <3>3 DEF Quietly, Untouched
  <2>2. CASE q.rec[w].pending
    <3> DEFINE c == Rollback(q.cache, {s})
    <3>1. r = [q EXCEPT !.rec[w].pending = FALSE, !.cache = c]
      BY <2>2 DEF RollbackPending
    <3>2. /\ Sound(c) /\ \A t \in Slots : t \notin {s} => Untouched(q.cache, c, t)
          /\ \A t \in {s} : ~Open(c, t)
      BY RollbackSeen
    <3> HIDE DEF c, r
    <3>3. c \in CacheType /\ e \in Record
      BY <1>0, <3>2 DEF Sound, Record
    <3>4. /\ r.cache = c /\ r.rec = [q.rec EXCEPT ![w] = e] /\ r.occupants = q.occupants
          /\ r.queue = q.queue /\ r.results = q.results /\ Quietly(q, r) /\ r \in Scheds
      BY <1>0, <3>1, <3>3 DEF Scheds, Quietly
    <3> HIDE DEF e
    <3> QED
      BY <3>2, <3>4
  <2> QED
    BY <2>1, <2>2
<1> HIDE DEF r, e
<1> DEFINE c == ReleaseSlot(r.cache, s)
<1>2. p = [r EXCEPT !.cache = c, !.occupants[s] = NoWork, !.rec[w].slot = NoSlot]
  BY <1>0, <1>1 DEF ReleaseRequest, r, ReleaseSlotOK
<1>3. /\ Sound(c) /\ \A t \in Slots : t # s => Untouched(r.cache, c, t)
      /\ c.kv_length[s] = 0 /\ ~Open(c, s)
  BY <1>1, ReleaseSeen
<1>4. c \in CacheType
  BY <1>3 DEF Sound
<1> HIDE DEF c, p
<1>5. r.rec[w] = e /\ e \in Record
  BY <1>0, <1>1 DEF Record, e
<1>6. [e EXCEPT !.slot = NoSlot] = [q.rec[w] EXCEPT !.slot = NoSlot, !.pending = FALSE]
      /\ [e EXCEPT !.slot = NoSlot] \in Record
  BY <1>0 DEF e, Record
<1>7. /\ p.cache = c /\ p.occupants = [r.occupants EXCEPT ![s] = NoWork]
      /\ p.rec = [r.rec EXCEPT ![w] = [e EXCEPT !.slot = NoSlot]]
      /\ p.queue = r.queue /\ p.results = r.results /\ Quietly(r, p) /\ p \in Scheds
  BY <1>1, <1>2, <1>4, <1>5, <1>6 DEF Scheds, Quietly
<1>8. p.rec = [q.rec EXCEPT ![w] = [e EXCEPT !.slot = NoSlot]]
  BY <1>0, <1>1, <1>7
<1> QED
  BY <1>1, <1>3, <1>6, <1>7, <1>8 DEF p, Untouched, Quietly

(* publish, for a work that has not ended. *)
LEMMA Published ==
  ASSUME NEW q \in Scheds, NamedOnce(q), NEW w \in Works, NEW st \in Terminal,
         ~IsTerminal(q, w), ~HasResult(q, w)
  PROVE  LET r == PublishResult(q, w, st)
         IN  /\ r \in Scheds /\ NamedOnce(r)
             /\ r.cache = q.cache /\ r.occupants = q.occupants /\ r.queue = q.queue
             /\ r.rec = [q.rec EXCEPT ![w] = [q.rec[w] EXCEPT !.state = st]]
             /\ \A v \in Works : v # w => (HasResult(r, v) => HasResult(q, v))
             /\ Quietly(q, r)
<1> DEFINE r == PublishResult(q, w, st)
           x == [work |-> w, state |-> st, generated |-> q.rec[w].generated]
           new == ResultAppend(q.results, x)
           e == [q.rec[w] EXCEPT !.state = st]
<1>1. /\ x \in Result /\ e \in Record /\ q.results \in Seq(Result)
      /\ q.rec \in [Works -> Record]
  <2>1. q.rec \in [Works -> Record] /\ q.rec[w] \in Record /\ q.results \in Seq(Result)
    BY DEF Scheds
  <2>2. q.rec[w].generated \in Nat /\ e \in Record
    BY <2>1 DEF Record
  <2> QED
    BY <2>1, <2>2 DEF Result
<1>2. r = [q EXCEPT !.rec[w].state = st, !.results = new]
  BY DEF PublishResult
<1>3. /\ new \in Seq(Result)
      /\ \A i, j \in DOMAIN new : new[i].work = new[j].work => i = j
      /\ \A i \in DOMAIN new : new[i].work = w \/ \E j \in DOMAIN q.results : new[i].work = q.results[j].work
  <2>1. /\ \A i, j \in DOMAIN q.results : q.results[i].work = q.results[j].work => i = j
        /\ \A i \in DOMAIN q.results : q.results[i].work # x.work
    BY DEF NamedOnce, HasResult
  <2>2. x.work = w
    OBVIOUS
  <2> HIDE DEF x
  <2> QED
    BY <1>1, <2>1, <2>2, RingSeen
<1> HIDE DEF new, r, x
<1>4. /\ r.rec = [q.rec EXCEPT ![w] = e] /\ r.results = new
      /\ r.cache = q.cache /\ r.occupants = q.occupants /\ r.queue = q.queue
      /\ Quietly(q, r) /\ r \in Scheds
  BY <1>1, <1>2, <1>3 DEF Scheds, Quietly
<1>5. NamedOnce(r)
  BY <1>3, <1>4 DEF NamedOnce, Quietly
<1>6. \A v \in Works : v # w => (HasResult(r, v) => HasResult(q, v))
  BY <1>3, <1>4 DEF HasResult
<1> QED
  BY <1>4, <1>5, <1>6 DEF r

(* What is left of a work that ended. *)
Ended(q, r, w) ==
  /\ Elsewhere(q, r, {w}) /\ Quietly(q, r) /\ r.queue = q.queue
  /\ r.rec \in [Works -> Record] /\ r.rec[w].state \in Terminal
  /\ r.rec[w].slot = NoSlot /\ ~r.rec[w].pending
  /\ r.rec[w].cancel_requested = q.rec[w].cancel_requested
  /\ \A t \in Slots : t # q.rec[w].slot =>
       r.occupants[t] = q.occupants[t] /\ Untouched(q.cache, r.cache, t)
  /\ \A t \in Slots : t = q.rec[w].slot => r.occupants[t] = NoWork

(* However a work ends, its slot is given back, it is at rest, and nobody  *)
(* else is concerned.                                                      *)
LEMMA EndKeeps ==
  ASSUME NEW q, NEW F, Whole(q, F), NEW w \in Works, NEW st \in Terminal,
         q.rec[w].state # "unknown", w \notin Range(q.queue),
         \A s \in Slots : q.rec[w].slot = s /\ Open(q.cache, s) => q.rec[w].pending
  PROVE  LET r == ReleaseAndPublish(q, w, st)
         IN  Whole(r, [F EXCEPT ![w] = Rest]) /\ Ended(q, r, w)
<1> DEFINE p == ReleaseRequest(q, w)  r == PublishResult(p, w, st)
           G == [F EXCEPT ![w] = Rest]
           s == q.rec[w].slot
<1>0. /\ q \in Scheds /\ Sound(q.cache) /\ NamedOnce(q) /\ F \in Flights
      /\ q.rec \in [Works -> Record] /\ q.rec[w] \in Record /\ Good(q, w, F[w])
      /\ \A t \in Slots : SlotFine(q, t)
      /\ s \in Slots \cup {NoSlot}
      /\ s # NoSlot => s \in Slots
  BY DEF Whole, Scheds, Record
<1>1. /\ p \in Scheds /\ Sound(p.cache)
      /\ \A t \in Slots : t # s => Untouched(q.cache, p.cache, t) /\ p.occupants[t] = q.occupants[t]
      /\ \A t \in Slots : t = s => /\ p.cache.kv_length[t] = 0 /\ ~Open(p.cache, t)
                                   /\ p.occupants[t] = NoWork
      /\ p.rec = [q.rec EXCEPT ![w] = [q.rec[w] EXCEPT !.slot = NoSlot, !.pending = FALSE]]
      /\ p.queue = q.queue /\ p.results = q.results /\ Quietly(q, p)
  <2>1. CASE s = NoSlot
    <3>1. p = q
      BY <2>1 DEF ReleaseRequest
    <3>2. q.rec[w].pending = FALSE
      BY <1>0, <2>1 DEF Good, Listed, Admitted, Record
    <3>3. [q.rec[w] EXCEPT !.slot = NoSlot, !.pending = FALSE] = q.rec[w]
      BY <1>0, <2>1, <3>2 DEF Record
    <3>4. q.rec = [q.rec EXCEPT ![w] = [q.rec[w] EXCEPT !.slot = NoSlot, !.pending = FALSE]]
      BY <1>0, <3>3
    <3>5. \A t \in Slots : t # s
      BY <2>1, Numbers
    <3> HIDE DEF p, s
    <3> QED
      BY <1>0, <3>1, <3>4, <3>5 DEF Quietly, Untouched
  <2>2. CASE s # NoSlot
    <3>1. s \in Slots /\ (Open(q.cache, s) => q.rec[w].pending)
      BY <1>0, <2>2
    <3>2. /\ p \in Scheds /\ Sound(p.cache)
          /\ \A t \in Slots : t # s => Untouched(q.cache, p.cache, t)
          /\ p.cache.kv_length[s] = 0 /\ ~Open(p.cache, s)
          /\ p.rec = [q.rec EXCEPT ![w] = [q.rec[w] EXCEPT !.slot = NoSlot, !.pending = FALSE]]
          /\ p.occupants = [q.occupants EXCEPT ![s] = NoWork]
          /\ p.queue = q.queue /\ p.results = q.results /\ Quietly(q, p)
      BY <1>0, <3>1, Released
    <3>3. q.occupants \in [Slots -> Works \cup {NoWork}]
      BY <1>0 DEF Scheds
    <3> HIDE DEF p, s
    <3> QED
      BY <3>1, <3>2, <3>3
  <2> QED
    BY <2>1, <2>2
<1> HIDE DEF p
<1>2. p.rec[w] = [q.rec[w] EXCEPT !.slot = NoSlot, !.pending = FALSE] /\ p.rec \in [Works -> Record]
  BY <1>0, <1>1 DEF Scheds
<1>3. /\ p.rec[w].state = q.rec[w].state /\ p.rec[w].slot = NoSlot /\ p.rec[w].pending = FALSE
      /\ p.rec[w].cancel_requested = q.rec[w].cancel_requested /\ p.rec[w] \in Record
      /\ p.rec[w].generated = q.rec[w].generated
  BY <1>0, <1>2 DEF Record
<1>4. NamedOnce(p) /\ \A v : HasResult(p, v) <=> HasResult(q, v)
  BY <1>0, <1>1 DEF NamedOnce, HasResult, Quietly
<1>5. IsTerminal(p, w) <=> IsTerminal(q, w)
  BY <1>3 DEF IsTerminal
<1>6. ~IsTerminal(q, w) => ~HasResult(p, w)
  BY <1>0, <1>4 DEF IsTerminal, Terminal, Live, Good, Listed, Record
<1>7. /\ r \in Scheds /\ NamedOnce(r) /\ r.cache = p.cache /\ r.occupants = p.occupants
      /\ r.queue = q.queue /\ Quietly(p, r)
      /\ \A v \in Works : v # w => r.rec[v] = p.rec[v] /\ (HasResult(r, v) => HasResult(q, v))
      /\ r.rec[w].state \in Terminal /\ r.rec[w].slot = NoSlot /\ r.rec[w].pending = FALSE
      /\ r.rec[w].cancel_requested = q.rec[w].cancel_requested
  <2>1. CASE IsTerminal(p, w)
    <3>1. r = p
      BY <2>1 DEF PublishResult
    <3> HIDE DEF r
    <3> QED
      BY <1>1, <1>3, <1>4, <2>1, <3>1 DEF Quietly, IsTerminal
  <2>2. CASE ~IsTerminal(p, w)
    <3>1. /\ r \in Scheds /\ NamedOnce(r)
          /\ r.cache = p.cache /\ r.occupants = p.occupants /\ r.queue = p.queue
          /\ r.rec = [p.rec EXCEPT ![w] = [p.rec[w] EXCEPT !.state = st]]
          /\ \A v \in Works : v # w => (HasResult(r, v) => HasResult(p, v))
          /\ Quietly(p, r)
      BY <1>1, <1>4, <1>5, <1>6, <2>2, Published
    <3>2. r.rec[w] = [p.rec[w] EXCEPT !.state = st]
      BY <1>2, <3>1
    <3>3. /\ r.rec[w].state = st /\ r.rec[w].slot = NoSlot /\ r.rec[w].pending = FALSE
          /\ r.rec[w].cancel_requested = q.rec[w].cancel_requested
      BY <1>3, <3>2 DEF Record
    <3>4. \A v \in Works : v # w => r.rec[v] = p.rec[v]
      BY <1>2, <3>1
    <3> HIDE DEF r
    <3> QED
      BY <1>1, <1>4, <3>1, <3>3, <3>4
  <2> QED
    BY <2>1, <2>2
<1> HIDE DEF r, G
<1>8. \A v \in Works : v # w => r.rec[v] = q.rec[v]
  BY <1>0, <1>1, <1>7
<1>9. Quietly(q, r) /\ r.rec \in [Works -> Record]
  BY <1>1, <1>7 DEF Quietly, Scheds
<1>10. \A t \in Slots : t # s => r.occupants[t] = q.occupants[t] /\ Untouched(q.cache, r.cache, t)
  BY <1>1, <1>7
<1>11. Elsewhere(q, r, {w})
  <2> SUFFICES ASSUME NEW v \in Works, v # w
               PROVE  /\ r.rec[v] = q.rec[v]
                      /\ v \in Range(r.queue) <=> v \in Range(q.queue)
                      /\ v \in Range(r.requests) <=> v \in Range(q.requests)
                      /\ HasResult(r, v) => HasResult(q, v)
                      /\ q.rec[v].slot # NoSlot =>
                           /\ r.occupants[q.rec[v].slot] = q.occupants[q.rec[v].slot]
                           /\ Untouched(q.cache, r.cache, q.rec[v].slot)
    BY DEF Elsewhere
  <2>1. q.rec[v].slot # NoSlot => q.rec[v].slot # s /\ q.rec[v].slot \in Slots
    BY SlotsApart
  <2> QED
    BY <1>7, <1>8, <1>9, <1>10, <2>1 DEF Quietly
<1>12. Ended(q, r, w)
  BY <1>1, <1>7, <1>9, <1>10, <1>11 DEF Ended
<1>13. Good(r, w, Rest)
  <2>1. w \in Range(r.requests) /\ Acceptable(w)
    BY <1>0, <1>9 DEF Good, Listed, Quietly
  <2>2. Listed(r, w, Rest)
    BY <1>7, <2>1 DEF Listed, Terminal, Live, Admitted
  <2> QED
    BY <1>7, <2>2, RecordTypes DEF Good, Owning, Travelling
<1>14. \A t \in Slots : q.occupants[t] \in {w} \cup {NoWork} => SlotFine(r, t)
  <2> TAKE t \in Slots
  <2> HAVE q.occupants[t] \in {w} \cup {NoWork}
  <2>1. CASE t = s
    BY <1>1, <1>7, <2>1 DEF SlotFine
  <2>2. CASE t # s
    <3>1. q.occupants[t] = NoWork
      BY <1>0, <2>2, Numbers DEF SlotFine
    <3>2. r.occupants[t] = NoWork /\ Untouched(q.cache, r.cache, t)
      BY <1>10, <2>2, <3>1
    <3> QED
      BY <1>0, <3>1, <3>2 DEF SlotFine, Untouched, Open
  <2> QED
    BY <2>1, <2>2
<1>15. Sound(r.cache)
  BY <1>1, <1>7
<1>16. /\ G \in Flights /\ G[w] = Rest /\ \A v \in Works \ {w} : G[v] = F[v]
  BY <1>0, RecordTypes DEF G, Flights
<1>17. Whole(r, G)
  BY <1>7, <1>11, <1>13, <1>14, <1>15, <1>16, WholeElsewhere
<1> QED
  BY <1>12, <1>17 DEF ReleaseAndPublish, r, p, G

(* The same for a work without a slot, which is only published. *)
LEMMA PublishKeeps ==
  ASSUME NEW q, NEW F, Whole(q, F), NEW w \in Works, NEW st \in Terminal,
         q.rec[w].state # "unknown", w \notin Range(q.queue), q.rec[w].slot = NoSlot
  PROVE  LET r == PublishResult(q, w, st)
         IN  Whole(r, [F EXCEPT ![w] = Rest]) /\ Ended(q, r, w)
<1>1. ReleaseAndPublish(q, w, st) = PublishResult(q, w, st)
  BY DEF ReleaseAndPublish, ReleaseRequest
<1>2. \A s \in Slots : q.rec[w].slot = s /\ Open(q.cache, s) => q.rec[w].pending
  BY Numbers
<1> QED
  BY <1>1, <1>2, EndKeeps

(* A work leaves the queue. *)
LEMMA LeaveQueue ==
  ASSUME NEW q, NEW F, Whole(q, F), NEW w \in Works, w \in Range(q.queue)
  PROVE  LET r == [q EXCEPT !.queue = Without(@, w)]
         IN  /\ Whole(r, [F EXCEPT ![w] = Leaving])
             /\ Elsewhere(q, r, {w}) /\ Quietly(q, r)
             /\ w \notin Range(r.queue) /\ Range(r.queue) = Range(q.queue) \ {w}
             /\ r.rec = q.rec /\ r.cache = q.cache /\ r.occupants = q.occupants
<1> DEFINE r == [q EXCEPT !.queue = Without(@, w)]  G == [F EXCEPT ![w] = Leaving]
<1>0. /\ q \in Scheds /\ Sound(q.cache) /\ NamedOnce(q) /\ F \in Flights
      /\ Good(q, w, F[w]) /\ q.queue \in Seq(Works) /\ \A t \in Slots : SlotFine(q, t)
  BY DEF Whole, Scheds
<1>1. /\ Without(q.queue, w) \in Seq(Works) /\ Range(Without(q.queue, w)) = Range(q.queue) \ {w}
      /\ IsInjective(Without(q.queue, w))
  <2>1. IsInjective(q.queue) /\ q.queue \in Seq(Works)
    BY <1>0 DEF NamedOnce
  <2> QED
    BY <2>1, WithoutSeen
<1>2. /\ r \in Scheds /\ r.queue = Without(q.queue, w) /\ r.rec = q.rec /\ r.cache = q.cache
      /\ r.occupants = q.occupants /\ r.results = q.results /\ Quietly(q, r)
  BY <1>0, <1>1 DEF Scheds, Quietly
<1> HIDE DEF r, G
<1>3. NamedOnce(r) /\ \A v : HasResult(r, v) <=> HasResult(q, v)
  BY <1>0, <1>1, <1>2 DEF NamedOnce, HasResult, Quietly
<1>4. Elsewhere(q, r, {w})
  BY <1>1, <1>2, <1>3 DEF Elsewhere, Quietly, Untouched
<1>5. q.rec[w].state = "queued" /\ q.rec[w].slot = NoSlot /\ ~q.rec[w].pending
  BY <1>0 DEF Good, Listed, Admitted
<1>6. Good(r, w, Leaving)
  <2>1. Listed(r, w, Leaving)
    BY <1>0, <1>1, <1>2, <1>3, <1>5, RecordTypes DEF Good, Listed, Quietly
  <2> QED
    BY <1>2, <1>5, <2>1, RecordTypes DEF Good, Owning, Travelling
<1>7. \A t \in Slots : SlotFine(r, t)
  BY <1>0, <1>2 DEF SlotFine
<1>8. /\ G \in Flights /\ G[w] = Leaving /\ \A v \in Works \ {w} : G[v] = F[v]
  BY <1>0, RecordTypes DEF G, Flights
<1>9. Whole(r, G)
  BY <1>0, <1>2, <1>3, <1>4, <1>6, <1>7, <1>8, WholeElsewhere
<1> QED
  BY <1>1, <1>2, <1>4, <1>9 DEF r, G

(* The flags and the list of dispatches are nobody's concern. *)
LEMMA WholeBesides ==
  ASSUME NEW q, NEW F, Whole(q, F), NEW r \in Scheds,
         r.cache = q.cache, r.rec = q.rec, r.requests = q.requests, r.queue = q.queue,
         r.results = q.results, r.occupants = q.occupants
  PROVE  Whole(r, F)
<1>1. NamedOnce(r) /\ \A v : HasResult(r, v) <=> HasResult(q, v)
  BY DEF Whole, NamedOnce, HasResult
<1>2. Elsewhere(q, r, {})
  BY <1>1 DEF Elsewhere, Untouched
<1>3. \A s \in Slots : SlotFine(r, s)
  BY DEF Whole, SlotFine
<1>4. F \in Flights /\ Sound(r.cache)
  BY DEF Whole
<1> QED
  BY <1>1, <1>2, <1>3, <1>4, WholeElsewhere

(* A flight of a work that was at rest stays. *)
LEMMA StillResting ==
  ASSUME NEW F \in Flights, NEW w \in Works, F[w] = Rest
  PROVE  [F EXCEPT ![w] = Rest] = F
BY DEF Flights

-----------------------------------------------------------------------------
(* The end of a round.                                                     *)

(* retire_terminal_requests: terminal records are gone, no other changes. *)
LEMMA RetireKeeps ==
  ASSUME NEW q, NEW F, Whole(q, F), Settled(q),
         \A w \in Works : q.rec[w].state \in Terminal => F[w] = Rest
  PROVE  LET r == Retire(q)
         IN  /\ Whole(r, F) /\ Settled(r)
             /\ \A w \in Works : r.rec[w] = IF q.rec[w].state \in Terminal THEN NoRecord
                                                                          ELSE q.rec[w]
             /\ r.pending = q.pending /\ r.in_round = q.in_round /\ r.queue = q.queue
             /\ r.closed = q.closed /\ r.draining = q.draining /\ r.occupants = q.occupants
<1> DEFINE r == Retire(q)
           gone == {w \in Works : IsTerminal(q, w)}
           held == {q.rec[w].slot : w \in {x \in gone : q.rec[x].pending}}
           rec == [w \in Works |-> IF w \in gone THEN NoRecord ELSE q.rec[w]]
<1>0. /\ q \in Scheds /\ Sound(q.cache) /\ NamedOnce(q) /\ F \in Flights
      /\ q.rec \in [Works -> Record] /\ q.requests \in Seq(Works)
      /\ \A w \in Works : Good(q, w, F[w])
      /\ \A t \in Slots : SlotFine(q, t)
  BY DEF Whole, Scheds
<1>1. held = {}
  BY DEF Settled
<1>2. /\ Keep(q.requests, Works \ gone) \in Seq(Works)
      /\ Range(Keep(q.requests, Works \ gone)) = Range(q.requests) \cap (Works \ gone)
      /\ IsInjective(Keep(q.requests, Works \ gone))
  <2> HIDE DEF gone
  <2>1. IsInjective(q.requests)
    BY <1>0 DEF NamedOnce
  <2> QED
    BY <1>0, <2>1, KeepSeen
<1>3. rec \in [Works -> Record] /\ q.aged \ gone \in SUBSET Works
  BY <1>0, RecordTypes DEF Scheds
<1>4. r = [q EXCEPT !.cache = IF held = {} THEN @ ELSE Rollback(@, held),
                    !.requests = Keep(@, Works \ gone), !.aged = @ \ gone, !.rec = rec]
  BY DEF Retire
<1> HIDE DEF r, rec, held
<1>5. /\ r \in Scheds /\ r.cache = q.cache /\ r.requests = Keep(q.requests, Works \ gone)
      /\ r.rec = rec /\ r.queue = q.queue /\ r.results = q.results /\ r.pending = q.pending
      /\ r.occupants = q.occupants /\ r.in_round = q.in_round /\ r.closed = q.closed
      /\ r.draining = q.draining
  <2> HIDE DEF gone
  <2> QED
    BY <1>0, <1>1, <1>2, <1>3, <1>4 DEF Scheds
<1>6. \A w \in Works : r.rec[w] = IF w \in gone THEN NoRecord ELSE q.rec[w]
  BY <1>5 DEF rec
<1>7. \A w \in Works : w \in gone <=> q.rec[w].state \in Terminal
  BY DEF IsTerminal
<1> HIDE DEF gone
<1>8. NamedOnce(r) /\ \A v : HasResult(r, v) <=> HasResult(q, v)
  BY <1>0, <1>2, <1>5 DEF NamedOnce, HasResult
<1>9. Elsewhere(q, r, gone)
  BY <1>2, <1>5, <1>6, <1>8 DEF Elsewhere, Untouched
<1>10. \A s \in Slots : q.occupants[s] \notin gone
  <2> SUFFICES ASSUME NEW s \in Slots, q.occupants[s] \in gone PROVE FALSE
    OBVIOUS
  <2> DEFINE w == q.occupants[s]
  <2>1. w \in Works /\ w # NoWork
    BY Numbers DEF gone
  <2>2. q.rec[w].slot = s /\ s # NoSlot
    BY <1>0, <2>1, Numbers DEF SlotFine
  <2>3. q.rec[w].state \in Admitted
    BY <1>0, <2>1, <2>2 DEF Good, Listed
  <2> QED
    BY <1>7, <2>1, <2>3 DEF Admitted, Terminal
<1>11. \A s \in Slots : q.occupants[s] \in gone \cup {NoWork} => SlotFine(r, s)
  BY <1>0, <1>5, <1>10 DEF SlotFine
<1>12. ASSUME NEW w \in gone PROVE Good(r, w, F[w])
  <2>1. w \in Works /\ F[w] = Rest /\ r.rec[w] = NoRecord /\ q.rec[w].state \in Terminal
    BY <1>6, <1>7 DEF gone
  <2>2. w \notin Range(r.requests)
    BY <1>2, <1>5
  <2>3. w \notin Range(r.queue)
    BY <1>0, <1>5, <2>1 DEF Good, Listed, Terminal
  <2>4. Listed(r, w, Rest)
    BY <2>1, <2>2, <2>3, RecordTypes DEF Listed, Live, Admitted
  <2> QED
    BY <2>1, <2>4, RecordTypes DEF Good, Owning, Travelling
<1>13. gone \in SUBSET Works
  BY DEF gone
<1>14. Whole(r, F)
  BY <1>0, <1>5, <1>8, <1>9, <1>11, <1>12, <1>13, WholeElsewhere
<1>15. Settled(r)
  BY <1>6, RecordTypes DEF Settled
<1> QED
  BY <1>5, <1>6, <1>7, <1>14, <1>15 DEF r

(* The occupants whose cancellation was put off, slot by slot. *)
TakeBackOp(p, i, r) == TakeBackAt(r, SlotOrder[i])
TakeBackFold == INSTANCE Folding WITH Op <- TakeBackOp, Choose <- Max

(* The first i slots were visited: no cancelled occupant is left there. *)
NotCancelled(r, s) == r.occupants[s] # NoWork => ~r.rec[r.occupants[s]].cancel_requested
TakenBack(q, i, r) ==
  /\ Whole(r, AllRest) /\ Settled(r) /\ Quietly(q, r)
  /\ \A j \in 1 .. i : NotCancelled(r, SlotOrder[j])

(* The slot TakeBackAt visits has no cancelled occupant afterwards. *)
LEMMA TakeBackStep ==
  ASSUME NEW q, NEW i \in 1 .. NumSlots, NEW r \in Scheds, TakenBack(q, i - 1, r)
  PROVE  LET a == TakeBackAt(r, SlotOrder[i]) IN a \in Scheds /\ TakenBack(q, i, a)
<1> DEFINE s == SlotOrder[i]  a == TakeBackAt(r, s)  w == r.occupants[s]
<1>0. /\ s \in Slots /\ \A j \in 1 .. NumSlots : SlotOrder[j] \in Slots /\ (SlotOrder[j] = s => i = j)
      /\ Whole(r, AllRest) /\ Settled(r) /\ Quietly(q, r) /\ r.occupants \in [Slots -> Works \cup {NoWork}]
      /\ r.rec \in [Works -> Record] /\ NumSlots \in Nat
      /\ \A t \in Slots : SlotFine(r, t)
  BY Visits DEF TakenBack, Whole, Scheds
<1>1. \A j \in 1 .. i : j = i \/ (j \in 1 .. i - 1 /\ j \in 1 .. NumSlots)
  BY <1>0
<1> HIDE DEF s
<1>2. CASE ~(w # NoWork /\ r.rec[w].cancel_requested)
  <2>1. a = r
    BY <1>2 DEF TakeBackAt, IsOccupied
  <2>2. NotCancelled(r, s)
    BY <1>2 DEF NotCancelled
  <2> QED
    BY <1>1, <2>1, <2>2 DEF TakenBack, s
<1>3. CASE w # NoWork /\ r.rec[w].cancel_requested
  <2>1. a = ReleaseAndPublish(r, w, "cancelled")
    BY <1>3 DEF TakeBackAt, IsOccupied
  <2>2. /\ w \in Works /\ r.rec[w].slot = s /\ s # NoSlot /\ Good(r, w, Rest)
        /\ ~r.rec[w].pending
    BY <1>0, <1>3, Numbers DEF SlotFine, Whole, AllRest, Settled
  <2> HIDE DEF w, a
  <2>3. /\ r.rec[w].state # "unknown" /\ w \notin Range(r.queue) /\ ~Open(r.cache, s)
    BY <2>2, RecordTypes DEF Good, Listed, Owning, Admitted
  <2>4. \A t \in Slots : r.rec[w].slot = t /\ Open(r.cache, t) => r.rec[w].pending
    BY <2>2, <2>3
  <2>5. "cancelled" \in Terminal
    BY DEF Terminal
  <2>6. Whole(a, [AllRest EXCEPT ![w] = Rest]) /\ Ended(r, a, w)
    BY <1>0, <2>1, <2>2, <2>3, <2>4, <2>5, EndKeeps
  <2>7. [AllRest EXCEPT ![w] = Rest] = AllRest
    BY <2>2, RecordTypes, StillResting DEF AllRest
  <2>8. Whole(a, AllRest) /\ a \in Scheds
    BY <2>6, <2>7 DEF Whole
  <2>9. Settled(a)
    BY <1>0, <2>6 DEF Settled, Ended, Elsewhere
  <2>10. Quietly(q, a)
    BY <1>0, <2>6 DEF Ended, Quietly
  <2>11. NotCancelled(a, s)
    BY <1>0, <2>2, <2>6 DEF Ended, NotCancelled
  <2>12. ASSUME NEW j \in 1 .. i, j # i PROVE NotCancelled(a, SlotOrder[j])
    <3> DEFINE t == SlotOrder[j]
    <3>1. t \in Slots /\ t # s /\ NotCancelled(r, t)
      BY <1>0, <1>1, <2>12 DEF TakenBack
    <3> HIDE DEF t
    <3>2. a.occupants[t] = r.occupants[t]
      BY <2>2, <2>6, <3>1 DEF Ended
    <3>3. r.occupants[t] # NoWork => r.occupants[t] \in Works \ {w}
      BY <1>0, <2>2, <3>1 DEF SlotFine
    <3>4. NotCancelled(a, t)
      BY <2>6, <3>1, <3>2, <3>3 DEF NotCancelled, Ended, Elsewhere
    <3> QED
      BY <3>4 DEF t
  <2> QED
    BY <2>8, <2>9, <2>10, <2>11, <2>12 DEF TakenBack, a, s
<1> QED
  BY <1>2, <1>3 DEF s

(* No occupant is left whose cancellation was put off. *)
LEMMA TakeBackKeeps ==
  ASSUME NEW q \in Scheds, Whole(q, AllRest), Settled(q)
  PROVE  LET r == TakeBackCancelled(q)
         IN  /\ Whole(r, AllRest) /\ Settled(r) /\ Quietly(q, r)
             /\ \A s \in Slots : NotCancelled(r, s)
<1> DEFINE n == NumSlots
           H == [i \in 0 .. n |-> {r \in Scheds : TakenBack(q, i, r)}]
<1>1. n \in Nat /\ DOMAIN SlotOrder = 1 .. n /\ \A i \in 1 .. n : SlotOrder[i] = i - 1
  BY Visits
<1> HIDE DEF n
<1>2. TakeBackCancelled(q) = TakeBackFold!Fold(<<>>, q, 1 .. n)[1 .. n]
  BY <1>1 DEF TakeBackCancelled, FoldLeft, MapThenFoldSet, TakeBackFold!Fold,
              TakeBackFold!Iteration, TakeBackOp
<1>3. q \in H[0]
  <2>1. TakenBack(q, 0, q)
    BY DEF TakenBack, Quietly
  <2> QED
    BY <1>1, <2>1
<1>4. ASSUME NEW i \in 1 .. n, NEW r \in H[i - 1]
      PROVE  TakeBackOp(<<>>, i, r) \in H[i]
  <2>1. i - 1 \in 0 .. n /\ i \in 0 .. n
    BY <1>1
  <2>2. r \in Scheds /\ TakenBack(q, i - 1, r)
    BY <2>1
  <2>3. LET a == TakeBackAt(r, SlotOrder[i]) IN a \in Scheds /\ TakenBack(q, i, a)
    BY <2>2, TakeBackStep DEF n
  <2> QED
    BY <2>1, <2>3 DEF TakeBackOp
<1> HIDE DEF H
<1>5. TakeBackFold!Fold(<<>>, q, 1 .. n)[1 .. n] \in H[n]
  BY <1>1, <1>3, <1>4, Greatest, TakeBackFold!InOrder DEF Grounded, TakeBackFold!Grounded
<1>6. TakenBack(q, n, TakeBackCancelled(q))
  BY <1>1, <1>2, <1>5 DEF H
<1>7. \A s \in Slots : \E j \in 1 .. n : s = SlotOrder[j]
  <2> TAKE s \in Slots
  <2>1. s + 1 \in 1 .. n /\ (s + 1) - 1 = s
    BY <1>1 DEF Slots, n
  <2>2. SlotOrder[s + 1] = s
    BY <1>1, <2>1
  <2> QED
    BY <2>1, <2>2
<1> QED
  BY <1>6, <1>7 DEF TakenBack

(* batch_finish_round *)
LEMMA FinishKeeps ==
  ASSUME NEW q, Whole(q, AllRest), Settled(q)
  PROVE  LET r == FinishRound(q)
         IN  /\ Whole(r, AllRest) /\ Settled(r) /\ Between(r)
             /\ r.in_round = FALSE /\ r.pending = q.pending
<1> DEFINE a == TakeBackCancelled(q)  b == [a EXCEPT !.in_round = FALSE]
           done == Retire(b)  r == FinishRound(q)
<1>0. q \in Scheds
  BY DEF Whole
<1>1. /\ Whole(a, AllRest) /\ Settled(a) /\ Quietly(q, a) /\ \A s \in Slots : NotCancelled(a, s)
  BY <1>0, TakeBackKeeps
<1> HIDE DEF a
<1>2. /\ b \in Scheds /\ b.cache = a.cache /\ b.rec = a.rec /\ b.requests = a.requests
      /\ b.queue = a.queue /\ b.results = a.results /\ b.occupants = a.occupants
      /\ b.in_round = FALSE /\ b.pending = a.pending
  BY <1>1 DEF Whole, Scheds
<1> HIDE DEF b
<1>3. Whole(b, AllRest) /\ Settled(b)
  BY <1>1, <1>2, WholeBesides DEF Settled
<1>4. /\ Whole(done, AllRest) /\ Settled(done)
      /\ \A w \in Works : done.rec[w] = IF b.rec[w].state \in Terminal THEN NoRecord ELSE b.rec[w]
      /\ done.pending = b.pending /\ done.in_round = b.in_round
  <2>1. \A w \in Works : AllRest[w] = Rest
    BY DEF AllRest
  <2> QED
    BY <1>3, <2>1, RetireKeeps
<1> HIDE DEF done
<1>5. r = [done EXCEPT !.draining = @ /\ Busy(done)]
  BY DEF FinishRound, done, b, a
<1> HIDE DEF r
<1>6. /\ r \in Scheds /\ r.cache = done.cache /\ r.rec = done.rec /\ r.requests = done.requests
      /\ r.queue = done.queue /\ r.results = done.results /\ r.occupants = done.occupants
      /\ r.in_round = done.in_round /\ r.pending = done.pending
  <2>1. done \in Scheds
    BY <1>4 DEF Whole
  <2>2. (done.draining /\ Busy(done)) \in BOOLEAN
    OBVIOUS
  <2> QED
    BY <1>5, <2>1, <2>2 DEF Scheds
<1>7. Whole(r, AllRest) /\ Settled(r)
  BY <1>4, <1>6, WholeBesides DEF Settled
<1>8. Between(r)
  <2> SUFFICES ASSUME NEW w \in Works
               PROVE  done.rec[w].state \notin Terminal /\ ~done.rec[w].cancel_requested
    BY <1>6 DEF Between
  <2>1. Good(a, w, Rest) /\ b.rec[w] = a.rec[w] /\ a.rec[w] \in Record
    BY <1>1, <1>2 DEF Whole, AllRest, Scheds
  <2>2. CASE a.rec[w].state \in Terminal
    BY <1>4, <2>1, <2>2, RecordTypes DEF Terminal
  <2>3. CASE a.rec[w].state = "unknown"
    <3>1. a.rec[w] = NoRecord
      BY <2>1, <2>3 DEF Good, Listed
    <3> QED
      BY <1>4, <2>1, <3>1, RecordTypes DEF Terminal
  <2>4. CASE a.rec[w].state = "queued"
    <3>1. ~a.rec[w].cancel_requested
      BY <2>1, <2>4, RecordTypes DEF Good, Listed
    <3> QED
      BY <1>4, <2>1, <2>4, <3>1 DEF Terminal
  <2>5. CASE a.rec[w].state \in Admitted
    <3>1. a.rec[w].slot # NoSlot /\ a.rec[w].slot \in Slots /\ a.occupants[a.rec[w].slot] = w
      BY <2>1, <2>5 DEF Good, Listed, Owning, Record
    <3>2. ~a.rec[w].cancel_requested
      BY <1>1, <3>1, Numbers DEF NotCancelled
    <3> QED
      BY <1>4, <2>1, <2>5, <3>2 DEF Terminal, Admitted
  <2> QED
    BY <2>1, <2>2, <2>3, <2>4, <2>5 DEF Record, Live, Admitted
<1> QED
  BY <1>1, <1>2, <1>4, <1>6, <1>7, <1>8 DEF r, Quietly

-----------------------------------------------------------------------------
(* Admission.                                                              *)

(* A step of the cache that leaves the occupied slots alone and the others *)
(* empty concerns nobody.                                                  *)
LEMMA CacheBesides ==
  ASSUME NEW q, NEW F, Whole(q, F), NEW c, Sound(c),
         \A t \in Slots : q.occupants[t] # NoWork => Untouched(q.cache, c, t),
         \A t \in Slots : q.occupants[t] = NoWork => c.kv_length[t] = 0 /\ ~Open(c, t)
  PROVE  LET r == [q EXCEPT !.cache = c] IN Whole(r, F) /\ Quietly(q, r)
<1> DEFINE r == [q EXCEPT !.cache = c]
<1>0. /\ q \in Scheds /\ F \in Flights /\ NamedOnce(q) /\ c \in CacheType
      /\ \A t \in Slots : SlotFine(q, t)
  BY DEF Whole, Sound
<1>1. /\ r \in Scheds /\ r.cache = c /\ r.rec = q.rec /\ r.requests = q.requests
      /\ r.queue = q.queue /\ r.results = q.results /\ r.occupants = q.occupants
      /\ Quietly(q, r)
  BY <1>0 DEF Scheds, Quietly
<1> HIDE DEF r
<1>2. NamedOnce(r) /\ \A v : HasResult(r, v) <=> HasResult(q, v)
  BY <1>0, <1>1 DEF NamedOnce, HasResult
<1>3. Elsewhere(q, r, {})
  <2> SUFFICES ASSUME NEW v \in Works, q.rec[v].slot # NoSlot
               PROVE  Untouched(q.cache, c, q.rec[v].slot)
    BY <1>1, <1>2 DEF Elsewhere
  <2>1. Good(q, v, F[v]) /\ q.rec[v] \in Record
    BY DEF Whole, Scheds
  <2>2. q.occupants[q.rec[v].slot] = v /\ q.rec[v].slot \in Slots
    BY <2>1 DEF Good, Owning, Record
  <2> QED
    BY <2>2, Numbers
<1>4. \A t \in Slots : SlotFine(r, t)
  BY <1>0, <1>1 DEF SlotFine
<1>5. Whole(r, F)
  BY <1>0, <1>1, <1>2, <1>3, <1>4, WholeElsewhere
<1> QED
  BY <1>1, <1>5 DEF r

(* admit_shared_prefix leaves an empty slot empty or grafts a prefix that  *)
(* is no longer than the prompt.                                           *)
LEMMA SharedSeen ==
  ASSUME NEW c, Sound(c), NEW s \in Slots, NEW w \in Works, c.kv_length[s] = 0, ~Open(c, s)
  PROVE  LET d == AdmitSharedPrefix(c, s, w)
         IN  /\ Sound(d) /\ \A t \in Slots : t # s => Untouched(c, d, t)
             /\ d.kv_length[s] \in Nat /\ d.kv_length[s] <= Work[w].prompt_tokens
             /\ ~Open(d, s)
<1> DEFINE d == AdmitSharedPrefix(c, s, w)  k == Work[w].prompt_key  a == Acquire(c, k, s)
<1>0. Work[w].prompt_tokens \in Nat /\ k \in Keys \cup {NoKey}
  BY Numbers
<1>1. CASE k = NoKey \/ ~AcquireOK(c, k, s)
  <2>1. d = c
    BY <1>1 DEF AdmitSharedPrefix
  <2> HIDE DEF d
  <2> QED
    BY <1>0, <2>1 DEF Untouched, d
<1>2. CASE k # NoKey /\ AcquireOK(c, k, s)
  <2>1. d = IF a.kv_length[s] <= Work[w].prompt_tokens THEN a ELSE ReleaseSlot(a, s)
    BY <1>2 DEF AdmitSharedPrefix
  <2>2. k \in Keys /\ AcquireOK(c, k, s)
    BY <1>0, <1>2
  <2> HIDE DEF d, k
  <2>3. /\ Sound(a) /\ \A t \in Slots : t # s => Untouched(c, a, t)
        /\ a.kv_length[s] \in Nat /\ a.kv_length[s] > 0 /\ ~Open(a, s)
    BY <2>2, AcquireSeen
  <2> HIDE DEF a
  <2>4. CASE a.kv_length[s] <= Work[w].prompt_tokens
    BY <2>1, <2>3, <2>4 DEF d
  <2>5. CASE ~(a.kv_length[s] <= Work[w].prompt_tokens)
    <3> DEFINE b == ReleaseSlot(a, s)
    <3>1. /\ Sound(b) /\ \A t \in Slots : t # s => Untouched(a, b, t)
          /\ b.kv_length[s] = 0 /\ ~Open(b, s)
      BY <2>3, ReleaseSeen
    <3>2. d = b
      BY <2>1, <2>5
    <3> HIDE DEF b
    <3> QED
      BY <1>0, <2>3, <3>1, <3>2 DEF Untouched, d
  <2> QED
    BY <2>4, <2>5
<1> QED
  BY <1>1, <1>2

(* The oldest queued decode work is in the queue. *)
LEMMA WaitingSeen ==
  ASSUME NEW q \in Scheds, QueuedDecode(q) # <<>>
  PROVE  LET w == Head(QueuedDecode(q)) IN w \in Works /\ w \in Range(q.queue) /\ ~Stateless(w)
<1> DEFINE k == QueuedDecode(q)  S == {w \in Works : ~Stateless(w)}
<1>1. k \in Seq(Works) /\ Range(k) = Range(q.queue) \cap S
  <2>1. q.queue \in Seq(Works) /\ k = Keep(q.queue, S)
    BY DEF Scheds, QueuedDecode
  <2> HIDE DEF S, k
  <2> QED
    BY <2>1, KeepSeen
<1> HIDE DEF k
<1>2. /\ DOMAIN k = 1 .. Len(k) /\ Len(k) \in Nat /\ Len(k) > 0 /\ Head(k) = k[1] /\ k[1] \in Works
  <2>1. k # <<>>
    BY DEF k
  <2> QED
    BY <1>1, <2>1, TailSeen
<1>3. Head(k) \in Range(k)
  BY <1>2 DEF Range
<1> QED
  BY <1>1, <1>3 DEF k

Turns == [q: Scheds, stop: BOOLEAN]
AdmitOp(p, i, turn) == AdmitAt(turn, SlotOrder[i])
AdmitFold == INSTANCE Folding WITH Op <- AdmitOp, Choose <- Max

(* An admitted work owns its slot. *)
LEMMA AdmittedKeeps ==
  ASSUME NEW q, Whole(q, AllRest), NEW s \in Slots, ~IsOccupied(q, s),
         NEW w \in Works, w \in Range(q.queue), ~Stateless(w),
         NEW c, Sound(c), NEW e, NEW n,
         \A t \in Slots : t # s => Untouched(q.cache, c, t),
         c.kv_length[s] = n, n \in Nat, n <= Work[w].prompt_tokens,
         e = [q.rec[w] EXCEPT !.state = "prefill", !.slot = s,
                              !.slot_generation = c.slot_generation[s],
                              !.prefilled = n, !.pending = Open(c, s)],
         Open(c, s) =>
           /\ n < Work[w].prompt_tokens
           /\ c.reservation[s].tokens = Least(Work[w].prompt_tokens - n, TokenBudget)
  PROVE  LET r == [q EXCEPT !.cache = c, !.queue = Without(@, w), !.occupants[s] = w,
                            !.rec[w] = e]
         IN  Whole(r, AllRest) /\ Quietly(q, r)
<1> DEFINE r == [q EXCEPT !.cache = c, !.queue = Without(@, w), !.occupants[s] = w,
                          !.rec[w] = e]
<1>0. /\ q \in Scheds /\ NamedOnce(q) /\ q.queue \in Seq(Works) /\ c \in CacheType
      /\ \A t \in Slots : SlotFine(q, t)
      /\ Good(q, w, Rest) /\ q.rec \in [Works -> Record] /\ q.rec[w] \in Record
      /\ q.occupants \in [Slots -> Works \cup {NoWork}] /\ q.occupants[s] = NoWork
      /\ AllRest[w] = Rest /\ AllRest \in Flights
  BY RecordTypes DEF Whole, Scheds, Sound, AllRest, IsOccupied
<1>1. /\ Without(q.queue, w) \in Seq(Works) /\ Range(Without(q.queue, w)) = Range(q.queue) \ {w}
      /\ IsInjective(Without(q.queue, w))
  <2>1. IsInjective(q.queue)
    BY <1>0 DEF NamedOnce
  <2> QED
    BY <1>0, <2>1, WithoutSeen
<1>2. /\ e \in Record /\ e.state = "prefill" /\ e.slot = s
      /\ e.slot_generation = c.slot_generation[s] /\ e.prefilled = n
      /\ e.pending = Open(c, s) /\ e.generated = q.rec[w].generated
      /\ e.cancel_requested = q.rec[w].cancel_requested
  <2>1. c.slot_generation[s] \in 0 .. MaxGeneration /\ Open(c, s) \in BOOLEAN
    BY <1>0 DEF CacheType, Open, Reservation
  <2> QED
    BY <1>0, <2>1 DEF Record, Live
<1>3. /\ r \in Scheds /\ r.cache = c /\ r.queue = Without(q.queue, w)
      /\ r.occupants = [q.occupants EXCEPT ![s] = w] /\ r.rec = [q.rec EXCEPT ![w] = e]
      /\ r.results = q.results /\ Quietly(q, r)
  BY <1>0, <1>1, <1>2 DEF Scheds, Quietly
<1> HIDE DEF r
<1>4. NamedOnce(r) /\ \A v : HasResult(r, v) <=> HasResult(q, v)
  BY <1>0, <1>1, <1>3 DEF NamedOnce, HasResult, Quietly
<1>5. q.rec[w].state = "queued" /\ q.rec[w].slot = NoSlot /\ q.rec[w].generated = 0
  BY <1>0 DEF Good, Listed, Admitted
<1>6. Elsewhere(q, r, {w})
  <2> SUFFICES ASSUME NEW v \in Works, v # w
               PROVE  /\ r.rec[v] = q.rec[v]
                      /\ v \in Range(r.queue) <=> v \in Range(q.queue)
                      /\ v \in Range(r.requests) <=> v \in Range(q.requests)
                      /\ HasResult(r, v) => HasResult(q, v)
                      /\ q.rec[v].slot # NoSlot =>
                           /\ r.occupants[q.rec[v].slot] = q.occupants[q.rec[v].slot]
                           /\ Untouched(q.cache, r.cache, q.rec[v].slot)
    BY DEF Elsewhere
  <2>1. q.rec[v].slot # NoSlot => q.rec[v].slot # s /\ q.rec[v].slot \in Slots
    <3>1. Good(q, v, Rest) /\ q.rec[v] \in Record
      BY <1>0 DEF Whole, AllRest
    <3> QED
      BY <1>0, <3>1, Numbers DEF Good, Owning, Record
  <2> QED
    BY <1>0, <1>1, <1>3, <1>4, <2>1 DEF Quietly
<1>7. r.rec[w] = e
  BY <1>0, <1>3
<1>8. Good(r, w, Rest)
  <2>1. Listed(r, w, Rest)
    BY <1>0, <1>1, <1>2, <1>3, <1>4, <1>5, <1>7, RecordTypes, Numbers
       DEF Good, Listed, Quietly, Admitted, Live
  <2>2. Owning(r, w, Rest)
    <3>1. Work[w].max_tokens > 0 /\ 0 < Work[w].max_tokens
      BY <1>0, <1>5, Numbers DEF Good, Listed, Acceptable
    <3>2. r.occupants[s] = w
      BY <1>0, <1>3
    <3>3. Ahead(Rest) = 0
      BY RecordTypes DEF Ahead
    <3>4. n + 0 + 0 = n
      OBVIOUS
    <3> QED
      BY <1>2, <1>3, <1>5, <1>7, <3>1, <3>2, <3>3, <3>4, RecordTypes DEF Owning
  <2> QED
    BY <2>1, <2>2, RecordTypes DEF Good, Travelling
<1>9. \A t \in Slots : q.occupants[t] \in {w} \cup {NoWork} => SlotFine(r, t)
  <2> TAKE t \in Slots
  <2> HAVE q.occupants[t] \in {w} \cup {NoWork}
  <2>1. CASE t = s
    BY <1>0, <1>2, <1>3, <1>7, <2>1, Numbers DEF SlotFine
  <2>2. CASE t # s
    <3>1. q.occupants[t] = NoWork
      BY <1>0, <1>5, Numbers DEF SlotFine
    <3>2. r.occupants[t] = NoWork /\ Untouched(q.cache, r.cache, t)
      BY <1>0, <1>3, <2>2, <3>1
    <3> QED
      BY <1>0, <3>1, <3>2 DEF SlotFine, Untouched, Open
  <2> QED
    BY <2>1, <2>2
<1>10. Whole(r, AllRest)
  BY <1>0, <1>3, <1>4, <1>6, <1>8, <1>9, WholeElsewhere
<1> QED
  BY <1>3, <1>10 DEF r

(* admit_stateful at one slot. *)
LEMMA AdmitStep ==
  ASSUME NEW turn \in Turns, NEW s \in Slots, Whole(turn.q, AllRest)
  PROVE  LET a == AdmitAt(turn, s)
         IN  a \in Turns /\ Whole(a.q, AllRest) /\ Quietly(turn.q, a.q)
<1> DEFINE q == turn.q
           waiting == QueuedDecode(q)
           w == Head(waiting)
           grafted == AdmitSharedPrefix(q.cache, s, w)
           shared == grafted.kv_length[s]
           chunk == Least(Work[w].prompt_tokens - shared, TokenBudget)
           room(c) == chunk = 0 \/ ReserveOK(c, s, chunk)
           tried == IF room(grafted) THEN grafted ELSE Evict(grafted, PagesFor(chunk))
           a == AdmitAt(turn, s)
<1>0. /\ q \in Scheds /\ turn.stop \in BOOLEAN /\ Sound(q.cache) /\ Quietly(q, q)
      /\ \A t \in Slots : SlotFine(q, t)
  BY DEF Turns, Whole, Quietly
<1>1. CASE turn.stop \/ IsOccupied(q, s)
  <2>1. a = turn
    BY <1>1 DEF AdmitAt
  <2> HIDE DEF a
  <2> QED
    BY <1>0, <2>1 DEF a
<1>2. CASE ~turn.stop /\ ~IsOccupied(q, s) /\ waiting = <<>>
  <2>1. a = [turn EXCEPT !.stop = TRUE]
    BY <1>2 DEF AdmitAt
  <2> HIDE DEF a
  <2>2. a \in Turns /\ a.q = q
    BY <2>1 DEF Turns
  <2> QED
    BY <1>0, <2>2 DEF a
<1>3. CASE ~turn.stop /\ ~IsOccupied(q, s) /\ waiting # <<>>
  <2>1. w \in Works /\ w \in Range(q.queue) /\ ~Stateless(w)
    BY <1>0, <1>3, WaitingSeen
  <2>2. q.cache.kv_length[s] = 0 /\ ~Open(q.cache, s) /\ q.occupants[s] = NoWork
    BY <1>0, <1>3 DEF SlotFine, IsOccupied
  <2>3. a = IF ~room(tried)
            THEN [q |-> [q EXCEPT !.cache = IF shared > 0 THEN ReleaseSlot(tried, s) ELSE tried],
                  stop |-> TRUE]
            ELSE [turn EXCEPT
                   !.q.cache = IF chunk = 0 THEN tried ELSE Reserve(tried, s, chunk),
                   !.q.queue = Without(@, w),
                   !.q.occupants[s] = w,
                   !.q.rec[w] = [@ EXCEPT !.state = "prefill", !.slot = s,
                                          !.slot_generation = tried.slot_generation[s],
                                          !.prefilled = shared, !.pending = chunk > 0]]
    <3>1. CASE ~room(tried)
      BY <1>3, <3>1 DEF AdmitAt
    <3>2. CASE room(tried)
      <4> DEFINE full == [turn EXCEPT
                   !.q.cache = IF chunk = 0 THEN tried ELSE Reserve(tried, s, chunk),
                   !.q.queue = Without(@, w),
                   !.q.occupants[s] = w,
                   !.q.rec[w] = [@ EXCEPT !.state = "prefill", !.slot = s,
                                          !.slot_generation = tried.slot_generation[s],
                                          !.prefilled = shared, !.pending = chunk > 0]]
      <4>1. a = full
        BY <1>3, <3>2 DEF AdmitAt
      <4> HIDE DEF a, full, tried
      <4>2. a = IF ~room(tried)
            THEN [q |-> [q EXCEPT !.cache = IF shared > 0 THEN ReleaseSlot(tried, s) ELSE tried],
                  stop |-> TRUE]
            ELSE full
        BY <3>2, <4>1
      <4> QED
        BY <4>2 DEF full
    <3> QED
      BY <3>1, <3>2
  <2> HIDE DEF a, waiting, w
  <2>4. /\ Sound(grafted) /\ \A t \in Slots : t # s => Untouched(q.cache, grafted, t)
        /\ shared \in Nat /\ shared <= Work[w].prompt_tokens /\ ~Open(grafted, s)
    BY <1>0, <2>1, <2>2, SharedSeen
  <2>5. chunk \in Nat /\ TokenBudget \in Nat /\ TokenBudget > 0 /\ PagesFor(chunk) \in Nat
    <3>1. Work[w].prompt_tokens - shared \in Nat
      <4>1. Work[w].prompt_tokens \in Nat
        BY <2>1, Numbers
      <4> HIDE DEF shared
      <4> QED
        BY <2>4, <4>1
    <3>2. chunk \in Nat
      BY <3>1, Numbers DEF Least
    <3> HIDE DEF chunk
    <3>3. PageTokens \in Nat /\ PageTokens > 0
      BY Sizes
    <3> QED
      BY <3>2, <3>3, Numbers DEF PagesFor
  <2> HIDE DEF grafted
  <2>6. /\ Sound(tried) /\ \A t \in Slots : Untouched(grafted, tried, t)
    <3>1. CASE room(grafted)
      <4>1. tried = grafted
        BY <3>1
      <4> HIDE DEF tried
      <4> QED
        BY <2>4, <4>1 DEF Untouched
    <3>2. CASE ~room(grafted)
      <4>1. tried = Evict(grafted, PagesFor(chunk))
        BY <3>2
      <4> HIDE DEF tried, chunk
      <4> QED
        BY <2>4, <2>5, <4>1, EvictSeen
    <3> QED
      BY <3>1, <3>2
  <2> HIDE DEF tried
  <2>7. /\ \A t \in Slots : t # s => Untouched(q.cache, tried, t)
        /\ tried.kv_length[s] = shared /\ ~Open(tried, s)
    BY <2>4, <2>6 DEF Untouched, Open
  <2> HIDE DEF q
  <2>8. CASE ~room(tried)
    <3> DEFINE c == IF shared > 0 THEN ReleaseSlot(tried, s) ELSE tried
               r == [q EXCEPT !.cache = c]
    <3>1. /\ Sound(c) /\ \A t \in Slots : t # s => Untouched(q.cache, c, t)
          /\ c.kv_length[s] = 0 /\ ~Open(c, s)
      <4>1. CASE shared > 0
        <5> DEFINE b == ReleaseSlot(tried, s)
        <5>1. /\ Sound(b) /\ \A t \in Slots : t # s => Untouched(tried, b, t)
              /\ b.kv_length[s] = 0 /\ ~Open(b, s)
          BY <2>6, <2>7, ReleaseSeen
        <5>2. c = b
          BY <4>1
        <5> HIDE DEF b, c
        <5> QED
          BY <2>7, <5>1, <5>2 DEF Untouched
      <4>2. CASE ~(shared > 0)
        <5>1. c = tried /\ shared = 0
          BY <2>4, <4>2
        <5> HIDE DEF c
        <5> QED
          BY <2>6, <2>7, <5>1
      <4> QED
        BY <4>1, <4>2
    <3>2. a = [q |-> r, stop |-> TRUE]
      BY <2>3, <2>8
    <3> HIDE DEF c
    <3>3. \A t \in Slots : q.occupants[t] # NoWork => Untouched(q.cache, c, t)
      BY <2>2, <3>1
    <3>4. \A t \in Slots : q.occupants[t] = NoWork => c.kv_length[t] = 0 /\ ~Open(c, t)
      <4> SUFFICES ASSUME NEW t \in Slots, q.occupants[t] = NoWork, t # s
                   PROVE  c.kv_length[t] = 0 /\ ~Open(c, t)
        BY <3>1
      <4> QED
        BY <1>0, <3>1 DEF SlotFine, Untouched, Open
    <3>5. Whole(r, AllRest) /\ Quietly(q, r)
      BY <3>1, <3>3, <3>4, CacheBesides DEF q
    <3> HIDE DEF r
    <3>6. a \in Turns /\ a.q = r
      BY <3>2, <3>5 DEF Turns, Whole
    <3> QED
      BY <3>5, <3>6 DEF q, a
  <2>9. CASE room(tried)
    <3> DEFINE c == IF chunk = 0 THEN tried ELSE Reserve(tried, s, chunk)
               e == [q.rec[w] EXCEPT !.state = "prefill", !.slot = s,
                                     !.slot_generation = tried.slot_generation[s],
                                     !.prefilled = shared, !.pending = chunk > 0]
               r == [q EXCEPT !.cache = c, !.queue = Without(@, w), !.occupants[s] = w,
                              !.rec[w] = e]
    <3>1. /\ Sound(c) /\ \A t \in Slots : t # s => Untouched(q.cache, c, t)
          /\ c.kv_length[s] = shared /\ c.slot_generation[s] = tried.slot_generation[s]
          /\ Open(c, s) = (chunk > 0) /\ (Open(c, s) => c.reservation[s].tokens = chunk)
      <4>1. CASE chunk = 0
        <5>1. c = tried
          BY <4>1
        <5>2. ~(chunk > 0)
          BY <4>1
        <5>3. Open(c, s) = FALSE
          <6>1. tried \in CacheType
            BY <2>6 DEF Sound
          <6>2. Open(tried, s) \in BOOLEAN
            BY <6>1 DEF CacheType, Open, Reservation
          <6> QED
            BY <2>7, <5>1, <6>2
        <5>4. (chunk > 0) = FALSE
          BY <4>1
        <5> HIDE DEF c, chunk
        <5> QED
          BY <2>6, <2>7, <5>1, <5>3, <5>4
      <4>2. CASE chunk # 0
        <5> DEFINE b == Reserve(tried, s, chunk)
        <5>0. ReserveOK(tried, s, chunk) /\ chunk \in Nat
          BY <2>5, <2>9, <4>2
        <5>00. (chunk > 0) = TRUE /\ c = b
          BY <2>5, <4>2
        <5> HIDE DEF c, chunk
        <5>1. /\ Sound(b) /\ \A t \in Slots : t # s => Untouched(tried, b, t)
              /\ b.kv_length[s] = tried.kv_length[s]
              /\ b.slot_generation[s] = tried.slot_generation[s]
              /\ Open(b, s) /\ b.reservation[s].tokens = chunk
          BY <2>6, <5>0, ReserveSeen
        <5>2. Open(b, s) = TRUE
          <6>1. b \in CacheType
            BY <5>1 DEF Sound
          <6>2. Open(b, s) \in BOOLEAN
            BY <6>1 DEF CacheType, Open, Reservation
          <6> QED
            BY <5>1, <6>2
        <5> HIDE DEF b
        <5> QED
          BY <2>7, <5>00, <5>1, <5>2 DEF Untouched
      <4> QED
        BY <4>1, <4>2
    <3>2. a = [turn EXCEPT !.q.cache = c, !.q.queue = Without(@, w), !.q.occupants[s] = w,
                           !.q.rec[w] = e]
      BY <2>3, <2>9 DEF q
    <3> HIDE DEF c
    <3>3. e = [q.rec[w] EXCEPT !.state = "prefill", !.slot = s,
                               !.slot_generation = c.slot_generation[s],
                               !.prefilled = shared, !.pending = Open(c, s)]
      BY <3>1
    <3>4. Open(c, s) =>
            /\ shared < Work[w].prompt_tokens
            /\ c.reservation[s].tokens = Least(Work[w].prompt_tokens - shared, TokenBudget)
      <4>1. Work[w].prompt_tokens \in Nat
        BY <2>1, Numbers
      <4> HIDE DEF shared
      <4>2. chunk > 0 => shared < Work[w].prompt_tokens
        BY <2>4, <4>1 DEF chunk, Least
      <4> QED
        BY <3>1, <4>2 DEF chunk
    <3> HIDE DEF e, chunk, shared
    <3>5. Whole(r, AllRest) /\ Quietly(q, r)
      BY <1>3, <2>1, <2>4, <3>1, <3>3, <3>4, AdmittedKeeps DEF q
    <3>6. a = [turn EXCEPT !.q = r]
      <4>1. /\ turn = [q |-> q, stop |-> turn.stop]
            /\ q = [cache |-> q.cache, rec |-> q.rec, requests |-> q.requests, queue |-> q.queue,
                    results |-> q.results, pending |-> q.pending, occupants |-> q.occupants,
                    aged |-> q.aged, closed |-> q.closed, draining |-> q.draining,
                    in_round |-> q.in_round]
        BY <1>0 DEF Turns, q, Scheds
      <4> QED
        BY <3>2, <4>1 DEF q
    <3> HIDE DEF r
    <3>7. a \in Turns /\ a.q = r
      BY <3>5, <3>6 DEF Turns, Whole
    <3> QED
      BY <3>5, <3>7 DEF q, a
  <2> QED
    BY <2>8, <2>9
<1> QED
  BY <1>1, <1>2, <1>3

(* admit_stateful *)
LEMMA AdmitKeeps ==
  ASSUME NEW q, Whole(q, AllRest)
  PROVE  LET r == AdmitStateful(q) IN Whole(r, AllRest) /\ Quietly(q, r)
<1> DEFINE n == NumSlots
           Fine(turn) == Whole(turn.q, AllRest) /\ Quietly(q, turn.q)
           H == [i \in 0 .. n |-> {turn \in Turns : Fine(turn)}]
           base == [q |-> q, stop |-> FALSE]
           end == AdmitFold!Fold(<<>>, base, 1 .. n)[1 .. n]
<1>1. n \in Nat /\ DOMAIN SlotOrder = 1 .. n /\ \A i \in 1 .. n : SlotOrder[i] \in Slots
  BY Visits
<1> HIDE DEF n
<1>2. AdmitStateful(q) = end.q
  BY <1>1 DEF AdmitStateful, FoldLeft, MapThenFoldSet, AdmitFold!Fold, AdmitFold!Iteration,
              AdmitOp
<1>3. base \in H[0]
  <2>1. base \in Turns /\ Fine(base)
    BY DEF Turns, Whole, Quietly
  <2> HIDE DEF base, Fine
  <2> QED
    BY <1>1, <2>1
<1>4. ASSUME NEW i \in 1 .. n, NEW turn \in H[i - 1]
      PROVE  AdmitOp(<<>>, i, turn) \in H[i]
  <2>1. i - 1 \in 0 .. n /\ i \in 0 .. n
    BY <1>1
  <2>2. turn \in Turns /\ Fine(turn)
    BY <2>1
  <2>3. LET a == AdmitAt(turn, SlotOrder[i])
        IN  a \in Turns /\ Whole(a.q, AllRest) /\ Quietly(turn.q, a.q)
    BY <1>1, <2>2, AdmitStep
  <2> QED
    BY <2>1, <2>2, <2>3 DEF AdmitOp, Quietly
<1> HIDE DEF H, base
<1>5. end \in H[n]
  BY <1>1, <1>3, <1>4, Greatest, AdmitFold!InOrder DEF Grounded, AdmitFold!Grounded
<1> HIDE DEF end
<1>6. Fine(end)
  BY <1>1, <1>5 DEF H
<1> QED
  BY <1>2, <1>6

-----------------------------------------------------------------------------
(* Dispatch: works take off.                                               *)

(* The flight of a work in a dispatch made from q. *)
FlightIn(q, w, kind, rows) ==
  [at |-> "flying", kind |-> kind, rows |-> rows, slot |-> q.rec[w].slot,
   generation |-> q.rec[w].slot_generation]

(* A work that may be dispatched. *)
Ready(q, F, w, kind, rows) ==
  /\ F[w] = Rest
  /\ IF kind = "stateless" THEN Stateless(w) /\ w \in Range(q.queue)
     ELSE IF kind = "prefill"
     THEN /\ q.rec[w].state = "prefill" /\ q.rec[w].prefilled + rows <= Work[w].prompt_tokens
          /\ rows = Least(Work[w].prompt_tokens - q.rec[w].prefilled, TokenBudget)
     ELSE q.rec[w].state = "decoding" /\ rows = 1

(* A flight has its type. *)
LEMMA FlightTyped ==
  ASSUME NEW q \in Scheds, NEW w \in Works, NEW kind \in Kinds, NEW rows \in Nat
  PROVE  FlightIn(q, w, kind, rows) \in Flight /\ FlightIn(q, w, kind, rows) # Rest
<1>1. q.rec[w] \in Record
  BY DEF Scheds
<1> QED
  BY <1>1 DEF FlightIn, Flight, Record, Rest

(* A step at the slot of one work concerns that work only. *)
LEMMA OneApart ==
  ASSUME NEW q, NEW F, Whole(q, F), NEW w \in Works, NEW r,
         \A t \in Slots : t # q.rec[w].slot => Untouched(q.cache, r.cache, t),
         \A v \in Works : v # w => r.rec[v] = q.rec[v],
         r.occupants = q.occupants, r.queue = q.queue, r.results = q.results,
         r.requests = q.requests
  PROVE  Elsewhere(q, r, {w})
<1>1. \A v : HasResult(r, v) <=> HasResult(q, v)
  BY DEF HasResult
<1> SUFFICES ASSUME NEW v \in Works, v # w
             PROVE  q.rec[v].slot # NoSlot => Untouched(q.cache, r.cache, q.rec[v].slot)
  BY <1>1 DEF Elsewhere
<1> QED
  BY SlotsApart

(* Only the reservation of w's slot is open anew, for so many rows. *)
OpenedFor(q, w, rows, c) ==
  /\ Sound(c)
  /\ \A t \in Slots :
       /\ t # q.rec[w].slot => Untouched(q.cache, c, t)
       /\ t = q.rec[w].slot =>
            /\ c.kv_length[t] = q.cache.kv_length[t]
            /\ c.slot_generation[t] = q.cache.slot_generation[t]
            /\ Open(c, t) /\ c.reservation[t].tokens = rows

(* A work's record is no longer pending, and only the cache changed besides. *)
Unpended(q, w, r) ==
  /\ r \in Scheds /\ r.occupants = q.occupants /\ r.queue = q.queue
  /\ r.rec = [q.rec EXCEPT ![w] = [q.rec[w] EXCEPT !.pending = FALSE]]
  /\ r.results = q.results /\ Quietly(q, r)

(* One admitted work takes off, with the reservation admission made or one *)
(* of its own.                                                             *)
LEMMA TakeOff ==
  ASSUME NEW q, NEW F, Whole(q, F), NEW w \in Works, NEW kind \in {"prefill", "decode"},
         NEW rows \in Nat, Ready(q, F, w, kind, rows),
         NEW r, Unpended(q, w, r), OpenedFor(q, w, rows, r.cache)
  PROVE  Whole(r, [F EXCEPT ![w] = FlightIn(q, w, kind, rows)])
<1> DEFINE e == [q.rec[w] EXCEPT !.pending = FALSE]  s == q.rec[w].slot
           f == FlightIn(q, w, kind, rows)  G == [F EXCEPT ![w] = f]
           c == r.cache
<1>a. /\ Sound(c)
      /\ r \in Scheds /\ r.occupants = q.occupants /\ r.queue = q.queue
      /\ r.rec = [q.rec EXCEPT ![w] = [q.rec[w] EXCEPT !.pending = FALSE]]
      /\ r.results = q.results /\ Quietly(q, r)
  BY DEF Unpended, OpenedFor
<1>b. \A t \in Slots :
        /\ t # q.rec[w].slot => Untouched(q.cache, c, t)
        /\ t = q.rec[w].slot =>
             /\ c.kv_length[t] = q.cache.kv_length[t]
             /\ c.slot_generation[t] = q.cache.slot_generation[t]
             /\ Open(c, t) /\ c.reservation[t].tokens = rows
  BY DEF OpenedFor
<1>0. /\ q \in Scheds /\ NamedOnce(q) /\ F \in Flights /\ Good(q, w, F[w]) /\ F[w] = Rest
      /\ q.rec \in [Works -> Record] /\ q.rec[w] \in Record /\ e \in Record
      /\ \A t \in Slots : SlotFine(q, t)
      /\ c \in CacheType /\ f \in Flight /\ kind # "stateless"
  <2>1. q \in Scheds /\ q.rec \in [Works -> Record] /\ q.rec[w] \in Record
    BY DEF Whole, Scheds
  <2>2. f \in Flight
    BY <2>1, FlightTyped DEF Kinds
  <2> QED
    BY <1>a, <2>1, <2>2 DEF Whole, Record, Ready, Sound
<1>1. /\ r \in Scheds /\ r.cache = c /\ r.rec = [q.rec EXCEPT ![w] = e] /\ r.occupants = q.occupants
      /\ r.queue = q.queue /\ r.results = q.results /\ Quietly(q, r)
  BY <1>a
<1>2. /\ r.rec[w] = e /\ e.state = q.rec[w].state /\ e.slot = s /\ ~e.pending
      /\ e.prefilled = q.rec[w].prefilled /\ e.generated = q.rec[w].generated
      /\ e.slot_generation = q.rec[w].slot_generation
      /\ e.cancel_requested = q.rec[w].cancel_requested
  BY <1>0, <1>1 DEF Record
<1>3. NamedOnce(r) /\ \A v : HasResult(r, v) <=> HasResult(q, v)
  BY <1>0, <1>1 DEF NamedOnce, HasResult, Quietly
<1>4. q.rec[w].state \in Admitted /\ s # NoSlot /\ s \in Slots
  BY <1>0 DEF Good, Listed, Ready, Admitted, Record
<1>5. /\ f.at = "flying" /\ f.kind = kind /\ f.rows = rows /\ f.slot = s
      /\ f.generation = q.rec[w].slot_generation
  BY DEF FlightIn
<1> HIDE DEF e, f, s, c
<1>6. /\ \A v \in Works : v # w => r.rec[v] = q.rec[v]
      /\ \A t \in Slots : t # s => Untouched(q.cache, c, t)
  BY <1>1, <1>b DEF s
<1>7. Elsewhere(q, r, {w})
  BY <1>1, <1>6, OneApart DEF Quietly, s, c
<1>8. Good(r, w, f)
  <2>1. Listed(r, w, f)
    BY <1>0, <1>1, <1>2, <1>3, <1>4, <1>5, RecordTypes DEF Good, Listed, Quietly, Admitted
  <2>2. /\ c.kv_length[s] = q.cache.kv_length[s] /\ Open(c, s)
        /\ c.slot_generation[s] = q.cache.slot_generation[s]
        /\ c.reservation[s].tokens = rows
    BY <1>4, <1>b DEF s
  <2>3. Owning(r, w, f)
    BY <1>0, <1>1, <1>2, <1>4, <1>5, <2>2, RecordTypes DEF Good, Owning, Ahead, s
  <2>4. Travelling(r, w, f)
    BY <1>0, <1>1, <1>2, <1>4, <1>5, <2>2 DEF Travelling, Ready
  <2> QED
    BY <2>1, <2>3, <2>4 DEF Good
<1>9. \A t \in Slots : q.occupants[t] \in {w} \cup {NoWork} => SlotFine(r, t)
  <2> TAKE t \in Slots
  <2> HAVE q.occupants[t] \in {w} \cup {NoWork}
  <2>1. CASE q.occupants[t] = w
    <3>1. w # NoWork
      BY Numbers
    <3> QED
      BY <1>0, <1>1, <1>2, <2>1, <3>1 DEF SlotFine, s
  <2>2. CASE q.occupants[t] # w
    <3>1. q.occupants[t] = NoWork /\ t # s
      BY <1>0, <1>4, <2>2 DEF Good, Owning, s
    <3>2. Untouched(q.cache, c, t)
      BY <1>6, <3>1
    <3> QED
      BY <1>0, <1>1, <3>1, <3>2 DEF SlotFine, Untouched, Open
  <2> QED
    BY <2>1, <2>2
<1>10. G \in Flights /\ G[w] = f /\ \A v \in Works \ {w} : G[v] = F[v]
  BY <1>0 DEF Flights
<1> HIDE DEF G
<1>11. Whole(r, G)
  <2>1. Sound(r.cache)
    BY <1>a DEF c
  <2>2. \A v \in {w} : Good(r, v, G[v])
    BY <1>8, <1>10
  <2>4. r \in Scheds /\ G \in Flights /\ {w} \in SUBSET Works
    BY <1>1, <1>10
  <2>5. NamedOnce(r)
    BY <1>3
  <2>6. \A v \in Works \ {w} : G[v] = F[v]
    BY <1>10
  <2> QED
    BY <1>7, <1>9, <2>1, <2>2, <2>4, <2>5, <2>6, WholeElsewhere
<1> QED
  BY <1>11 DEF G, f

(* The works of W are at rest, the others where F says. *)
Landed(F, W) == [w \in Works |-> IF w \in W THEN Rest ELSE F[w]]

(* The slots of flying works are slots. *)
LEMMA FlyingSlots ==
  ASSUME NEW q, NEW F, Whole(q, F), NEW W \in SUBSET Works,
         \A w \in W : F[w].at = "flying" /\ F[w].kind # "stateless"
  PROVE  {F[w].slot : w \in W} \in SUBSET Slots
<1> SUFFICES ASSUME NEW w \in W PROVE F[w].slot \in Slots
  OBVIOUS
<1>1. Good(q, w, F[w]) /\ F[w] \in Flight
  BY DEF Whole, Flights
<1> QED
  BY <1>1 DEF Good, Travelling, Flight

(* Works whose reservations are rolled back have landed again. *)
LEMMA TurnBack ==
  ASSUME NEW q, NEW F, Whole(q, F), NEW W \in SUBSET Works,
         \A w \in W : F[w].at = "flying" /\ F[w].kind # "stateless",
         NEW r \in Scheds, r.cache = Rollback(q.cache, {F[w].slot : w \in W}),
         r.rec = q.rec, r.occupants = q.occupants, r.queue = q.queue, r.results = q.results,
         r.requests = q.requests
  PROVE  Whole(r, Landed(F, W)) /\ Elsewhere(q, r, W)
<1> DEFINE S == {F[w].slot : w \in W}  c == Rollback(q.cache, S)  G == Landed(F, W)
<1>0. /\ q \in Scheds /\ NamedOnce(q) /\ F \in Flights /\ Sound(q.cache)
      /\ \A t \in Slots : SlotFine(q, t)
      /\ q.rec \in [Works -> Record]
  BY DEF Whole, Scheds
<1>1. ASSUME NEW w \in W
      PROVE  /\ w \in Works /\ Good(q, w, F[w]) /\ q.rec[w].slot = F[w].slot
             /\ F[w].slot # NoSlot /\ F[w].slot \in Slots /\ F[w] \in Flight
             /\ ~q.rec[w].pending /\ q.rec[w].state \in Admitted
  <2>1. w \in Works /\ Good(q, w, F[w]) /\ F[w] \in Flight
    BY <1>0 DEF Whole, Flights
  <2> QED
    BY <2>1, Numbers DEF Good, Travelling, Listed, Flight, Admitted
<1>2. S \in SUBSET Slots
  BY <1>1
<1> HIDE DEF S
<1>3. /\ Sound(c) /\ \A t \in Slots : t \notin S => Untouched(q.cache, c, t)
      /\ \A s \in S : /\ c.kv_length[s] = q.cache.kv_length[s]
                      /\ c.slot_generation[s] = q.cache.slot_generation[s]
                      /\ ~Open(c, s)
  BY <1>0, <1>2, RollbackSeen
<1>5. /\ r \in Scheds /\ r.cache = c /\ r.rec = q.rec /\ r.occupants = q.occupants
      /\ r.queue = q.queue /\ r.results = q.results /\ r.requests = q.requests
  BY DEF S
<1> HIDE DEF c
<1>6. NamedOnce(r) /\ \A v : HasResult(r, v) <=> HasResult(q, v)
  BY <1>0, <1>5 DEF NamedOnce, HasResult
<1>7. Elsewhere(q, r, W)
  <2> SUFFICES ASSUME NEW v \in Works \ W, q.rec[v].slot # NoSlot
               PROVE  Untouched(q.cache, c, q.rec[v].slot)
    BY <1>5, <1>6 DEF Elsewhere
  <2>1. q.rec[v].slot \in Slots
    BY <1>0 DEF Record
  <2>2. q.rec[v].slot \notin S
    <3> SUFFICES ASSUME NEW w \in W, F[w].slot = q.rec[v].slot PROVE FALSE
      BY DEF S
    <3>1. w \in Works /\ w # v /\ q.rec[w].slot = q.rec[v].slot
      BY <1>1
    <3> QED
      BY <3>1, SlotsApart
  <2> QED
    BY <1>3, <2>1, <2>2
<1>8. \A s \in Slots : SlotFine(r, s)
  <2> TAKE s \in Slots
  <2>1. CASE s \in S
    BY <1>0, <1>3, <1>5, <2>1 DEF SlotFine
  <2>2. CASE s \notin S
    BY <1>0, <1>3, <1>5, <2>2 DEF SlotFine, Untouched, Open
  <2> QED
    BY <2>1, <2>2
<1>9. ASSUME NEW w \in W PROVE Good(r, w, Rest)
  <2> DEFINE s == q.rec[w].slot
  <2>1. /\ w \in Works /\ Good(q, w, F[w]) /\ s = F[w].slot /\ s # NoSlot /\ s \in S
        /\ ~q.rec[w].pending /\ q.rec[w].state \in Admitted
    BY <1>1 DEF S
  <2>2. /\ c.kv_length[s] = q.cache.kv_length[s] /\ ~Open(c, s)
        /\ c.slot_generation[s] = q.cache.slot_generation[s]
    BY <1>3, <2>1
  <2>3. Listed(r, w, Rest)
    BY <1>5, <1>6, <2>1, RecordTypes DEF Good, Listed, Admitted
  <2>4. Owning(r, w, Rest)
    <3>1. Ahead(F[w]) = 0 /\ Ahead(Rest) = 0
      BY RecordTypes DEF Ahead
    <3> QED
      BY <1>5, <2>1, <2>2, <3>1, RecordTypes DEF Good, Owning
  <2> QED
    BY <2>3, <2>4, RecordTypes DEF Good, Travelling
<1>10. G \in Flights
  BY <1>0, RecordTypes DEF Landed, Flights
<1>11. \A v \in W : G[v] = Rest
  BY DEF Landed
<1>12. \A v \in Works \ W : G[v] = F[v]
  BY DEF Landed
<1> HIDE DEF G
<1>13. Whole(r, G)
  <2>1. Sound(r.cache)
    BY <1>3, <1>5
  <2>2. \A w \in W : Good(r, w, G[w])
    BY <1>9, <1>11
  <2>3. \A s \in Slots : q.occupants[s] \in W \cup {NoWork} => SlotFine(r, s)
    BY <1>8
  <2>4. r \in Scheds /\ G \in Flights
    BY <1>5, <1>10
  <2> QED
    BY <1>6, <1>7, <1>12, <2>1, <2>2, <2>3, <2>4, WholeElsewhere
<1> QED
  BY <1>7, <1>13 DEF G

(* Stateless works leave the queue together. *)
LEMMA StatelessOff ==
  ASSUME NEW q, NEW F, Whole(q, F), NEW W \in SUBSET Works, NEW rows \in Nat,
         \A w \in W : Ready(q, F, w, "stateless", rows),
         NEW r \in Scheds, r.queue = Keep(q.queue, Works \ W), r.cache = q.cache,
         r.rec = q.rec, r.occupants = q.occupants, r.results = q.results,
         r.requests = q.requests,
         NEW G \in Flights, \A w \in W : G[w] = FlightIn(q, w, "stateless", rows),
         \A v \in Works \ W : G[v] = F[v]
  PROVE  Whole(r, G) /\ Elsewhere(q, r, W)
<1>0. /\ q \in Scheds /\ NamedOnce(q) /\ F \in Flights /\ Sound(q.cache)
      /\ \A t \in Slots : SlotFine(q, t)
      /\ q.queue \in Seq(Works)
  BY DEF Whole, Scheds
<1>1. /\ Keep(q.queue, Works \ W) \in Seq(Works)
      /\ Range(Keep(q.queue, Works \ W)) = Range(q.queue) \cap (Works \ W)
      /\ IsInjective(Keep(q.queue, Works \ W))
  <2>1. IsInjective(q.queue)
    BY <1>0 DEF NamedOnce
  <2> QED
    BY <1>0, <2>1, KeepSeen
<1>2. /\ r \in Scheds /\ r.cache = q.cache /\ r.rec = q.rec /\ r.occupants = q.occupants
      /\ r.queue = Keep(q.queue, Works \ W) /\ r.results = q.results
      /\ r.requests = q.requests
  OBVIOUS
<1>3. NamedOnce(r) /\ \A v : HasResult(r, v) <=> HasResult(q, v)
  BY <1>0, <1>1, <1>2 DEF NamedOnce, HasResult
<1>4. Elsewhere(q, r, W)
  BY <1>1, <1>2, <1>3 DEF Elsewhere, Untouched
<1>5. \A t \in Slots : SlotFine(r, t)
  BY <1>0, <1>2 DEF SlotFine
<1>7. /\ G \in Flights /\ \A v \in Works \ W : G[v] = F[v]
  OBVIOUS
<1>8. ASSUME NEW w \in W PROVE Good(r, w, G[w])
  <2> DEFINE f == FlightIn(q, w, "stateless", rows)
  <2>1. /\ w \in Works /\ G[w] = f /\ w \in Range(q.queue) /\ Stateless(w) /\ F[w] = Rest
        /\ Good(q, w, F[w])
    BY <1>0 DEF Ready, Whole
  <2>2. f.at = "flying" /\ f.kind = "stateless"
    BY DEF FlightIn
  <2> HIDE DEF f
  <2>3. /\ q.rec[w].state = "queued" /\ q.rec[w].slot = NoSlot /\ ~q.rec[w].pending
        /\ q.rec[w].generated = 0
    BY <2>1 DEF Good, Listed, Admitted
  <2>4. w \notin Range(r.queue)
    BY <1>1, <1>2
  <2>5. Listed(r, w, f)
    BY <1>2, <1>3, <2>1, <2>2, <2>3, <2>4 DEF Good, Listed, Live, Terminal, Admitted
  <2> QED
    BY <1>2, <2>1, <2>2, <2>3, <2>5 DEF Good, Owning, Travelling
<1>9. Whole(r, G)
  BY <1>0, <1>2, <1>3, <1>4, <1>5, <1>7, <1>8, WholeElsewhere
<1> QED
  BY <1>4, <1>9

(* The selected works, one after the other. *)
Batch(q, F, members, kind, rows) ==
  /\ members \in Seq(Works) /\ Len(members) > 0 /\ IsInjective(members)
  /\ kind \in Kinds /\ rows \in Nat /\ rows > 0
  /\ \A v, w \in Range(members) : KeyOf(v) = KeyOf(w)
  /\ \A w \in Range(members) : Ready(q, F, w, kind, rows)

(* One step after another. *)
LEMMA ElsewhereOn ==
  ASSUME NEW q, NEW r, NEW a, NEW V, NEW W, Elsewhere(q, r, V), Elsewhere(r, a, W)
  PROVE  Elsewhere(q, a, V \cup W)
<1> SUFFICES ASSUME NEW v \in Works \ (V \cup W)
             PROVE  /\ a.rec[v] = q.rec[v]
                    /\ v \in Range(a.queue) <=> v \in Range(q.queue)
                    /\ v \in Range(a.requests) <=> v \in Range(q.requests)
                    /\ HasResult(a, v) => HasResult(q, v)
                    /\ q.rec[v].slot # NoSlot =>
                         /\ a.occupants[q.rec[v].slot] = q.occupants[q.rec[v].slot]
                         /\ Untouched(q.cache, a.cache, q.rec[v].slot)
  BY DEF Elsewhere
<1>1. v \in Works \ V /\ v \in Works \ W
  OBVIOUS
<1>2. /\ r.rec[v] = q.rec[v]
      /\ v \in Range(r.queue) <=> v \in Range(q.queue)
      /\ v \in Range(r.requests) <=> v \in Range(q.requests)
      /\ HasResult(r, v) => HasResult(q, v)
      /\ q.rec[v].slot # NoSlot =>
           /\ r.occupants[q.rec[v].slot] = q.occupants[q.rec[v].slot]
           /\ Untouched(q.cache, r.cache, q.rec[v].slot)
  BY <1>1 DEF Elsewhere
<1>3. /\ a.rec[v] = r.rec[v]
      /\ v \in Range(a.queue) <=> v \in Range(r.queue)
      /\ v \in Range(a.requests) <=> v \in Range(r.requests)
      /\ HasResult(a, v) => HasResult(r, v)
      /\ r.rec[v].slot # NoSlot =>
           /\ a.occupants[r.rec[v].slot] = r.occupants[r.rec[v].slot]
           /\ Untouched(r.cache, a.cache, r.rec[v].slot)
  BY <1>1 DEF Elsewhere
<1> QED
  BY <1>2, <1>3 DEF Untouched

(* The first k members. *)
First(members, k) == {members[j] : j \in 1 .. k}

(* What a batch is made of. *)
LEMMA BatchSeen ==
  ASSUME NEW q, NEW F, NEW members, NEW kind, NEW rows, Batch(q, F, members, kind, rows)
  PROVE  /\ Len(members) \in Nat /\ DOMAIN members = 1 .. Len(members)
         /\ Range(members) = First(members, Len(members)) /\ First(members, 0) = {}
         /\ Range(members) \in SUBSET Works
         /\ \A i \in 1 .. Len(members) :
              /\ members[i] \in Works /\ members[i] \in Range(members)
              /\ members[i] \notin First(members, i - 1)
              /\ First(members, i) = First(members, i - 1) \cup {members[i]}
              /\ First(members, i) \in SUBSET Range(members)
              /\ Ready(q, F, members[i], kind, rows)
<1> DEFINE n == Len(members)
<1>1. n \in Nat /\ DOMAIN members = 1 .. n /\ members \in Seq(Works) /\ IsInjective(members)
  BY DEF Batch
<1> HIDE DEF n
<1>2. Range(members) = First(members, n) /\ First(members, 0) = {}
  BY <1>1 DEF Range, First
<1>3. \A i \in 1 .. n : members[i] \in Works /\ members[i] \in Range(members)
  BY <1>1 DEF Range, n
<1>4. ASSUME NEW i \in 1 .. n
      PROVE  /\ members[i] \notin First(members, i - 1)
             /\ First(members, i) = First(members, i - 1) \cup {members[i]}
             /\ First(members, i) \in SUBSET Range(members)
  <2>1. 1 .. i = (1 .. i - 1) \cup {i} /\ \A j \in 1 .. i : j \in 1 .. n
    BY <1>1
  <2>2. First(members, i) = First(members, i - 1) \cup {members[i]}
    BY <2>1 DEF First
  <2>3. members[i] \notin First(members, i - 1)
    BY <1>1, <2>1 DEF First, IsInjective
  <2>4. First(members, i) \in SUBSET Range(members)
    BY <1>3, <2>1 DEF First
  <2> QED
    BY <2>2, <2>3, <2>4
<1>5. \A i \in 1 .. n : Ready(q, F, members[i], kind, rows)
  BY <1>3 DEF Batch
<1>6. Range(members) \in SUBSET Works
  BY <1>1 DEF Range, n
<1> QED
  BY <1>1, <1>2, <1>3, <1>4, <1>5, <1>6 DEF n

-----------------------------------------------------------------------------
(* A batch that cannot be dispatched fails.                                *)

FailOp(p, i, r) == FailMember(r, p.members[i], p.kind)
FailFold == INSTANCE Folding WITH Op <- FailOp, Choose <- Max

(* The works of W have ended where they were at rest. *)
Failed(q, F, r, W) ==
  /\ Whole(r, F) /\ Elsewhere(q, r, W) /\ Quietly(q, r)
  /\ \A w \in W : r.rec[w].state \in Terminal /\ ~r.rec[w].pending

(* A work that is ready, or has just been, may fail. *)
MayFail(q, F, w, kind) ==
  /\ F[w] = Rest
  /\ IF kind = "stateless" THEN w \in Range(q.queue)
     ELSE q.rec[w].state \in Admitted

(* One more of a batch fails, and nobody else is concerned. *)
LEMMA FailStep ==
  ASSUME NEW q, NEW F, NEW r, NEW W \in SUBSET Works, NEW w \in Works, w \notin W,
         NEW kind \in Kinds, MayFail(q, F, w, kind), Failed(q, F, r, W)
  PROVE  Failed(q, F, FailMember(r, w, kind), W \cup {w})
<1> DEFINE a == FailMember(r, w, kind)
<1>0. /\ Whole(r, F) /\ F \in Flights /\ r \in Scheds /\ Good(r, w, F[w]) /\ F[w] = Rest
      /\ "failed" \in Terminal
      /\ r.rec[w] = q.rec[w]
      /\ w \in Range(r.queue) <=> w \in Range(q.queue)
  BY DEF Failed, Whole, MayFail, Terminal, Elsewhere
<1>1. /\ Whole(a, F) /\ Elsewhere(r, a, {w}) /\ Quietly(r, a)
      /\ a.rec[w].state \in Terminal /\ ~a.rec[w].pending
  <2>1. CASE kind = "stateless"
    <3> DEFINE b == [r EXCEPT !.queue = Without(@, w)]  G == [F EXCEPT ![w] = Leaving]
               st == "failed"
    <3>1. w \in Range(r.queue)
      BY <1>0, <2>1 DEF MayFail
    <3>2. /\ Whole(b, G) /\ Elsewhere(r, b, {w}) /\ Quietly(r, b) /\ w \notin Range(b.queue)
          /\ b.rec = r.rec
      BY <1>0, <3>1, LeaveQueue
    <3>3. a = PublishResult(b, w, "failed")
      BY <2>1 DEF FailMember
    <3>4. r.rec[w].state = "queued" /\ r.rec[w].slot = NoSlot
      BY <1>0, <3>1 DEF Good, Listed, Admitted
    <3> HIDE DEF a, b
    <3>5. b.rec[w].state # "unknown" /\ b.rec[w].slot = NoSlot
      BY <3>2, <3>4
    <3>6. Whole(a, [G EXCEPT ![w] = Rest]) /\ Ended(b, a, w)
      BY <1>0, <3>2, <3>3, <3>5, PublishKeeps
    <3>7. [G EXCEPT ![w] = Rest] = F
      BY <1>0 DEF Flights
    <3>8. Elsewhere(r, a, {w}) /\ Quietly(r, a)
      BY <3>2, <3>6 DEF Ended, Elsewhere, Quietly, Untouched
    <3> HIDE DEF G
    <3> QED
      BY <3>6, <3>7, <3>8 DEF Ended, a
  <2>2. CASE kind # "stateless"
    <3>1. a = ReleaseAndPublish(r, w, "failed")
      BY <2>2 DEF FailMember
    <3>2. r.rec[w].state \in Admitted
      BY <1>0, <2>2 DEF MayFail
    <3>3. /\ r.rec[w].state # "unknown" /\ w \notin Range(r.queue)
          /\ \A s \in Slots : r.rec[w].slot = s /\ Open(r.cache, s) => r.rec[w].pending
      BY <1>0, <3>2, RecordTypes, Numbers DEF Good, Listed, Owning, Admitted
    <3> HIDE DEF a
    <3>4. Whole(a, [F EXCEPT ![w] = Rest]) /\ Ended(r, a, w)
      BY <1>0, <3>1, <3>3, EndKeeps
    <3>5. [F EXCEPT ![w] = Rest] = F
      BY <1>0, StillResting
    <3> QED
      BY <3>4, <3>5 DEF Ended, a
  <2> QED
    BY <2>1, <2>2
<1> HIDE DEF a
<1>2. Elsewhere(q, a, W \cup {w})
  BY <1>1, ElsewhereOn DEF Failed
<1>3. Quietly(q, a)
  BY <1>1 DEF Failed, Quietly
<1>4. \A v \in W : a.rec[v] = r.rec[v]
  BY <1>1 DEF Elsewhere
<1> QED
  BY <1>1, <1>2, <1>3, <1>4 DEF Failed, a

(* fail_selected_batch *)
LEMMA FailKeeps ==
  ASSUME NEW q, NEW F, Whole(q, F), NEW members \in Seq(Works), IsInjective(members),
         NEW kind \in Kinds, \A w \in Range(members) : MayFail(q, F, w, kind)
  PROVE  Failed(q, F, FailSelected(q, members, kind), Range(members))
<1> DEFINE n == Len(members)  p == [members |-> members, kind |-> kind]
           H == [i \in 0 .. n |-> {r \in Scheds : Failed(q, F, r, First(members, i))}]
<1>1. n \in Nat /\ DOMAIN members = 1 .. n /\ Range(members) = First(members, n)
  BY DEF First, Range
<1> HIDE DEF n
<1>2. FailSelected(q, members, kind) = FailFold!Fold(p, q, 1 .. n)[1 .. n]
  BY <1>1 DEF FailSelected, FoldLeft, MapThenFoldSet, FailFold!Fold, FailFold!Iteration, FailOp
<1>3. q \in H[0]
  <2>1. First(members, 0) = {}
    BY DEF First
  <2>2. Failed(q, F, q, {})
    BY DEF Failed, Elsewhere, Quietly, Untouched
  <2>3. q \in Scheds /\ Failed(q, F, q, First(members, 0)) /\ 0 \in 0 .. n
    <3>1. q \in Scheds
      BY DEF Whole
    <3>2. Failed(q, F, q, First(members, 0))
      BY <2>1, <2>2, Zenon
    <3> QED
      BY <1>1, <3>1, <3>2
  <2> QED
    BY <2>3
<1>4. ASSUME NEW i \in 1 .. n, NEW r \in H[i - 1]
      PROVE  FailOp(p, i, r) \in H[i]
  <2>1. i - 1 \in 0 .. n /\ i \in 0 .. n
    BY <1>1
  <2>2. r \in Scheds /\ Failed(q, F, r, First(members, i - 1))
    BY <2>1
  <2>3. /\ members[i] \in Works /\ members[i] \in Range(members)
        /\ \A j \in 1 .. i - 1 : members[j] # members[i] /\ members[j] \in Works
    BY <1>1 DEF Range, IsInjective
  <2>4. /\ First(members, i - 1) \in SUBSET Works /\ members[i] \notin First(members, i - 1)
    BY <2>3 DEF First
  <2>5. First(members, i) = First(members, i - 1) \cup {members[i]}
    <3>1. 1 .. i = (1 .. i - 1) \cup {i}
      BY <1>1
    <3> QED
      BY <3>1 DEF First
  <2>6. Failed(q, F, FailMember(r, members[i], kind), First(members, i))
    BY <2>2, <2>3, <2>4, <2>5, FailStep
  <2> QED
    BY <2>1, <2>6 DEF FailOp, Failed, Whole
<1> HIDE DEF H, p
<1>5. FailFold!Fold(p, q, 1 .. n)[1 .. n] \in H[n]
  BY <1>1, <1>3, <1>4, Greatest, FailFold!InOrder DEF Grounded, FailFold!Grounded
<1> QED
  BY <1>1, <1>2, <1>5 DEF H

-----------------------------------------------------------------------------
(* One reservation per member.                                             *)

Openings == [q: Scheds, ok: BOOLEAN, opened: SUBSET Slots]
OpenOp(p, i, turn) == OpenFor(turn, p.members[i], p.rows)
OpenFold == INSTANCE Folding WITH Op <- OpenOp, Choose <- Max

(* The works of W have taken off from q. *)
Aloft(q, F, W, kind, rows) ==
  [w \in Works |-> IF w \in W THEN FlightIn(q, w, kind, rows) ELSE F[w]]
Off(q, F, r, W, kind, rows) ==
  /\ Whole(r, Aloft(q, F, W, kind, rows)) /\ Elsewhere(q, r, W) /\ Quietly(q, r)
  /\ r.queue = q.queue
  /\ \A w \in W : r.rec[w] = [q.rec[w] EXCEPT !.pending = FALSE]
(* The first i members were visited; opening stopped at the first failure. *)
Opened(q, F, members, kind, rows, i, turn) ==
  \E k \in 0 .. i :
    /\ turn.ok => k = i
    /\ Off(q, F, turn.q, First(members, k), kind, rows)
    /\ turn.opened = {q.rec[w].slot : w \in First(members, k)}

(* One member more has its reservation, or the openings stop. *)
LEMMA OpenStep ==
  ASSUME NEW q, NEW F, Whole(q, F), NEW members, NEW kind \in {"prefill", "decode"}, NEW rows,
         Batch(q, F, members, kind, rows), NEW i \in 1 .. Len(members),
         NEW turn \in Openings, Opened(q, F, members, kind, rows, i - 1, turn)
  PROVE  LET a == OpenFor(turn, members[i], rows)
         IN  a \in Openings /\ Opened(q, F, members, kind, rows, i, a)
<1> DEFINE w == members[i]  s == turn.q.rec[w].slot  a == OpenFor(turn, w, rows)
           W == First(members, i - 1)  G == Aloft(q, F, W, kind, rows)
<1>0. /\ Len(members) \in Nat /\ w \in Works /\ w \notin W /\ First(members, i) = W \cup {w}
      /\ W \in SUBSET Works
      /\ Ready(q, F, w, kind, rows) /\ rows \in Nat /\ q \in Scheds /\ F \in Flights
      /\ q.rec \in [Works -> Record] /\ First(members, i) \in SUBSET Works
      /\ kind \in Kinds
  <2>1. /\ Len(members) \in Nat /\ w \in Works /\ w \notin W /\ First(members, i) = W \cup {w}
        /\ First(members, i) \in SUBSET Range(members) /\ Range(members) \in SUBSET Works
        /\ Ready(q, F, w, kind, rows)
    <3> HIDE DEF G, a, s
    <3> QED
      BY BatchSeen
  <2>2. rows \in Nat /\ kind \in Kinds
    BY DEF Batch, Kinds
  <2>3. q \in Scheds /\ F \in Flights /\ q.rec \in [Works -> Record]
    BY DEF Whole, Scheds
  <2> HIDE DEF w, W, G, a, s
  <2> QED
    BY <2>1, <2>2, <2>3
<1>1. PICK k \in 0 .. i - 1 :
        /\ turn.ok => k = i - 1
        /\ Off(q, F, turn.q, First(members, k), kind, rows)
        /\ turn.opened = {q.rec[v].slot : v \in First(members, k)}
  BY DEF Opened
<1>2. k \in 0 .. i /\ i \in 0 .. i
  BY <1>0, <1>1
<1> HIDE DEF w, W
<1>3. CASE ~turn.ok
  <2>1. a = turn
    BY <1>3 DEF OpenFor
  <2> HIDE DEF a
  <2> QED
    BY <1>1, <1>2, <1>3, <2>1 DEF Opened, w, a
<1>4. CASE turn.ok
  <2>1. /\ k = i - 1 /\ Off(q, F, turn.q, W, kind, rows)
        /\ turn.opened = {q.rec[v].slot : v \in W}
    BY <1>1, <1>4 DEF W
  <2>2. /\ Whole(turn.q, G) /\ G[w] = Rest /\ turn.q.rec[w] = q.rec[w] /\ s = q.rec[w].slot
        /\ turn.q \in Scheds /\ Good(turn.q, w, Rest) /\ turn.q.rec[w] \in Record
        /\ G \in Flights /\ turn.q.rec \in [Works -> Record]
    BY <1>0, <2>1 DEF Off, Aloft, Ready, Elsewhere, Whole, Scheds
  <2>3. s # NoSlot /\ s \in Slots /\ turn.q.rec[w].state \in Admitted
    BY <1>0, <2>2 DEF Ready, Good, Listed, Admitted, Record
  <2>4. Ready(turn.q, G, w, kind, rows)
    BY <1>0, <2>2 DEF Ready
  <2>5. FlightIn(turn.q, w, kind, rows) = FlightIn(q, w, kind, rows)
    BY <2>2 DEF FlightIn
  <2>6. [G EXCEPT ![w] = FlightIn(q, w, kind, rows)] = Aloft(q, F, W \cup {w}, kind, rows)
    BY <1>0 DEF Aloft
  <2> HIDE DEF G
  <2>7. {q.rec[v].slot : v \in W \cup {w}} = turn.opened \cup {s}
    BY <2>1, <2>2
  <2>8. turn.opened \cup {s} \in SUBSET Slots /\ turn.ok \in BOOLEAN
    BY <2>3 DEF Openings
  <2>9. ASSUME NEW c, Sound(c),
               \A t \in Slots : t # s => Untouched(turn.q.cache, c, t),
               /\ c.kv_length[s] = turn.q.cache.kv_length[s]
               /\ c.slot_generation[s] = turn.q.cache.slot_generation[s]
               /\ Open(c, s) /\ c.reservation[s].tokens = rows,
               NEW r, r = [turn.q EXCEPT !.cache = c, !.rec[w].pending = FALSE],
               a = [turn EXCEPT !.q = r, !.opened = @ \cup {s}]
        PROVE  a \in Openings /\ Opened(q, F, members, kind, rows, i, a)
    <3> DEFINE b == [turn.q EXCEPT !.cache = c, !.rec[w].pending = FALSE]
    <3>1. /\ Whole(b, [G EXCEPT ![w] = FlightIn(turn.q, w, kind, rows)])
          /\ Elsewhere(turn.q, b, {w}) /\ Quietly(turn.q, b) /\ b.queue = turn.q.queue
          /\ b.rec = [turn.q.rec EXCEPT ![w] = [turn.q.rec[w] EXCEPT !.pending = FALSE]]
      <4>1. /\ Sound(c) /\ \A t \in Slots : t # turn.q.rec[w].slot => Untouched(turn.q.cache, c, t)
        BY <2>9
      <4>2. \A t \in Slots : t = turn.q.rec[w].slot =>
               /\ c.kv_length[t] = turn.q.cache.kv_length[t]
               /\ c.slot_generation[t] = turn.q.cache.slot_generation[t]
               /\ Open(c, t) /\ c.reservation[t].tokens = rows
        BY <2>9
      <4> HIDE DEF a, b, s
      <4> QED
        <5>1. Whole(turn.q, G) /\ w \in Works /\ rows \in Nat
          BY <1>0, <2>2
        <5> QED
          <6>1. /\ b \in Scheds /\ b.cache = c /\ b.occupants = turn.q.occupants
                /\ b.queue = turn.q.queue /\ b.results = turn.q.results /\ Quietly(turn.q, b)
                /\ b.rec = [turn.q.rec EXCEPT ![w] = [turn.q.rec[w] EXCEPT !.pending = FALSE]]
            BY <2>2, <4>1 DEF b, Scheds, Sound, Quietly, Record
          <6>2. Whole(b, [G EXCEPT ![w] = FlightIn(turn.q, w, kind, rows)])
            <7>1. Unpended(turn.q, w, b)
              BY <6>1 DEF Unpended
            <7>2. OpenedFor(turn.q, w, rows, b.cache)
              BY <4>1, <4>2, <6>1 DEF OpenedFor
            <7> QED
              BY <2>4, <5>1, <7>1, <7>2, TakeOff
          <6>3. Elsewhere(turn.q, b, {w})
            <7>1. /\ \A v \in Works : v # w => b.rec[v] = turn.q.rec[v]
                  /\ b.requests = turn.q.requests
                  /\ \A t \in Slots : t # turn.q.rec[w].slot => Untouched(turn.q.cache, b.cache, t)
              BY <2>2, <4>1, <6>1 DEF Quietly
            <7> QED
              BY <5>1, <6>1, <7>1, OneApart
          <6> QED
            BY <6>1, <6>2, <6>3
    <3>2. b = r
      BY <2>9
    <3> HIDE DEF a, b
    <3>3. Off(q, F, r, W \cup {w}, kind, rows)
      <4>0. /\ Elsewhere(q, turn.q, W) /\ Quietly(q, turn.q) /\ turn.q.queue = q.queue
            /\ Elsewhere(turn.q, b, {w}) /\ Quietly(turn.q, b) /\ b.queue = turn.q.queue
            /\ b = r
        BY <2>1, <3>1, <3>2 DEF Off
      <4>1. Elsewhere(q, r, W \cup {w}) /\ Quietly(q, r) /\ r.queue = q.queue
        <5>1. Quietly(q, r) /\ r.queue = q.queue
          BY <4>0 DEF Quietly
        <5>2. Elsewhere(q, b, W \cup {w})
          BY <4>0, ElsewhereOn
        <5> QED
          BY <4>0, <5>1, <5>2
      <4>2. \A v \in W \cup {w} : r.rec[v] = [q.rec[v] EXCEPT !.pending = FALSE]
        <5> SUFFICES ASSUME NEW v \in W \cup {w}
                     PROVE  b.rec[v] = [q.rec[v] EXCEPT !.pending = FALSE]
          BY <3>2
        <5>1. CASE v = w
          BY <1>0, <2>2, <3>1, <5>1
        <5>2. CASE v # w
          <6>1. v \in W /\ v \in Works
            BY <1>0, <5>2
          <6>2. turn.q.rec[v] = [q.rec[v] EXCEPT !.pending = FALSE]
            BY <2>1, <6>1 DEF Off
          <6>3. b.rec[v] = turn.q.rec[v]
            BY <2>2, <3>1, <5>2, <6>1
          <6> QED
            BY <6>2, <6>3
        <5> QED
          BY <5>1, <5>2
      <4> QED
        BY <2>5, <2>6, <3>1, <3>2, <4>1, <4>2 DEF Off
    <3>4. a \in Openings /\ a.q = r /\ a.opened = turn.opened \cup {s} /\ a.ok = turn.ok
      BY <2>8, <2>9, <3>1, <3>2 DEF Openings, Whole
    <3> QED
      BY <1>0, <1>2, <2>7, <3>3, <3>4 DEF Opened
  <2>10. CASE turn.q.rec[w].pending
    <3> DEFINE c == turn.q.cache
    <3>1. a = [turn EXCEPT !.q.rec[w].pending = FALSE, !.opened = @ \cup {s}]
      BY <1>4, <2>10 DEF OpenFor
    <3>2. PICK r : r = [turn.q EXCEPT !.cache = c, !.rec[w].pending = FALSE]
      OBVIOUS
    <3> HIDE DEF a
    <3>3. a = [turn EXCEPT !.q = r, !.opened = @ \cup {s}]
      <4>1. turn.q = [turn.q EXCEPT !.cache = c]
        BY <2>2 DEF Scheds
      <4>2. r = [turn.q EXCEPT !.rec[w].pending = FALSE]
        BY <3>2, <4>1
      <4> HIDE DEF s
      <4> QED
        BY <3>1, <4>2 DEF Openings
    <3>4. turn.q.rec[w].state = "prefill" /\ kind = "prefill"
      BY <1>0, <2>2, <2>10 DEF Good, Listed, Ready
    <3>5. Open(c, s) /\ c.reservation[s].tokens = rows
      BY <1>0, <2>2, <2>3, <2>10, <3>4 DEF Good, Owning, Ready
    <3>6. Sound(c)
      BY <2>2 DEF Whole
    <3> HIDE DEF c
    <3>7. \A t \in Slots : t # s => Untouched(turn.q.cache, c, t)
      BY DEF c, Untouched
    <3>8. c.kv_length[s] = turn.q.cache.kv_length[s]
           /\ c.slot_generation[s] = turn.q.cache.slot_generation[s]
      BY DEF c
    <3> QED
      BY <2>9, <3>2, <3>3, <3>5, <3>6, <3>7, <3>8 DEF a, w
  <2>11. CASE ~turn.q.rec[w].pending /\ ReserveOK(turn.q.cache, s, rows)
    <3> DEFINE c == Reserve(turn.q.cache, s, rows)
    <3>1. a = [turn EXCEPT !.q.cache = c, !.opened = @ \cup {s}]
      BY <1>4, <2>11 DEF OpenFor
    <3>2. /\ Sound(c) /\ \A t \in Slots : t # s => Untouched(turn.q.cache, c, t)
          /\ c.kv_length[s] = turn.q.cache.kv_length[s]
          /\ c.slot_generation[s] = turn.q.cache.slot_generation[s]
          /\ Open(c, s) /\ c.reservation[s].tokens = rows
      <4>1. Sound(turn.q.cache)
        BY <2>2 DEF Whole
      <4> HIDE DEF s, a
      <4> QED
        BY <1>0, <2>3, <2>11, <4>1, ReserveSeen
    <3> HIDE DEF c
    <3>3. PICK r : r = [turn.q EXCEPT !.cache = c, !.rec[w].pending = FALSE]
      OBVIOUS
    <3> HIDE DEF a
    <3>4. a = [turn EXCEPT !.q = r, !.opened = @ \cup {s}]
      <4>1. turn.q.rec[w] = [turn.q.rec[w] EXCEPT !.pending = FALSE]
        BY <2>2, <2>11 DEF Record
      <4>2. turn.q.rec = [turn.q.rec EXCEPT ![w] = [@ EXCEPT !.pending = FALSE]]
        BY <2>2, <4>1
      <4>3. r = [turn.q EXCEPT !.cache = c]
        BY <2>2, <3>3, <4>2 DEF Scheds
      <4> HIDE DEF s
      <4> QED
        BY <3>1, <4>3 DEF Openings
    <3> QED
      BY <2>9, <3>2, <3>3, <3>4 DEF a, w
  <2>12. CASE ~turn.q.rec[w].pending /\ ~ReserveOK(turn.q.cache, s, rows)
    <3>1. a = [turn EXCEPT !.ok = FALSE]
      BY <1>4, <2>12 DEF OpenFor
    <3> HIDE DEF a
    <3>2. a \in Openings /\ a.ok = FALSE /\ a.q = turn.q /\ a.opened = turn.opened
      BY <3>1 DEF Openings
    <3> QED
      BY <1>1, <1>2, <3>2 DEF Opened, a, w
  <2> QED
    BY <2>10, <2>11, <2>12 DEF w, a
<1> QED
  BY <1>3, <1>4

(* All have taken off, or the first of them. *)
LEMMA ReserveEachSeen ==
  ASSUME NEW q, NEW F, Whole(q, F), NEW members, NEW kind \in {"prefill", "decode"}, NEW rows,
         Batch(q, F, members, kind, rows)
  PROVE  LET turn == ReserveEach(q, members, rows)
         IN  turn \in Openings /\ Opened(q, F, members, kind, rows, Len(members), turn)
<1> DEFINE n == Len(members)  p == [members |-> members, rows |-> rows]
           base == [q |-> q, ok |-> TRUE, opened |-> {}]
           H == [i \in 0 .. n |-> {t \in Openings : Opened(q, F, members, kind, rows, i, t)}]
           end == OpenFold!Fold(p, base, 1 .. n)[1 .. n]
<1>1. n \in Nat /\ DOMAIN members = 1 .. n /\ First(members, 0) = {}
  BY BatchSeen
<1>2. ReserveEach(q, members, rows) = end
  <2> HIDE DEF n
  <2> QED
    BY <1>1 DEF ReserveEach, FoldLeft, MapThenFoldSet, OpenFold!Fold, OpenFold!Iteration, OpenOp
<1>3. base \in H[0]
  <2>1. base \in Openings /\ base.ok = TRUE /\ base.q = q /\ base.opened = {}
    BY DEF Openings, Whole
  <2>2. Aloft(q, F, {}, kind, rows) = F
    BY DEF Aloft, Whole, Flights
  <2> HIDE DEF base
  <2>3. Off(q, F, q, {}, kind, rows)
    BY <2>2 DEF Off, Elsewhere, Quietly, Untouched
  <2>4. Opened(q, F, members, kind, rows, 0, base)
    <3>1. {q.rec[w].slot : w \in First(members, 0)} = {} /\ 0 \in 0 .. 0
      BY <1>1
    <3> QED
      BY <1>1, <2>1, <2>3, <3>1 DEF Opened
  <2> QED
    BY <1>1, <2>1, <2>4
<1>4. ASSUME NEW i \in 1 .. n, NEW t \in H[i - 1]
      PROVE  OpenOp(p, i, t) \in H[i]
  <2>1. i - 1 \in 0 .. n /\ i \in 0 .. n
    BY <1>1
  <2>2. t \in Openings /\ Opened(q, F, members, kind, rows, i - 1, t)
    BY <2>1
  <2>3. LET a == OpenFor(t, members[i], rows)
        IN  a \in Openings /\ Opened(q, F, members, kind, rows, i, a)
    BY <2>2, OpenStep
  <2> QED
    BY <2>1, <2>3 DEF OpenOp
<1> HIDE DEF H, p, base
<1>5. end \in H[n]
  <2> HIDE DEF n
  <2> QED
    BY <1>1, <1>3, <1>4, Greatest, OpenFold!InOrder DEF Grounded, OpenFold!Grounded
<1> HIDE DEF end
<1>6. end \in Openings /\ Opened(q, F, members, kind, rows, n, end)
  BY <1>1, <1>5 DEF H
<1> QED
  BY <1>2, <1>6

-----------------------------------------------------------------------------
(* Width and budget.                                                       *)

(* Padding to a multiple adds what the length lacks, and rows that fit     *)
(* their share of the budget fit the budget.                               *)
LEMMA PaddedFits ==
  ASSUME NEW n \in Nat, n > 0, NEW kind, NEW rows \in Nat, rows > 0, Fits(n, kind, rows)
  PROVE  LET pad == IF kind = "stateless" THEN (- n) % MultipleOf ELSE 0
         IN  n + pad <= MaxSlots /\ (n + pad) * rows <= TokenBudget
<1> DEFINE pad == IF kind = "stateless" THEN (- n) % MultipleOf ELSE 0
<1>1. \A m, b \in Nat : b > 0 => ((m + b - 1) \div b) * b = m + ((- m) % b)
  <2>1. \A x, b \in Int : b > 0 => \E k, r \in Int : x = k * b + r /\ 0 <= r /\ r < b
                                      /\ x \div b = k /\ x % b = r
    BY Z3
  <2> TAKE m, b \in Nat
  <2> HAVE b > 0
  <2>3. PICK k, r \in Int : m + b - 1 = k * b + r /\ 0 <= r /\ r < b /\ (m + b - 1) \div b = k
    BY <2>1
  <2>4. PICK j, t \in Int : - m = j * b + t /\ 0 <= t /\ t < b /\ (- m) % b = t
    BY <2>1
  <2>5. \A x, y, z \in Int : (0 - x) * y = 0 - x * y
    BY Z3
  <2>6. (0 - k) * b = 0 - k * b /\ (0 - k) \in Int /\ k * b \in Int /\ j * b \in Int
    BY <2>5
  <2>7. (0 - k) * b + (b - 1 - r) = j * b + t
    BY <2>3, <2>4, <2>6
  <2>8. 0 <= b - 1 - r /\ b - 1 - r < b /\ b - 1 - r \in Int
    BY <2>3
  <2>9. PICK x \in Int : x = 0 - k
    BY <2>6
  <2>10. PICK y \in Int : y = b - 1 - r
    BY <2>8
  <2>11. x * b + y = j * b + t /\ 0 <= y /\ y < b
    BY <2>7, <2>8, <2>9, <2>10
  <2>12. y = t
    <3>1. \A e, f, g, h, i \in Int :
             e > 0 /\ 0 <= h /\ h < e /\ 0 <= i /\ i < e /\ f * e + h = g * e + i => h = i
      BY Z3
    <3>2. b \in Int /\ b > 0 /\ 0 <= t /\ t < b
      BY <2>4
    <3> QED
      BY <2>11, <3>1, <3>2, SMTT(60)
  <2>13. PICK z \in Int : z = k * b
    BY <2>6
  <2>14. z = m + t
    BY <2>3, <2>10, <2>12, <2>13
  <2>15. ((m + b - 1) \div b) * b = z /\ (- m) % b = t
    BY <2>3, <2>4, <2>13
  <2> QED
    BY <2>14, <2>15
<1>2. \A x, b, r \in Nat : r > 0 /\ x <= b \div r => x * r <= b
  BY Z3
<1>3. n + pad = Padded(n, kind) /\ n + pad \in Nat
  <2>1. CASE kind = "stateless"
    <3>1. (- n) % MultipleOf \in Nat
      BY Numbers
    <3>2. n + pad = Padded(n, kind)
      <4>1. ((n + MultipleOf - 1) \div MultipleOf) * MultipleOf = n + ((- n) % MultipleOf)
        BY <1>1, Numbers
      <4>2. Padded(n, kind) = ((n + MultipleOf - 1) \div MultipleOf) * MultipleOf
        BY <2>1 DEF Padded
      <4>3. pad = (- n) % MultipleOf
        BY <2>1
      <4> QED
        BY <4>1, <4>2, <4>3
    <3> QED
      BY <2>1, <3>1, <3>2
  <2>2. CASE kind # "stateless"
    BY <2>2 DEF Padded
  <2> QED
    BY <2>1, <2>2
<1>4. n + pad <= MaxSlots /\ n + pad <= TokenBudget \div rows
  BY <1>3 DEF Fits
<1> HIDE DEF pad
<1>5. (n + pad) * rows <= TokenBudget
  BY <1>2, <1>3, <1>4, Numbers
<1> QED
  BY <1>4, <1>5 DEF pad

(* The dispatch of a batch, as it is made. *)
LEMMA NewDispatchSeen ==
  ASSUME NEW q, NEW F, Whole(q, F), NEW members, NEW kind, NEW rows,
         Batch(q, F, members, kind, rows), Fits(Len(members), kind, rows)
  PROVE  LET d == NewDispatch(q, members, kind, rows)
         IN  /\ d \in Dispatches /\ Made(d) /\ d.members = members
             /\ \A m \in DOMAIN members : FlightOf(d, m) = FlightIn(q, members[m], kind, rows)
<1> DEFINE d == NewDispatch(q, members, kind, rows)  n == Len(members)
           slot == [i \in DOMAIN members |-> q.rec[members[i]].slot]
           generation == [i \in DOMAIN members |-> q.rec[members[i]].slot_generation]
<1>1. /\ n \in Nat /\ n > 0 /\ DOMAIN members = 1 .. n /\ members \in Seq(Works)
      /\ \A i \in 1 .. n : members[i] \in Works /\ members[i] \in Range(members)
      /\ kind \in Kinds /\ rows \in Nat /\ rows > 0
      /\ \A v, w \in Range(members) : KeyOf(v) = KeyOf(w)
      /\ \A i \in 1 .. n : Ready(q, F, members[i], kind, rows)
  BY BatchSeen DEF Batch
<1>2. q.rec \in [Works -> Record]
  BY DEF Whole, Scheds
<1> HIDE DEF n
<1>3. slot \in [1 .. n -> Slots \cup {NoSlot}] /\ generation \in [1 .. n -> 0 .. MaxGeneration]
  BY <1>1, <1>2 DEF Record
<1>6. \A i \in DOMAIN members : /\ slot[i] = q.rec[members[i]].slot
                                /\ generation[i] = q.rec[members[i]].slot_generation
  OBVIOUS
<1>7. d = [kind |-> kind, members |-> members, rows |-> rows, started |-> FALSE,
           slot |-> slot, generation |-> generation]
  BY DEF NewDispatch
<1> HIDE DEF d, slot, generation
<1>4. slot \in Seq(Slots \cup {NoSlot}) /\ generation \in Seq(0 .. MaxGeneration)
  <2>1. \A X, f : f \in [1 .. n -> X] => f \in Seq(X)
    BY <1>1, SeqDef
  <2> QED
    BY <1>3, <2>1
<1>5. Len(slot) = n /\ Len(generation) = n
  BY <1>1, <1>3, <1>4
<1>8. d \in Dispatches
  BY <1>1, <1>4, <1>7 DEF Dispatches, Kinds
<1>9. \A m \in DOMAIN members : FlightOf(d, m) = FlightIn(q, members[m], kind, rows)
  BY <1>6, <1>7 DEF FlightOf, FlightIn
<1>10. kind = "stateless" => \A m \in DOMAIN members : slot[m] = NoSlot
  <2> SUFFICES ASSUME kind = "stateless", NEW m \in 1 .. n PROVE q.rec[members[m]].slot = NoSlot
    BY <1>1, <1>6
  <2>1. members[m] \in Range(q.queue) /\ Good(q, members[m], F[members[m]])
    BY <1>1 DEF Ready, Whole
  <2> QED
    BY <2>1 DEF Good, Listed, Admitted
<1>11. /\ n + Padding(d) <= MaxSlots /\ (n + Padding(d)) * rows <= TokenBudget
  <2> DEFINE pad == IF kind = "stateless" THEN (- n) % MultipleOf ELSE 0
  <2>1. n + pad <= MaxSlots /\ (n + pad) * rows <= TokenBudget
    BY <1>1, PaddedFits DEF n
  <2>2. Padding(d) = pad
    BY <1>7 DEF Padding, n
  <2> HIDE DEF pad
  <2> QED
    BY <2>1, <2>2
<1>12. Made(d)
  BY <1>1, <1>5, <1>7, <1>10, <1>11 DEF Made, n
<1>13. d.members = members
  BY <1>7
<1> QED
  BY <1>8, <1>9, <1>12, <1>13 DEF d

(* One more dispatch carries its members. *)
LEMMA CarriedMore ==
  ASSUME NEW P \in Seq(Dispatches), NEW F, Carried(P, F), NEW d \in Dispatches, Made(d),
         IsInjective(d.members), \A w \in Range(d.members) : F[w] = Rest,
         NEW G, \A m \in DOMAIN d.members : G[d.members[m]] = FlightOf(d, m),
         \A v \in Works \ Range(d.members) : G[v] = F[v]
  PROVE  Carried(Append(P, d), G)
<1> DEFINE n == Len(P)  R == Append(P, d)
<1>1. /\ n \in Nat /\ DOMAIN P = 1 .. n /\ DOMAIN R = 1 .. n + 1 /\ R[n + 1] = d
      /\ \A i \in 1 .. n : R[i] = P[i] /\ P[i] \in Dispatches
  BY AppendSeen
<1>2. \A i \in DOMAIN R : (i \in 1 .. n /\ R[i] = P[i]) \/ (i = n + 1 /\ R[i] = d)
  BY <1>1
<1> HIDE DEF n, R
<1>3. \A i \in DOMAIN R : Made(R[i])
  BY <1>1, <1>2 DEF Carried
<1>4. ASSUME NEW i \in 1 .. n, NEW m \in DOMAIN P[i].members
      PROVE  /\ P[i].members[m] \in Works \ Range(d.members)
             /\ G[P[i].members[m]] = FlightOf(P[i], m)
  <2>1. F[P[i].members[m]] = FlightOf(P[i], m)
    BY <1>1 DEF Carried
  <2>2. FlightOf(P[i], m) # Rest
    BY DEF FlightOf, Rest
  <2>3. P[i].members[m] \in Works
    BY <1>1 DEF Dispatches
  <2> QED
    BY <2>1, <2>2, <2>3
<1>5. \A m \in DOMAIN d.members : d.members[m] \in Range(d.members)
  BY DEF Range
<1>6. \A i \in DOMAIN R : \A m \in DOMAIN R[i].members : G[R[i].members[m]] = FlightOf(R[i], m)
  BY <1>2, <1>4
<1>7. ASSUME NEW i \in DOMAIN R, NEW j \in DOMAIN R, NEW m \in DOMAIN R[i].members,
             NEW k \in DOMAIN R[j].members, R[i].members[m] = R[j].members[k]
      PROVE  i = j /\ m = k
  <2>1. CASE i \in 1 .. n /\ j \in 1 .. n
    BY <1>1, <1>7, <2>1 DEF Carried
  <2>2. CASE i = n + 1 /\ j = n + 1
    BY <1>1, <1>7, <2>2 DEF IsInjective
  <2>3. CASE i \in 1 .. n /\ j = n + 1
    BY <1>1, <1>4, <1>5, <1>7, <2>3
  <2>4. CASE i = n + 1 /\ j \in 1 .. n
    BY <1>1, <1>4, <1>5, <1>7, <2>4
  <2> QED
    BY <1>2, <2>1, <2>2, <2>3, <2>4
<1>8. ASSUME NEW w \in Works, G[w] # Rest
      PROVE  \E i \in DOMAIN R : \E m \in DOMAIN R[i].members : R[i].members[m] = w
  <2>1. CASE w \in Range(d.members)
    <3>1. PICK m \in DOMAIN d.members : d.members[m] = w
      BY <2>1 DEF Range
    <3>2. n + 1 \in DOMAIN R
      BY <1>1
    <3> QED
      BY <1>1, <3>1, <3>2
  <2>2. CASE w \notin Range(d.members)
    <3>1. PICK i \in 1 .. n : \E m \in DOMAIN P[i].members : P[i].members[m] = w
      BY <1>1, <1>8, <2>2 DEF Carried
    <3>2. i \in DOMAIN R /\ R[i] = P[i]
      BY <1>1
    <3> QED
      BY <3>1, <3>2
  <2> QED
    BY <2>1, <2>2
<1> QED
  BY <1>3, <1>6, <1>7, <1>8 DEF Carried, R

(* What a dispatch leaves: its members have taken off or failed. *)
Sent(q, F, r, G, members) ==
  /\ Whole(r, G) /\ Carried(r.pending, G)
  /\ Elsewhere(q, r, Range(members))
  /\ r.requests = q.requests /\ r.aged = q.aged /\ r.closed = q.closed
  /\ r.draining = q.draining /\ r.in_round = q.in_round
  /\ \A v \in Works \ Range(members) : G[v] = F[v]
  /\ \A w \in Range(members) :
       /\ ~r.rec[w].pending
       /\ \/ r.rec[w].state \in Terminal
          \/ r.rec[w].state = q.rec[w].state /\ r.rec[w].slot = q.rec[w].slot /\ G[w] # Rest

(* A batch that failed before any of it took off. *)
LEMMA FailedSent ==
  ASSUME NEW q, NEW F, Whole(q, F), Carried(q.pending, F),
         NEW members, Range(members) \in SUBSET Works, NEW b, NEW V, NEW r,
         V \subseteq Range(members), Elsewhere(q, b, V), Quietly(q, b),
         Failed(b, F, r, Range(members))
  PROVE  Sent(q, F, r, F, members)
<1>1. V \cup Range(members) = Range(members)
  OBVIOUS
<1>2. Elsewhere(b, r, Range(members)) /\ Quietly(b, r) /\ Whole(r, F)
  BY DEF Failed
<1>3. Elsewhere(q, r, V \cup Range(members))
  BY <1>2, ElsewhereOn
<1>4. Elsewhere(q, r, Range(members))
  BY <1>1, <1>3, Zenon
<1>5. Quietly(q, r)
  BY <1>2 DEF Quietly
<1>6. \A w \in Range(members) : ~r.rec[w].pending /\ r.rec[w].state \in Terminal
  BY DEF Failed
<1> QED
  BY <1>2, <1>4, <1>5, <1>6 DEF Sent, Quietly

(* A batch that took off. *)
LEMMA AloftSent ==
  ASSUME NEW q, NEW F, Whole(q, F), Carried(q.pending, F), NEW members, NEW kind, NEW rows,
         Batch(q, F, members, kind, rows), Fits(Len(members), kind, rows),
         NEW ready, NEW G, G = Aloft(q, F, Range(members), kind, rows),
         Whole(ready, G), Elsewhere(q, ready, Range(members)), Quietly(q, ready),
         \A w \in Range(members) : /\ ~ready.rec[w].pending
                                   /\ ready.rec[w].state = q.rec[w].state
                                   /\ ready.rec[w].slot = q.rec[w].slot
  PROVE  LET r == [ready EXCEPT !.pending = Append(@, NewDispatch(q, members, kind, rows))]
         IN  Sent(q, F, r, G, members)
<1> DEFINE d == NewDispatch(q, members, kind, rows)
           r == [ready EXCEPT !.pending = Append(@, d)]
<1>0. /\ q \in Scheds /\ F \in Flights /\ ready \in Scheds /\ q.pending \in Seq(Dispatches)
      /\ IsInjective(members) /\ kind \in Kinds /\ rows \in Nat
      /\ ready.pending = q.pending /\ Range(members) \in SUBSET Works
      /\ DOMAIN members = 1 .. Len(members)
      /\ \A i \in 1 .. Len(members) : members[i] \in Range(members)
      /\ \A w \in Range(members) : Ready(q, F, w, kind, rows)
  <2>1. /\ Range(members) \in SUBSET Works /\ DOMAIN members = 1 .. Len(members)
        /\ \A i \in 1 .. Len(members) : members[i] \in Range(members)
    BY BatchSeen
  <2>2. /\ IsInjective(members) /\ kind \in Kinds /\ rows \in Nat
        /\ \A w \in Range(members) : Ready(q, F, w, kind, rows)
    BY DEF Batch
  <2>3. q \in Scheds /\ F \in Flights /\ ready \in Scheds /\ ready.pending = q.pending
    BY DEF Whole, Quietly
  <2>4. q.pending \in Seq(Dispatches)
    BY <2>3 DEF Scheds
  <2> QED
    BY <2>1, <2>2, <2>3, <2>4
<1>1. /\ d \in Dispatches /\ Made(d) /\ d.members = members
      /\ \A m \in DOMAIN members : FlightOf(d, m) = FlightIn(q, members[m], kind, rows)
  BY NewDispatchSeen
<1> HIDE DEF d
<1>2. Append(q.pending, d) \in Seq(Dispatches)
  BY <1>0, <1>1
<1>3. /\ r \in Scheds /\ r.cache = ready.cache /\ r.rec = ready.rec
      /\ r.requests = ready.requests /\ r.queue = ready.queue /\ r.results = ready.results
      /\ r.occupants = ready.occupants /\ r.pending = Append(q.pending, d)
      /\ r.aged = ready.aged /\ r.closed = ready.closed /\ r.draining = ready.draining
      /\ r.in_round = ready.in_round
  BY <1>0, <1>2 DEF Scheds
<1> HIDE DEF r
<1>4. Whole(r, G)
  BY <1>3, WholeBesides
<1>5. \A w \in Range(members) : G[w] = FlightIn(q, w, kind, rows) /\ G[w] # Rest
  <2> TAKE w \in Range(members)
  <2>1. w \in Works
    BY <1>0
  <2>2. FlightIn(q, w, kind, rows) # Rest
    BY <1>0, <2>1, FlightTyped
  <2> QED
    BY <2>1, <2>2 DEF Aloft
<1>6. \A v \in Works \ Range(members) : G[v] = F[v]
  BY DEF Aloft
<1>7. Carried(r.pending, G)
  <2>1. \A w \in Range(members) : F[w] = Rest
    BY <1>0 DEF Ready
  <2>2. \A m \in DOMAIN d.members : G[d.members[m]] = FlightOf(d, m)
    BY <1>0, <1>1, <1>5
  <2>3. Carried(Append(q.pending, d), G)
    BY <1>0, <1>1, <1>6, <2>1, <2>2, CarriedMore
  <2> QED
    BY <1>3, <2>3
<1>8. Elsewhere(q, r, Range(members))
  BY <1>3 DEF Elsewhere, HasResult, Untouched
<1> QED
  BY <1>3, <1>4, <1>5, <1>6, <1>7, <1>8 DEF Sent, Quietly, r, d

(* dispatch_batch *)
LEMMA DispatchKeeps ==
  ASSUME NEW q, NEW F, Whole(q, F), Carried(q.pending, F), NEW members, NEW kind, NEW rows,
         Batch(q, F, members, kind, rows)
  PROVE  \E G : Sent(q, F, Dispatch(q, members, kind, rows), G, members)
<1> DEFINE turn == ReserveEach(q, members, rows)  n == Len(members)  W == Range(members)
           r == Dispatch(q, members, kind, rows)
           opened == IF kind = "stateless" THEN [q |-> q, ok |-> TRUE, opened |-> {}] ELSE turn
           ready == Dequeue(opened.q, members, kind)
           d == NewDispatch(q, members, kind, rows)
<1>0. /\ n \in Nat /\ DOMAIN members = 1 .. n /\ W \in SUBSET Works /\ members \in Seq(Works)
      /\ IsInjective(members) /\ kind \in Kinds /\ rows \in Nat /\ W = First(members, n)
      /\ \A w \in W : Ready(q, F, w, kind, rows)
      /\ q \in Scheds /\ F \in Flights
      /\ \A i \in 1 .. n : First(members, i) \in SUBSET W
      /\ First(members, 0) = {}
  BY BatchSeen DEF Batch, Whole
<1>1. r = IF ~Fits(n, kind, rows) THEN FailSelected(q, members, kind)
          ELSE IF ~opened.ok
          THEN FailSelected([opened.q EXCEPT !.cache = Rollback(@, opened.opened)], members, kind)
          ELSE [ready EXCEPT !.pending = Append(@, d)]
  BY DEF Dispatch
<1> HIDE DEF r, n, d
<1>2. ASSUME NEW w \in W
      PROVE  /\ MayFail(q, F, w, kind) /\ w \in Works /\ q.rec[w] \in Record
             /\ Good(q, w, F[w]) /\ Ready(q, F, w, kind, rows)
  BY <1>0 DEF MayFail, Ready, Admitted, Whole, Scheds
<1>3. CASE ~Fits(n, kind, rows)
  <2>1. Failed(q, F, r, W)
    BY <1>0, <1>1, <1>2, <1>3, FailKeeps
  <2>2. Elsewhere(q, q, {}) /\ Quietly(q, q)
    BY DEF Elsewhere, Quietly, Untouched
  <2>3. {} \subseteq W
    OBVIOUS
  <2>4. Sent(q, F, r, F, members)
    BY <1>0, <2>1, <2>2, <2>3, FailedSent
  <2> QED
    BY <2>4 DEF r
<1>4. CASE Fits(n, kind, rows) /\ kind = "stateless"
  <2> DEFINE b == [q EXCEPT !.queue = Keep(@, Works \ W)]  G == Aloft(q, F, W, kind, rows)
  <2>1. ready = b /\ opened.ok
    BY <1>4 DEF Dequeue
  <2>2. r = [b EXCEPT !.pending = Append(@, d)]
    BY <1>1, <1>4, <2>1
  <2>3. G = [w \in Works |-> IF w \in W THEN FlightIn(q, w, "stateless", rows) ELSE F[w]]
    BY <1>4 DEF Aloft
  <2>4. \A w \in W : Ready(q, F, w, "stateless", rows)
    BY <1>0, <1>4
  <2>5. Whole(b, G) /\ Elsewhere(q, b, W) /\ Quietly(q, b) /\ b.rec = q.rec
    <3>1. Keep(q.queue, Works \ W) \in Seq(Works)
      BY <1>0, KeepSeen DEF Scheds
    <3>2. /\ b \in Scheds /\ b.queue = Keep(q.queue, Works \ W) /\ b.cache = q.cache
          /\ b.rec = q.rec /\ b.occupants = q.occupants /\ b.results = q.results
          /\ b.requests = q.requests /\ Quietly(q, b)
      BY <1>0, <3>1 DEF Scheds, Quietly
    <3>3. \A w \in Works : FlightIn(q, w, "stateless", rows) \in Flight
      BY <1>0, FlightTyped DEF Kinds
    <3>4. /\ G \in Flights /\ \A w \in W : G[w] = FlightIn(q, w, "stateless", rows)
          /\ \A v \in Works \ W : G[v] = F[v]
      BY <1>0, <2>3, <3>3 DEF Flights
    <3>5. W \in SUBSET Works /\ rows \in Nat
      BY <1>0
    <3> HIDE DEF W, G, ready, opened, turn, b
    <3>6. Whole(b, G) /\ Elsewhere(q, b, W)
      BY <2>4, <3>2, <3>4, <3>5, StatelessOff
    <3> QED
      BY <3>2, <3>6
  <2> HIDE DEF b
  <2>6. \A w \in W : /\ ~b.rec[w].pending /\ b.rec[w].state = q.rec[w].state
                     /\ b.rec[w].slot = q.rec[w].slot
    <3> SUFFICES ASSUME NEW w \in W PROVE ~q.rec[w].pending
      BY <2>5
    <3> QED
      BY <1>2, <2>4 DEF Good, Listed, Ready
  <2>7. Sent(q, F, r, G, members)
    BY <1>4, <2>2, <2>5, <2>6, AloftSent DEF n, d
  <2> QED
    BY <2>7 DEF r
<1>5. CASE Fits(n, kind, rows) /\ kind # "stateless"
  <2>1. kind \in {"prefill", "decode"}
    BY <1>0, <1>5 DEF Kinds
  <2>2. turn \in Openings /\ Opened(q, F, members, kind, rows, n, turn)
    BY <2>1, ReserveEachSeen DEF n
  <2>3. opened = turn /\ ready = turn.q
    BY <1>5 DEF Dequeue
  <2> HIDE DEF opened, ready, turn
  <2>4. PICK k \in 0 .. n :
          /\ turn.ok => k = n
          /\ Off(q, F, turn.q, First(members, k), kind, rows)
          /\ turn.opened = {q.rec[w].slot : w \in First(members, k)}
    BY <2>2 DEF Opened
  <2> DEFINE V == First(members, k)  E == Aloft(q, F, V, kind, rows)
  <2>5. V \subseteq W /\ V \in SUBSET Works
    BY <1>0, <2>4
  <2>6. Whole(turn.q, E) /\ Elsewhere(q, turn.q, V) /\ Quietly(q, turn.q)
    BY <2>4 DEF Off
  <2>7. \A w \in V : turn.q.rec[w] = [q.rec[w] EXCEPT !.pending = FALSE]
    BY <2>4 DEF Off
  <2>8. \A w \in W : turn.q.rec[w].state = q.rec[w].state
    <3> TAKE w \in W
    <3>1. CASE w \in V
      BY <1>2, <2>7, <3>1 DEF Record
    <3>2. CASE w \notin V
      BY <1>0, <2>6, <3>2 DEF Elsewhere
    <3> QED
      BY <3>1, <3>2
  <2>9. CASE ~turn.ok
    <3> DEFINE S == {E[w].slot : w \in V}  b == [turn.q EXCEPT !.cache = Rollback(@, S)]
    <3>1. \A w \in V : E[w].at = "flying" /\ E[w].kind # "stateless" /\ E[w].slot = q.rec[w].slot
      BY <1>5, <2>5 DEF Aloft, FlightIn
    <3>2. turn.opened = S
      BY <2>4, <3>1
    <3>3. r = FailSelected(b, members, kind)
      BY <1>1, <1>5, <2>3, <2>9, <3>2
    <3>4. Landed(E, V) = F
      <4>1. \A w \in V : F[w] = Rest
        BY <1>0, <2>5 DEF Ready
      <4> HIDE DEF V
      <4> QED
        BY <1>0, <4>1 DEF Landed, Aloft, Flights
    <3>5. /\ Whole(b, Landed(E, V)) /\ Elsewhere(turn.q, b, V) /\ Quietly(turn.q, b)
          /\ b.rec = turn.q.rec
      <4>1. S \in SUBSET Slots
        <5> HIDE DEF V, E
        <5> QED
          BY <2>5, <2>6, <3>1, FlyingSlots
      <4>2. Sound(Rollback(turn.q.cache, S)) /\ turn.q \in Scheds
        <5>1. Sound(turn.q.cache) /\ turn.q \in Scheds
          BY <2>6 DEF Whole
        <5> HIDE DEF S
        <5> QED
          BY <4>1, <5>1, RollbackSeen
      <4> HIDE DEF S
      <4>3. /\ b \in Scheds /\ b.cache = Rollback(turn.q.cache, S) /\ b.rec = turn.q.rec
            /\ b.occupants = turn.q.occupants /\ b.queue = turn.q.queue
            /\ b.results = turn.q.results /\ b.requests = turn.q.requests /\ Quietly(turn.q, b)
        BY <4>2 DEF Sound, Scheds, Quietly
      <4> HIDE DEF V, E, b
      <4> QED
        BY <2>5, <2>6, <3>1, <4>3, TurnBack DEF S
    <3> HIDE DEF b, S
    <3>6. Whole(b, F) /\ Quietly(q, b)
      BY <2>6, <3>4, <3>5 DEF Quietly
    <3>7. Elsewhere(q, b, V)
      <4>1. V \cup V = V
        OBVIOUS
      <4>2. Elsewhere(q, b, V \cup V)
        BY <2>6, <3>5, ElsewhereOn
      <4> QED
        BY <4>1, <4>2, Zenon
    <3>8. \A w \in W : MayFail(b, F, w, kind)
      BY <1>2, <1>5, <2>8, <3>5 DEF MayFail
    <3>9. Failed(b, F, r, W)
      BY <1>0, <3>3, <3>6, <3>8, FailKeeps
    <3>10. Sent(q, F, r, F, members)
      BY <1>0, <2>5, <3>6, <3>7, <3>9, FailedSent
    <3> QED
      BY <3>10 DEF r
  <2>10. CASE turn.ok
    <3>1. V = W
      BY <1>0, <2>4, <2>10
    <3>2. r = [turn.q EXCEPT !.pending = Append(@, d)]
      BY <1>1, <1>5, <2>3, <2>10
    <3> DEFINE G == Aloft(q, F, W, kind, rows)
    <3>3. Whole(turn.q, G) /\ Elsewhere(q, turn.q, W)
      BY <2>6, <3>1
    <3>4. \A w \in W : /\ ~turn.q.rec[w].pending /\ turn.q.rec[w].state = q.rec[w].state
                       /\ turn.q.rec[w].slot = q.rec[w].slot
      BY <1>2, <2>7, <2>8, <3>1 DEF Record
    <3>5. PICK ready2 : ready2 = turn.q
      OBVIOUS
    <3>6. Sent(q, F, [ready2 EXCEPT !.pending = Append(@, d)], G, members)
      BY <1>5, <2>6, <3>3, <3>4, <3>5, AloftSent DEF n, d
    <3> QED
      BY <3>2, <3>5, <3>6 DEF r
  <2> QED
    BY <2>9, <2>10
<1> QED
  BY <1>3, <1>4, <1>5

-----------------------------------------------------------------------------
(* A round: prompt chunks.                                                 *)

(* A work is at rest or in a dispatch. *)
LEMMA RestOrFlying ==
  ASSUME NEW P, NEW F, Carried(P, F), NEW w \in Works
  PROVE  F[w] = Rest \/ F[w].at = "flying"
<1> SUFFICES ASSUME F[w] # Rest PROVE F[w].at = "flying"
  OBVIOUS
<1>1. PICK i \in DOMAIN P : \E m \in DOMAIN P[i].members : P[i].members[m] = w
  BY DEF Carried
<1>2. PICK m \in DOMAIN P[i].members : P[i].members[m] = w
  BY <1>1
<1>3. F[w] = FlightOf(P[i], m)
  BY <1>2 DEF Carried
<1> QED
  BY <1>3 DEF FlightOf

(* A list of one. *)
LEMMA OneSeen ==
  ASSUME NEW w \in Works
  PROVE  /\ <<w>> \in Seq(Works) /\ Len(<<w>>) = 1 /\ Range(<<w>>) = {w} /\ IsInjective(<<w>>)
<1>1. /\ <<w>> \in Seq(Works) /\ Len(<<w>>) = 1 /\ DOMAIN <<w>> = {1} /\ <<w>>[1] = w
  OBVIOUS
<1> QED
  BY <1>1 DEF Range, IsInjective

PrefillOp(p, i, r) == PrefillAt(r, SlotOrder[i])
PrefillFold == INSTANCE Folding WITH Op <- PrefillOp, Choose <- Max

(* The slots visited so far have no reservation of admission's left, and   *)
(* only their occupants have taken off, with a chunk of their prompt.      *)
Visited(i, s) == \E j \in 1 .. i : s = SlotOrder[j]
Chunking(i, r, G) ==
  /\ Whole(r, G) /\ Carried(r.pending, G) /\ r.in_round = TRUE
  /\ \A w \in Works : /\ r.rec[w].pending => ~Visited(i, r.rec[w].slot)
                      /\ G[w] # Rest => G[w].kind = "prefill" /\ Visited(i, r.rec[w].slot)
Chunked(i, r) == \E G : Chunking(i, r, G)

(* A prompt that was shared in full is done. *)
LEMMA SharedInFull ==
  ASSUME NEW q, NEW F, Whole(q, F), NEW w \in Works, F[w] = Rest,
         q.rec[w].state = "prefill", ~(Work[w].prompt_tokens - q.rec[w].prefilled > 0)
  PROVE  LET r == [q EXCEPT !.rec[w].state = "decoding"]
         IN  Whole(r, F) /\ Elsewhere(q, r, {w}) /\ ~r.rec[w].pending
<1> DEFINE r == [q EXCEPT !.rec[w].state = "decoding"]
           e == [q.rec[w] EXCEPT !.state = "decoding"]
<1>0. /\ q \in Scheds /\ NamedOnce(q) /\ Sound(q.cache) /\ F \in Flights
      /\ \A t \in Slots : SlotFine(q, t)
      /\ Good(q, w, Rest) /\ q.rec \in [Works -> Record] /\ q.rec[w] \in Record
      /\ Work[w].prompt_tokens \in Nat /\ q.rec[w].prefilled \in Nat
  BY Numbers DEF Whole, Scheds, Record
<1>1. /\ e \in Record /\ e.state = "decoding" /\ e.slot = q.rec[w].slot
      /\ e.slot_generation = q.rec[w].slot_generation /\ e.prefilled = q.rec[w].prefilled
      /\ e.generated = q.rec[w].generated /\ e.pending = q.rec[w].pending
      /\ e.cancel_requested = q.rec[w].cancel_requested
  BY <1>0 DEF Record, Live
<1>2. /\ r \in Scheds /\ r.rec = [q.rec EXCEPT ![w] = e] /\ r.cache = q.cache
      /\ r.occupants = q.occupants /\ r.queue = q.queue /\ r.results = q.results
      /\ r.requests = q.requests
  BY <1>0, <1>1 DEF Scheds
<1> HIDE DEF r, e
<1>3. r.rec[w] = e /\ \A v \in Works : v # w => r.rec[v] = q.rec[v]
  BY <1>0, <1>2
<1>4. NamedOnce(r) /\ \A v : HasResult(r, v) <=> HasResult(q, v)
  BY <1>0, <1>2 DEF NamedOnce, HasResult
<1>5. Elsewhere(q, r, {w})
  <2>1. \A t \in Slots : t # q.rec[w].slot => Untouched(q.cache, r.cache, t)
    BY <1>2 DEF Untouched
  <2> QED
    BY <1>2, <1>3, <2>1, OneApart
<1>6. q.rec[w].slot # NoSlot /\ q.rec[w].slot \in Slots
  BY <1>0 DEF Good, Listed, Admitted, Record
<1>7. ~q.rec[w].pending
  BY <1>0, <1>6 DEF Good, Owning
<1>8. Good(r, w, Rest)
  <2>1. Listed(r, w, Rest)
    BY <1>0, <1>1, <1>2, <1>3, <1>4, <1>6, <1>7, RecordTypes DEF Good, Listed, Admitted, Live
  <2>2. Owning(r, w, Rest)
    BY <1>0, <1>1, <1>2, <1>3, <1>6, <1>7, RecordTypes DEF Good, Owning
  <2> QED
    BY <2>1, <2>2, RecordTypes DEF Good, Travelling
<1>9. \A s \in Slots : SlotFine(r, s)
  <2> TAKE s \in Slots
  <2>1. SlotFine(q, s)
    BY <1>0
  <2>2. CASE q.occupants[s] = NoWork
    BY <1>2, <2>1, <2>2 DEF SlotFine
  <2>3. CASE q.occupants[s] # NoWork
    <3>1. q.occupants[s] \in Works
      BY <1>0, <2>3 DEF Scheds
    <3>2. r.rec[q.occupants[s]].slot = q.rec[q.occupants[s]].slot
      BY <1>1, <1>3, <3>1
    <3> QED
      BY <1>2, <2>1, <2>3, <3>2 DEF SlotFine
  <2> QED
    BY <2>2, <2>3
<1>10. Whole(r, F)
  BY <1>0, <1>2, <1>4, <1>5, <1>8, <1>9, WholeElsewhere
<1> QED
  BY <1>1, <1>3, <1>5, <1>7, <1>10 DEF r

(* An admitted work is in no stateless dispatch and no decode dispatch     *)
(* while it is in prefill.                                                 *)
LEMMA FlightOfPrefill ==
  ASSUME NEW q, NEW F, Whole(q, F), NEW P, Carried(P, F), NEW w \in Works, ~Stateless(w),
         q.rec[w].state = "prefill" \/ q.rec[w].state \in Terminal, F[w] # Rest
  PROVE  F[w].kind = "prefill" /\ q.rec[w].state = "prefill"
<1>1. F[w].at = "flying" /\ Good(q, w, F[w]) /\ F[w] \in Flight
  BY RestOrFlying DEF Whole, Flights
<1>2. F[w].kind # "stateless"
  BY <1>1 DEF Good, Travelling
<1>3. q.rec[w].state # "decoding"
  BY DEF Terminal
<1>4. F[w].kind # "prefill" => q.rec[w].state = "decoding"
  BY <1>1, <1>2 DEF Good, Travelling
<1>5. F[w].kind = "prefill" => q.rec[w].state = "prefill"
  BY <1>1 DEF Good, Travelling
<1> QED
  BY <1>3, <1>4, <1>5

(* One slot. *)
LEMMA PrefillStep ==
  ASSUME NEW i \in 1 .. NumSlots, NEW r \in Scheds, Chunked(i - 1, r)
  PROVE  LET a == PrefillAt(r, SlotOrder[i]) IN a \in Scheds /\ Chunked(i, a)
<1> DEFINE s == SlotOrder[i]  a == PrefillAt(r, s)  w == r.occupants[s]
           rest == Work[w].prompt_tokens - r.rec[w].prefilled
<1>1. PICK G : Chunking(i - 1, r, G)
  BY DEF Chunked
<1>2. /\ Whole(r, G) /\ Carried(r.pending, G) /\ r.in_round = TRUE
      /\ \A v \in Works : /\ r.rec[v].pending => ~Visited(i - 1, r.rec[v].slot)
                          /\ G[v] # Rest => G[v].kind = "prefill" /\ Visited(i - 1, r.rec[v].slot)
  BY <1>1 DEF Chunking
<1>3. /\ s \in Slots /\ s # NoSlot /\ NumSlots \in Nat
      /\ \A j \in 1 .. NumSlots : SlotOrder[j] = s => i = j
      /\ r.occupants \in [Slots -> Works \cup {NoWork}] /\ r.rec \in [Works -> Record]
      /\ \A t \in Slots : SlotFine(r, t)
      /\ \A v \in Works : Good(r, v, G[v])
      /\ G \in Flights
  BY <1>2, Visits, Numbers DEF Whole, Scheds
<1>4. ~Visited(i - 1, s)
  <2>1. \A j \in 1 .. i - 1 : j \in 1 .. NumSlots /\ j # i
    BY <1>3
  <2> QED
    BY <1>3, <2>1 DEF Visited
<1>5. \A t : Visited(i, t) <=> Visited(i - 1, t) \/ t = s
  <2>1. 1 .. i = (1 .. i - 1) \cup {i}
    BY <1>3
  <2> QED
    BY <2>1 DEF Visited
<1> HIDE DEF s, a, w
<1>6. \A v \in Works : r.rec[v].slot = s => v = w
  BY <1>3 DEF Good, Owning, w
<1>7. CASE ~IsOccupied(r, s) \/ r.rec[w].state # "prefill"
  <2>1. a = r
    BY <1>7 DEF PrefillAt, a, w
  <2>2. ASSUME NEW v \in Works, r.rec[v].pending PROVE r.rec[v].slot # s
    <3> SUFFICES ASSUME r.rec[v].slot = s PROVE FALSE
      OBVIOUS
    <3>1. v = w
      BY <1>6
    <3>2. r.rec[v].state = "prefill"
      BY <1>3, <2>2 DEF Good, Listed
    <3>3. w # NoWork
      BY <3>1, Numbers
    <3> QED
      BY <1>7, <3>1, <3>2, <3>3 DEF IsOccupied, w
  <2>3. Chunking(i, r, G)
    BY <1>2, <1>5, <2>2 DEF Chunking
  <2> QED
    BY <2>1, <2>3 DEF Chunked, a, s
<1>8. CASE IsOccupied(r, s) /\ r.rec[w].state = "prefill"
  <2>1. /\ w \in Works /\ r.rec[w].slot = s /\ Good(r, w, G[w]) /\ r.rec[w] \in Record
        /\ r.rec[w].prefilled \in Nat /\ Work[w].prompt_tokens \in Nat
    BY <1>3, <1>8, Numbers DEF IsOccupied, SlotFine, w, Record
  <2>2. G[w] = Rest /\ ~Stateless(w) /\ r.rec[w].prefilled <= Work[w].prompt_tokens
    BY <1>2, <1>3, <1>4, <2>1 DEF Good, Owning
  <2>3. ASSUME NEW v \in Works, v # w PROVE r.rec[v].slot # s
    BY <1>6, <2>3
  <2>4. rest \in Int
    BY <2>1
  <2>5. CASE rest <= 0
    <3> DEFINE b == [r EXCEPT !.rec[w].state = "decoding"]
    <3>1. a = b
      BY <1>8, <2>5 DEF PrefillAt, a, w
    <3>2. ~(rest > 0)
      BY <2>4, <2>5
    <3>3. Whole(b, G) /\ Elsewhere(r, b, {w}) /\ ~b.rec[w].pending
      BY <1>2, <1>8, <2>1, <2>2, <3>2, SharedInFull
    <3>4. b.pending = r.pending /\ b.in_round = TRUE /\ b \in Scheds
      <4>1. b \in Scheds
        BY <3>3 DEF Whole
      <4> QED
        BY <1>2, <4>1
    <3> HIDE DEF b
    <3>5. \A v \in Works : v # w => b.rec[v] = r.rec[v]
      BY <3>3 DEF Elsewhere
    <3>6. Chunking(i, b, G)
      BY <1>2, <1>5, <2>2, <2>3, <3>3, <3>4, <3>5 DEF Chunking
    <3> QED
      BY <3>1, <3>4, <3>6 DEF Chunked, a, s
  <2>6. CASE ~(rest <= 0)
    <3> DEFINE rows == Least(rest, TokenBudget)  b == Dispatch(r, <<w>>, "prefill", rows)
    <3>1. a = b
      BY <1>8, <2>6 DEF PrefillAt, a, w
    <3>2. /\ rows \in Nat /\ rows > 0 /\ r.rec[w].prefilled + rows <= Work[w].prompt_tokens
      BY <2>1, <2>4, <2>6, Numbers DEF Least
    <3>3. Batch(r, G, <<w>>, "prefill", rows)
      <4>1. Ready(r, G, w, "prefill", rows)
        BY <1>8, <2>2, <3>2 DEF Ready
      <4> HIDE DEF rows
      <4>2. <<w>> \in Seq(Works) /\ Len(<<w>>) = 1 /\ Range(<<w>>) = {w} /\ IsInjective(<<w>>)
        BY <2>1, OneSeen
      <4> QED
        BY <3>2, <4>1, <4>2 DEF Batch, Kinds
    <3> HIDE DEF rows, b
    <3>4. PICK E : Sent(r, G, b, E, <<w>>)
      BY <1>2, <3>3, DispatchKeeps DEF b
    <3>5. Range(<<w>>) = {w}
      BY <2>1, OneSeen
    <3>6. /\ Whole(b, E) /\ Carried(b.pending, E) /\ b.in_round = TRUE /\ b \in Scheds
          /\ \A v \in Works : v # w => E[v] = G[v]
          /\ ~b.rec[w].pending
          /\ \/ b.rec[w].state \in Terminal
             \/ b.rec[w].state = "prefill" /\ b.rec[w].slot = s /\ E[w] # Rest
      BY <1>2, <1>8, <2>1, <3>4, <3>5 DEF Sent, Whole
    <3>7. \A v \in Works : v # w => b.rec[v] = r.rec[v]
      BY <3>4, <3>5 DEF Sent, Elsewhere
    <3>8. E[w] # Rest => E[w].kind = "prefill" /\ b.rec[w].state = "prefill"
      BY <2>1, <2>2, <3>6, FlightOfPrefill
    <3>9. E[w] # Rest => b.rec[w].slot = s
      BY <3>6, <3>8 DEF Terminal
    <3>10. Chunking(i, b, E)
      BY <1>2, <1>5, <2>3, <3>6, <3>7, <3>8, <3>9 DEF Chunking
    <3> QED
      BY <3>1, <3>6, <3>10 DEF Chunked, a, s
  <2> QED
    BY <2>5, <2>6
<1> QED
  BY <1>7, <1>8

(* All slots. *)
LEMMA PrefillKeeps ==
  ASSUME NEW q \in Scheds, Chunked(0, q)
  PROVE  LET r == FoldLeft(PrefillAt, q, SlotOrder)
         IN  r \in Scheds /\ Chunked(NumSlots, r)
<1> DEFINE n == NumSlots
           H == [i \in 0 .. n |-> {r \in Scheds : Chunked(i, r)}]
           end == PrefillFold!Fold(<<>>, q, 1 .. n)[1 .. n]
<1>1. n \in Nat /\ DOMAIN SlotOrder = 1 .. n
  BY Visits
<1> HIDE DEF n
<1>2. FoldLeft(PrefillAt, q, SlotOrder) = end
  BY <1>1 DEF FoldLeft, MapThenFoldSet, PrefillFold!Fold, PrefillFold!Iteration, PrefillOp
<1>3. q \in H[0]
  BY <1>1
<1>4. ASSUME NEW i \in 1 .. n, NEW r \in H[i - 1]
      PROVE  PrefillOp(<<>>, i, r) \in H[i]
  <2>1. i - 1 \in 0 .. n /\ i \in 0 .. n
    BY <1>1
  <2>2. r \in Scheds /\ Chunked(i - 1, r)
    BY <2>1
  <2>3. LET a == PrefillAt(r, SlotOrder[i]) IN a \in Scheds /\ Chunked(i, a)
    BY <2>2, PrefillStep DEF n
  <2> QED
    BY <2>1, <2>3 DEF PrefillOp
<1> HIDE DEF H
<1>5. end \in H[n]
  BY <1>1, <1>3, <1>4, Greatest, PrefillFold!InOrder DEF Grounded, PrefillFold!Grounded
<1> HIDE DEF end
<1>6. end \in Scheds /\ Chunked(n, end)
  BY <1>1, <1>5 DEF H
<1> QED
  BY <1>2, <1>6 DEF n

-----------------------------------------------------------------------------
(* A round: ready groups.                                                  *)

(* Two lists one after the other. *)
LEMMA ConcatSeen ==
  ASSUME NEW T, NEW s \in Seq(T), NEW t \in Seq(T)
  PROVE  /\ s \o t \in Seq(T) /\ Range(s \o t) = Range(s) \cup Range(t)
         /\ IsInjective(s) /\ IsInjective(t) /\ Range(s) \cap Range(t) = {}
            => IsInjective(s \o t)
<1> DEFINE m == Len(s)  n == Len(t)  u == s \o t
<1>1. /\ m \in Nat /\ n \in Nat /\ DOMAIN s = 1 .. m /\ DOMAIN t = 1 .. n
      /\ u \in Seq(T) /\ Len(u) = m + n
      /\ \A i \in 1 .. m + n : u[i] = IF i <= m THEN s[i] ELSE t[i - m]
  BY ConcatProperties
<1>2. DOMAIN u = 1 .. m + n
  BY <1>1
<1> HIDE DEF m, n, u
<1>3. \A i \in DOMAIN u : \/ i \in 1 .. m /\ u[i] = s[i]
                          \/ i - m \in 1 .. n /\ u[i] = t[i - m] /\ i \notin 1 .. m
  BY <1>1, <1>2
<1>4. \A i \in 1 .. m : i \in DOMAIN u /\ u[i] = s[i]
  BY <1>1, <1>2
<1>5. \A i \in 1 .. n : m + i \in DOMAIN u /\ u[m + i] = t[i]
  BY <1>1, <1>2
<1>6. Range(u) = Range(s) \cup Range(t)
  <2>1. \A i \in DOMAIN u : u[i] \in Range(s) \cup Range(t)
    BY <1>1, <1>3 DEF Range
  <2>2. \A i \in DOMAIN s : s[i] \in Range(u)
    BY <1>1, <1>4 DEF Range
  <2>3. \A i \in DOMAIN t : t[i] \in Range(u)
    BY <1>1, <1>5 DEF Range
  <2> QED
    BY <2>1, <2>2, <2>3 DEF Range
<1>7. ASSUME IsInjective(s), IsInjective(t), Range(s) \cap Range(t) = {},
             NEW i \in DOMAIN u, NEW j \in DOMAIN u, u[i] = u[j]
      PROVE  i = j
  <2>1. \A k \in 1 .. m : s[k] \in Range(s)
    BY <1>1 DEF Range
  <2>2. \A k \in 1 .. n : t[k] \in Range(t)
    BY <1>1 DEF Range
  <2>3. CASE i \in 1 .. m /\ j \in 1 .. m
    BY <1>1, <1>3, <1>7, <2>3 DEF IsInjective
  <2>4. CASE i \notin 1 .. m /\ j \notin 1 .. m
    <3>1. i - m = j - m
      BY <1>1, <1>3, <1>7, <2>4 DEF IsInjective
    <3> QED
      BY <1>1, <1>2, <3>1
  <2>5. CASE i \in 1 .. m /\ j \notin 1 .. m
    BY <1>3, <1>7, <2>1, <2>2, <2>5
  <2>6. CASE i \notin 1 .. m /\ j \in 1 .. m
    BY <1>3, <1>7, <2>1, <2>2, <2>6
  <2> QED
    BY <2>3, <2>4, <2>5, <2>6
<1>8. IsInjective(s) /\ IsInjective(t) /\ Range(s) \cap Range(t) = {} => IsInjective(u)
  BY <1>7 DEF IsInjective
<1> QED
  BY <1>1, <1>6, <1>8 DEF u

(* The first of a list. *)
LEMMA FirstSeen ==
  ASSUME NEW T, NEW s \in Seq(T), NEW k \in 1 .. Len(s)
  PROVE  LET u == SubSeq(s, 1, k)
         IN  /\ u \in Seq(T) /\ Len(u) = k /\ Range(u) \subseteq Range(s)
             /\ IsInjective(s) => IsInjective(u)
<1> DEFINE u == SubSeq(s, 1, k)
<1>1. Len(s) \in Nat /\ DOMAIN s = 1 .. Len(s) /\ k \in Nat /\ 1 <= k
      /\ \A i \in 1 .. k : s[i] \in T /\ i \in DOMAIN s
  OBVIOUS
<1>2. u \in Seq(T) /\ Len(u) = k /\ \A i \in 1 .. k : u[i] = s[i]
  BY <1>1, SubSeqProperties
<1>3. DOMAIN u = 1 .. k
  BY <1>2
<1> HIDE DEF u
<1>4. Range(u) \subseteq Range(s)
  BY <1>1, <1>2, <1>3 DEF Range
<1>5. IsInjective(s) => IsInjective(u)
  BY <1>1, <1>2, <1>3 DEF IsInjective
<1> QED
  BY <1>2, <1>4, <1>5 DEF u

(* A work is where its position says. *)
LEMMA PositionSeen ==
  ASSUME NEW q \in Scheds, IsInjective(q.requests), NEW w \in Range(q.requests)
  PROVE  Position(q, w) \in DOMAIN q.requests /\ q.requests[Position(q, w)] = w
<1> DEFINE rs == q.requests  I == {i \in 1 .. Len(rs) : rs[i] = w}
<1>1. DOMAIN rs = 1 .. Len(rs)
  BY DEF Scheds
<1>2. PICK k \in 1 .. Len(rs) : rs[k] = w
  BY <1>1 DEF Range
<1>3. I = {k}
  BY <1>1, <1>2 DEF IsInjective
<1>4. Position(q, w) = IF I # {} THEN Min(I) ELSE 0
  BY DEF Position, SelectInSeq
<1> HIDE DEF I
<1>5. Min({k}) = k
  BY <1>2 DEF Min
<1>6. Position(q, w) = k
  BY <1>3, <1>4, <1>5
<1> QED
  BY <1>1, <1>2, <1>6

(* What the ready groups are. *)
GroupFine(q, F, group) ==
  /\ group.members \in Seq(Works) /\ Len(group.members) > 0 /\ IsInjective(group.members)
  /\ group.key.kind \in {"stateless", "decode"} /\ group.key.rows \in Nat /\ group.key.rows > 0
  /\ \A w \in Range(group.members) :
       KeyOf(w) = group.key /\ Ready(q, F, w, group.key.kind, group.key.rows)
GroupsFine(q, F, groups) ==
  /\ \A i \in DOMAIN groups : GroupFine(q, F, groups[i])
  /\ \A i, j \in DOMAIN groups :
       Range(groups[i].members) \cap Range(groups[j].members) # {} => i = j

(* The slots' occupants, each once. *)
LEMMA OccupantsSeen ==
  ASSUME NEW q, NEW F, Whole(q, F)
  PROVE  LET occ == [i \in DOMAIN SlotOrder |-> q.occupants[SlotOrder[i]]]
         IN  occ \in Seq(Works \cup {NoWork}) /\ Apart(occ, Works)
<1> DEFINE occ == [i \in DOMAIN SlotOrder |-> q.occupants[SlotOrder[i]]]  n == NumSlots
<1>1. /\ n \in Nat /\ DOMAIN SlotOrder = 1 .. n
      /\ \A i \in 1 .. n : SlotOrder[i] = i - 1 /\ SlotOrder[i] \in Slots
      /\ q.occupants \in [Slots -> Works \cup {NoWork}]
      /\ \A t \in Slots : SlotFine(q, t)
  BY Visits DEF Whole, Scheds
<1> HIDE DEF n
<1>2. /\ occ \in [1 .. n -> Works \cup {NoWork}] /\ DOMAIN occ = 1 .. n
      /\ \A i \in 1 .. n : occ[i] = q.occupants[SlotOrder[i]]
  BY <1>1
<1> HIDE DEF occ
<1>3. occ \in Seq(Works \cup {NoWork})
  <2>1. \A X, f : f \in [1 .. n -> X] => f \in Seq(X)
    BY <1>1, SeqDef
  <2> QED
    BY <1>2, <2>1
<1>4. Apart(occ, Works)
  <2> SUFFICES ASSUME NEW i \in 1 .. n, NEW j \in 1 .. n, occ[i] = occ[j], occ[i] \in Works
               PROVE  i = j
    BY <1>2 DEF Apart
  <2> DEFINE w == occ[i]
  <2>0. w # NoWork
    BY Numbers
  <2>1. ASSUME NEW k \in 1 .. n, occ[k] = w PROVE q.rec[w].slot = k - 1
    <3>1. /\ SlotOrder[k] \in Slots /\ SlotOrder[k] = k - 1
          /\ q.occupants[SlotOrder[k]] = w
      BY <1>1, <1>2, <2>1
    <3>2. SlotFine(q, SlotOrder[k])
      BY <1>1, <3>1
    <3> HIDE DEF w
    <3> QED
      BY <2>0, <3>1, <3>2 DEF SlotFine
  <2>2. q.rec[w].slot = i - 1 /\ q.rec[w].slot = j - 1
    BY <2>1
  <2> HIDE DEF w
  <2>3. i - 1 = j - 1 /\ i \in Int /\ j \in Int
    BY <2>2
  <2> QED
    BY <2>3
<1> QED
  BY <1>3, <1>4 DEF occ

(* collect_ready_groups *)
LEMMA GroupsSeen ==
  ASSUME NEW q, NEW F, Whole(q, F), Carried(q.pending, F),
         \A w \in Works : q.rec[w].state = "decoding" => F[w] = Rest, NEW admitted
  PROVE  LET groups == ReadyGroups(q, admitted)
         IN  /\ GroupsFine(q, F, groups)
             /\ \E n \in Nat : DOMAIN groups = 1 .. n
<1> DEFINE occ == [i \in DOMAIN SlotOrder |-> q.occupants[SlotOrder[i]]]
           D == {w \in Works : q.rec[w].state = "decoding" /\ w \notin admitted}
           decoding == Keep(occ, D)
           N == {w \in Works : Stateless(w)}
           waiting == Keep(q.queue, N)
           ready == decoding \o waiting
           L == {w \in Range(ready) : \A v \in Range(ready) :
                   KeyOf(v) = KeyOf(w) => Position(q, w) <= Position(q, v)}
           leaders == Keep(q.requests, L)
           groups == ReadyGroups(q, admitted)
<1>0. /\ q \in Scheds /\ q.rec \in [Works -> Record] /\ q.queue \in Seq(Works)
      /\ q.requests \in Seq(Works) /\ IsInjective(q.requests) /\ IsInjective(q.queue)
      /\ \A w \in Works : Good(q, w, F[w])
  BY DEF Whole, Scheds, NamedOnce
<1>1. groups = [i \in DOMAIN leaders |->
                 [key |-> KeyOf(leaders[i]),
                  members |-> Keep(ready, {w \in Works : KeyOf(w) = KeyOf(leaders[i])})]]
  BY DEF ReadyGroups
<1> HIDE DEF groups
<1>2. /\ decoding \in Seq(Works) /\ Range(decoding) \subseteq D /\ IsInjective(decoding)
  <2>1. occ \in Seq(Works \cup {NoWork}) /\ Apart(occ, Works)
    BY OccupantsSeen
  <2>2. Apart(occ, D)
    BY <2>1 DEF Apart
  <2> HIDE DEF occ
  <2>3. /\ decoding \in Seq(Works \cup {NoWork}) /\ Range(decoding) = Range(occ) \cap D
        /\ IsInjective(decoding)
    <3> HIDE DEF D
    <3> QED
      BY <2>1, <2>2, KeepSeen
  <2>4. Range(decoding) \subseteq D /\ Range(decoding) \subseteq Works
    BY <2>3
  <2> HIDE DEF decoding, D
  <2>5. decoding \in Seq(Works)
    <3>1. decoding \in [1 .. Len(decoding) -> Works] /\ Len(decoding) \in Nat
      BY <2>3, <2>4 DEF Range
    <3>2. \A n \in Nat : \A X, f : f \in [1 .. n -> X] => f \in Seq(X)
      BY SeqDef
    <3> QED
      BY <3>1, <3>2
  <2> QED
    BY <2>3, <2>4, <2>5
<1>3. /\ waiting \in Seq(Works) /\ IsInjective(waiting)
      /\ \A w \in Range(waiting) : w \in Range(q.queue) /\ Stateless(w) /\ w \in Works
  <2>1. waiting \in Seq(Works) /\ Range(waiting) = Range(q.queue) \cap N /\ IsInjective(waiting)
    <3> HIDE DEF N
    <3> QED
      BY <1>0, KeepSeen
  <2> QED
    BY <2>1
<1> HIDE DEF decoding, waiting, occ
<1>4. \A w \in D : w \in Works /\ q.rec[w].state = "decoding"
  OBVIOUS
<1> HIDE DEF D
<1>5. Range(decoding) \cap Range(waiting) = {}
  <2> SUFFICES ASSUME NEW w \in Range(decoding), w \in Range(waiting) PROVE FALSE
    OBVIOUS
  <2> QED
    BY <1>0, <1>2, <1>3, <1>4 DEF Good, Listed
<1>6. /\ ready \in Seq(Works) /\ IsInjective(ready)
      /\ Range(ready) = Range(decoding) \cup Range(waiting)
  BY <1>2, <1>3, <1>5, ConcatSeen
<1> HIDE DEF ready
<1>7. leaders \in Seq(Works) /\ Range(leaders) = Range(q.requests) \cap L /\ IsInjective(leaders)
  <2> HIDE DEF L
  <2> QED
    BY <1>0, KeepSeen
<1> HIDE DEF leaders
<1>8. \A i \in DOMAIN leaders : /\ leaders[i] \in Range(leaders) /\ leaders[i] \in Works
                                /\ leaders[i] \in Range(q.requests) /\ leaders[i] \in L
  <2> TAKE i \in DOMAIN leaders
  <2>1. leaders[i] \in Range(leaders)
    BY DEF Range
  <2>2. leaders[i] \in Works
    BY <1>7
  <2> HIDE DEF L
  <2> QED
    BY <1>7, <2>1, <2>2
<1>9. \A w \in Range(ready) : /\ w \in Works /\ q.rec[w] \in Record
                              /\ Ready(q, F, w, KeyOf(w).kind, KeyOf(w).rows)
                              /\ KeyOf(w).kind \in {"stateless", "decode"}
                              /\ KeyOf(w).rows \in Nat /\ KeyOf(w).rows > 0
  <2> TAKE w \in Range(ready)
  <2>1. CASE w \in Range(decoding)
    <3>1. w \in Works /\ q.rec[w].state = "decoding" /\ F[w] = Rest /\ Good(q, w, F[w])
      BY <1>0, <1>2, <1>4, <2>1
    <3>2. q.rec[w].slot # NoSlot
      BY <3>1 DEF Good, Listed, Admitted
    <3>3. ~Stateless(w)
      BY <3>1, <3>2 DEF Good, Owning
    <3> QED
      BY <1>0, <3>1, <3>3 DEF KeyOf, Ready
  <2>2. CASE w \in Range(waiting)
    <3>1. /\ w \in Works /\ Stateless(w) /\ w \in Range(q.queue) /\ Good(q, w, F[w])
      BY <1>0, <1>3, <2>2
    <3>2. q.rec[w].state = "queued" /\ F[w].at = "rest"
      BY <3>1 DEF Good, Listed
    <3>3. F[w] = Rest
      BY <3>1, <3>2, RestOrFlying
    <3>4. Work[w].rows \in Nat /\ Work[w].rows > 0
      BY <3>1, <3>2, Numbers DEF Good, Listed, Acceptable
    <3> QED
      BY <1>0, <3>1, <3>3, <3>4 DEF KeyOf, Ready
  <2> QED
    BY <1>6, <2>1, <2>2
<1>10. \A i \in DOMAIN leaders : leaders[i] \in Range(ready)
  BY <1>8
<1>11. ASSUME NEW i \in DOMAIN leaders, NEW j \in DOMAIN leaders,
              KeyOf(leaders[i]) = KeyOf(leaders[j])
       PROVE  i = j
  <2>1. /\ leaders[i] \in Range(q.requests) /\ leaders[j] \in Range(q.requests)
        /\ Position(q, leaders[i]) <= Position(q, leaders[j])
        /\ Position(q, leaders[j]) <= Position(q, leaders[i])
    BY <1>8, <1>10, <1>11
  <2> HIDE DEF L
  <2>2. /\ Position(q, leaders[i]) \in DOMAIN q.requests
        /\ q.requests[Position(q, leaders[i])] = leaders[i]
        /\ Position(q, leaders[j]) \in DOMAIN q.requests
        /\ q.requests[Position(q, leaders[j])] = leaders[j]
    BY <1>0, <2>1, PositionSeen
  <2>3. DOMAIN q.requests \subseteq Int
    BY <1>0
  <2>4. Position(q, leaders[i]) = Position(q, leaders[j])
    BY <2>1, <2>2, <2>3
  <2>5. leaders[i] = leaders[j]
    BY <2>2, <2>4
  <2> QED
    BY <1>7, <2>5 DEF IsInjective
<1> HIDE DEF L
<1> DEFINE S(i) == {w \in Works : KeyOf(w) = KeyOf(leaders[i])}  M(i) == Keep(ready, S(i))
<1>12. ASSUME NEW i \in DOMAIN leaders
       PROVE  /\ M(i) \in Seq(Works) /\ Range(M(i)) = Range(ready) \cap S(i) /\ IsInjective(M(i))
              /\ Len(M(i)) > 0
  <2>1. /\ M(i) \in Seq(Works) /\ Range(M(i)) = Range(ready) \cap S(i) /\ IsInjective(M(i))
    <3> HIDE DEF S
    <3> QED
      BY <1>6, KeepSeen
  <2>2. leaders[i] \in Range(M(i))
    BY <1>8, <1>10, <2>1
  <2>3. Len(M(i)) \in Nat /\ Len(M(i)) # 0
    <3> HIDE DEF M
    <3> QED
      BY <2>1, <2>2 DEF Range
  <2> QED
    BY <2>1, <2>3
<1>13. DOMAIN groups = DOMAIN leaders
  BY <1>1
<1>14. \A i \in DOMAIN leaders : groups[i].key = KeyOf(leaders[i]) /\ groups[i].members = M(i)
  BY <1>1
<1>15. ASSUME NEW i \in DOMAIN leaders PROVE GroupFine(q, F, groups[i])
  <2>1. \A w \in Range(M(i)) : w \in Range(ready) /\ KeyOf(w) = KeyOf(leaders[i])
    BY <1>12
  <2>2. leaders[i] \in Range(ready)
    BY <1>10
  <2> HIDE DEF M
  <2> QED
    BY <1>9, <1>12, <1>14, <2>1, <2>2 DEF GroupFine
<1>16. ASSUME NEW i \in DOMAIN leaders, NEW j \in DOMAIN leaders,
              Range(groups[i].members) \cap Range(groups[j].members) # {}
       PROVE  i = j
  <2>1. PICK w : w \in Range(M(i)) /\ w \in Range(M(j))
    BY <1>14, <1>16
  <2>2. KeyOf(w) = KeyOf(leaders[i]) /\ KeyOf(w) = KeyOf(leaders[j])
    BY <1>12, <2>1
  <2> QED
    BY <1>11, <2>2
<1>17. GroupsFine(q, F, groups)
  <2> HIDE DEF M, S
  <2> QED
    BY <1>13, <1>15, <1>16 DEF GroupsFine
<1>18. \E n \in Nat : DOMAIN groups = 1 .. n
  BY <1>7, <1>13
<1> QED
  BY <1>17, <1>18 DEF groups

(* Three numbers have a least one, two a greatest. *)
LEMMA LeastOf ==
  ASSUME NEW a \in Int, NEW b \in Int, NEW c \in Int
  PROVE  /\ Min({a, b, c}) \in {a, b, c} /\ Min({a, b, c}) <= a
         /\ Min({a, b, c}) <= b /\ Min({a, b, c}) <= c
<1>1. \E x \in {a, b, c} : \A y \in {a, b, c} : x <= y
  <2>1. CASE a <= b /\ a <= c
    BY <2>1
  <2>2. CASE b <= a /\ b <= c
    BY <2>2
  <2>3. CASE c <= a /\ c <= b
    BY <2>3
  <2> QED
    BY <2>1, <2>2, <2>3
<1> QED
  BY <1>1 DEF Min
(* Max of two numbers. *)
LEMMA GreatestOf ==
  ASSUME NEW a \in Int, NEW b \in Int
  PROVE  Max({a, b}) \in {a, b} /\ Max({a, b}) >= a /\ Max({a, b}) >= b
<1>1. \E x \in {a, b} : \A y \in {a, b} : x >= y
  <2>1. CASE a >= b
    BY <2>1
  <2>2. CASE b >= a
    BY <2>2
  <2> QED
    BY <2>1, <2>2
<1> QED
  BY <1>1 DEF Max

(* A round takes one member of a group at least. *)
LEMMA TakeCountSeen ==
  ASSUME NEW q, NEW F, NEW group, GroupFine(q, F, group)
  PROVE  TakeCount(group) \in 1 .. Len(group.members)
<1> DEFINE n == Len(group.members)  share == TokenBudget \div group.key.rows
           byBudget == Max({1, share})  taken == Min({n, MaxSlots, byBudget})
<1>1. n \in Nat /\ n > 0 /\ group.key.rows \in Nat /\ group.key.rows > 0
  BY DEF GroupFine
<1>2. TakeCount(group) =
        IF taken >= MultipleOf THEN (taken \div MultipleOf) * MultipleOf ELSE taken
  BY DEF TakeCount
<1>3. share \in Int
  <2>1. TokenBudget \in Int
    BY Numbers
  <2> QED
    BY <1>1, <2>1
<1> HIDE DEF n, share
<1>4. byBudget \in Int /\ byBudget >= 1
  BY <1>3, GreatestOf
<1> HIDE DEF byBudget
<1>5. taken \in Int /\ taken >= 1 /\ taken <= n
  <2>1. /\ n \in Int /\ n >= 1 /\ MaxSlots \in Int /\ MaxSlots >= 1
        /\ byBudget \in Int /\ byBudget >= 1
    BY <1>1, <1>4, Numbers
  <2>2. taken \in {n, MaxSlots, byBudget} /\ taken <= n
    BY <2>1, LeastOf
  <2> HIDE DEF taken
  <2> QED
    BY <2>1, <2>2
<1> HIDE DEF taken
<1>6. \A x, m \in Int : m > 0 /\ x >= m => (x \div m) * m >= 1 /\ (x \div m) * m <= x
                                           /\ (x \div m) * m \in Int
  <2>1. \A x, m \in Int : m > 0 => \E k, r \in Int : x = k * m + r /\ 0 <= r /\ r < m
                                      /\ x \div m = k
    BY Z3
  <2> TAKE x, m \in Int
  <2> HAVE m > 0 /\ x >= m
  <2>2. PICK k, r \in Int : x = k * m + r /\ 0 <= r /\ r < m /\ x \div m = k
    BY <2>1
  <2>3. \A a, b \in Int : a <= 0 /\ b > 0 => a * b <= 0
    BY Z3
  <2>4. \A a, b \in Int : a >= 1 /\ b > 0 => a * b >= 1
    BY Z3
  <2>5. PICK z \in Int : z = k * m
    OBVIOUS
  <2>6. z > 0
    BY <2>2, <2>5
  <2> QED
    BY <2>2, <2>5, <2>6
<1>7. CASE taken >= MultipleOf
  <2>1. PICK z \in Int : z = (taken \div MultipleOf) * MultipleOf /\ z >= 1 /\ z <= taken
    BY <1>5, <1>6, <1>7, Numbers
  <2>2. TakeCount(group) = z
    BY <1>2, <1>7, <2>1
  <2> QED
    BY <1>1, <1>5, <2>1, <2>2 DEF n
<1>8. CASE ~(taken >= MultipleOf)
  BY <1>1, <1>2, <1>5, <1>8 DEF n
<1> QED
  BY <1>7, <1>8

GroupOp(p, i, r) == DispatchGroup(r, p[i])
GroupFold == INSTANCE Folding WITH Op <- GroupOp, Choose <- Max

(* The groups after the i-th are as ready as they were. *)
StillReady(groups, i, r, G) ==
  \A j \in DOMAIN groups : j > i =>
    \A w \in Range(groups[j].members) : Ready(r, G, w, groups[j].key.kind, groups[j].key.rows)
Grouping(groups, i, r, G) ==
  /\ Whole(r, G) /\ Carried(r.pending, G) /\ r.in_round = TRUE /\ Settled(r)
  /\ StillReady(groups, i, r, G)
Grouped(groups, i, r) == \E G : Grouping(groups, i, r, G)

(* One group. *)
LEMMA GroupStep ==
  ASSUME NEW q, NEW F, NEW groups, GroupsFine(q, F, groups), NEW n \in Nat,
         DOMAIN groups = 1 .. n, NEW i \in 1 .. n, NEW r \in Scheds,
         Grouped(groups, i - 1, r)
  PROVE  LET a == DispatchGroup(r, groups[i]) IN a \in Scheds /\ Grouped(groups, i, a)
<1> DEFINE group == groups[i]  a == DispatchGroup(r, group)  k == TakeCount(group)
           members == SubSeq(group.members, 1, k)  rows == group.key.rows  kind == group.key.kind
           b == Dispatch(r, members, kind, rows)
<1>1. PICK G : Grouping(groups, i - 1, r, G)
  BY DEF Grouped
<1>2. /\ Whole(r, G) /\ Carried(r.pending, G) /\ r.in_round = TRUE /\ Settled(r)
      /\ StillReady(groups, i - 1, r, G)
  BY <1>1 DEF Grouping
<1>3. GroupFine(q, F, group) /\ \A j \in DOMAIN groups : GroupFine(q, F, groups[j])
  BY DEF GroupsFine
<1>4. a = IF HoldForFill(r, group) THEN r ELSE b
  BY DEF DispatchGroup
<1>5. k \in 1 .. Len(group.members)
  BY <1>3, TakeCountSeen
<1> HIDE DEF k, a
<1>6. CASE HoldForFill(r, group)
  <2>1. StillReady(groups, i, r, G)
    BY <1>2 DEF StillReady
  <2> QED
    BY <1>2, <1>4, <1>6, <2>1 DEF Grouped, Grouping, a
<1>7. CASE ~HoldForFill(r, group)
  <2>1. /\ group.members \in Seq(Works) /\ IsInjective(group.members)
        /\ kind \in {"stateless", "decode"} /\ rows \in Nat /\ rows > 0
        /\ \A w \in Range(group.members) : KeyOf(w) = group.key
    BY <1>3 DEF GroupFine
  <2>2. /\ members \in Seq(Works) /\ Len(members) = k /\ Range(members) \subseteq Range(group.members)
        /\ IsInjective(members)
    <3> HIDE DEF group
    <3> QED
      BY <1>5, <2>1, FirstSeen
  <2>3. \A w \in Range(group.members) : Ready(r, G, w, kind, rows)
    <3>1. i \in DOMAIN groups /\ i > i - 1
      OBVIOUS
    <3> QED
      BY <1>2, <3>1 DEF StillReady
  <2> HIDE DEF members, kind, rows
  <2>4. Len(members) > 0
    BY <1>5, <2>2
  <2>5. Batch(r, G, members, kind, rows)
    <3> HIDE DEF group
    <3> QED
      BY <2>1, <2>2, <2>3, <2>4 DEF Batch, Kinds
  <2> HIDE DEF b
  <2>6. PICK E : Sent(r, G, b, E, members)
    BY <1>2, <2>5, DispatchKeeps DEF b
  <2>7. /\ Whole(b, E) /\ Carried(b.pending, E) /\ b.in_round = TRUE /\ b \in Scheds
        /\ \A v \in Works \ Range(members) : E[v] = G[v]
        /\ Elsewhere(r, b, Range(members))
        /\ \A w \in Range(members) : ~b.rec[w].pending
    BY <1>2, <2>6 DEF Sent, Whole
  <2>8. Settled(b)
    <3> SUFFICES ASSUME NEW w \in Works PROVE ~b.rec[w].pending
      BY DEF Settled
    <3>1. CASE w \in Range(members)
      BY <2>7, <3>1
    <3>2. CASE w \notin Range(members)
      BY <1>2, <2>7, <3>2 DEF Settled, Elsewhere
    <3> QED
      BY <3>1, <3>2
  <2>9. StillReady(groups, i, b, E)
    <3> SUFFICES ASSUME NEW j \in DOMAIN groups, j > i, NEW w \in Range(groups[j].members)
                 PROVE  Ready(b, E, w, groups[j].key.kind, groups[j].key.rows)
      BY DEF StillReady
    <3>1. j > i - 1 /\ i # j
      OBVIOUS
    <3>2. Ready(r, G, w, groups[j].key.kind, groups[j].key.rows)
      BY <1>2, <3>1 DEF StillReady
    <3>3. w \notin Range(group.members)
      BY <3>1 DEF GroupsFine
    <3>4. w \in Works \ Range(members)
      <4>1. groups[j].members \in Seq(Works)
        BY <1>3 DEF GroupFine
      <4>2. w \in Works
        BY <4>1 DEF Range
      <4> QED
        BY <2>2, <3>3, <4>2
    <3>5. E[w] = G[w] /\ b.rec[w] = r.rec[w] /\ (w \in Range(b.queue) <=> w \in Range(r.queue))
      BY <2>7, <3>4 DEF Elsewhere
    <3> QED
      BY <3>2, <3>5 DEF Ready
  <2>10. a = b
    BY <1>4, <1>7
  <2> QED
    BY <2>7, <2>8, <2>9, <2>10 DEF Grouped, Grouping, a
<1> QED
  BY <1>6, <1>7

(* All groups. *)
LEMMA GroupsKeep ==
  ASSUME NEW q \in Scheds, NEW F, NEW groups, GroupsFine(q, F, groups), NEW n \in Nat,
         DOMAIN groups = 1 .. n, Whole(q, F), Carried(q.pending, F), q.in_round = TRUE, Settled(q)
  PROVE  LET r == FoldLeft(DispatchGroup, q, groups)
         IN  r \in Scheds /\ Grouped(groups, n, r)
<1> DEFINE H == [i \in 0 .. n |-> {r \in Scheds : Grouped(groups, i, r)}]
           end == GroupFold!Fold(groups, q, 1 .. n)[1 .. n]
<1>2. FoldLeft(DispatchGroup, q, groups) = end
  BY DEF FoldLeft, MapThenFoldSet, GroupFold!Fold, GroupFold!Iteration, GroupOp
<1>3. q \in H[0]
  <2>1. StillReady(groups, 0, q, F)
    BY DEF StillReady, GroupsFine, GroupFine
  <2>2. Grouped(groups, 0, q)
    BY <2>1 DEF Grouped, Grouping
  <2> QED
    BY <2>2
<1>4. ASSUME NEW i \in 1 .. n, NEW r \in H[i - 1]
      PROVE  GroupOp(groups, i, r) \in H[i]
  <2>1. i - 1 \in 0 .. n /\ i \in 0 .. n
    OBVIOUS
  <2>2. r \in Scheds /\ Grouped(groups, i - 1, r)
    BY <2>1
  <2>3. LET a == DispatchGroup(r, groups[i]) IN a \in Scheds /\ Grouped(groups, i, a)
    BY <2>2, GroupStep
  <2> QED
    BY <2>1, <2>3 DEF GroupOp
<1> HIDE DEF H
<1>5. end \in H[n]
  BY <1>3, <1>4, Greatest, GroupFold!InOrder DEF Grounded, GroupFold!Grounded
<1> HIDE DEF end
<1>6. end \in Scheds /\ Grouped(groups, n, end)
  BY <1>5 DEF H
<1> QED
  BY <1>2, <1>6

-----------------------------------------------------------------------------
(* The whole round.                                                        *)

(* Where no dispatch is pending, everybody is at rest. *)
LEMMA NothingCarried ==
  ASSUME NEW F \in Flights, Carried(<<>>, F)
  PROVE  F = AllRest
<1>1. \A w \in Works : F[w] = Rest
  BY DEF Carried
<1> QED
  BY <1>1 DEF Flights, AllRest

(* vx_batch_scheduler_step *)
LEMMA StepKeeps ==
  ASSUME NEW q, Sane(q), q.pending = <<>>
  PROVE  Sane(Step(q))
<1> DEFINE admitted == IF q.draining THEN q ELSE AdmitStateful(q)
           opened == [admitted EXCEPT !.in_round = TRUE]
           chunked == FoldLeft(PrefillAt, opened, SlotOrder)
           prefilling == {w \in Works : admitted.rec[w].state = "prefill"}
           groups == ReadyGroups(chunked, prefilling)
           round == FoldLeft(DispatchGroup, chunked, groups)
<1>1. Whole(q, AllRest) /\ Carried(q.pending, AllRest) /\ Quietly(q, q)
  <2>1. PICK F \in Flights : Whole(q, F) /\ Carried(q.pending, F)
    BY DEF Sane
  <2>2. F = AllRest
    BY <2>1, NothingCarried
  <2> QED
    BY <2>1, <2>2 DEF Quietly
<1>2. Whole(admitted, AllRest) /\ Quietly(q, admitted)
  <2>1. CASE q.draining
    BY <1>1, <2>1
  <2>2. CASE ~q.draining
    BY <1>1, <2>2, AdmitKeeps
  <2> QED
    BY <2>1, <2>2
<1>3. Step(q) = IF round.pending = <<>> THEN FinishRound(round) ELSE round
  BY DEF Step
<1> HIDE DEF prefilling, groups, admitted
<1>4. /\ opened \in Scheds /\ opened.cache = admitted.cache /\ opened.rec = admitted.rec
      /\ opened.requests = admitted.requests /\ opened.queue = admitted.queue
      /\ opened.results = admitted.results /\ opened.occupants = admitted.occupants
      /\ opened.pending = q.pending /\ opened.in_round = TRUE
  <2>1. admitted \in Scheds /\ admitted.pending = q.pending
    BY <1>2 DEF Whole, Quietly
  <2> QED
    BY <2>1 DEF Scheds
<1> HIDE DEF opened
<1>5. Chunked(0, opened)
  <2>1. Whole(opened, AllRest) /\ Carried(opened.pending, AllRest)
    BY <1>1, <1>2, <1>4, WholeBesides
  <2>2. \A t : ~Visited(0, t)
    BY DEF Visited
  <2>3. \A w \in Works : AllRest[w] = Rest
    BY DEF AllRest
  <2>4. Chunking(0, opened, AllRest)
    BY <1>4, <2>1, <2>2, <2>3 DEF Chunking
  <2> QED
    BY <2>4 DEF Chunked
<1>6. chunked \in Scheds /\ Chunked(NumSlots, chunked)
  BY <1>4, <1>5, PrefillKeeps
<1> HIDE DEF chunked
<1>7. PICK G : Chunking(NumSlots, chunked, G)
  BY <1>6 DEF Chunked
<1>8. /\ Whole(chunked, G) /\ Carried(chunked.pending, G) /\ chunked.in_round = TRUE
      /\ \A w \in Works : /\ chunked.rec[w].pending => ~Visited(NumSlots, chunked.rec[w].slot)
                          /\ G[w] # Rest => G[w].kind = "prefill"
  BY <1>7 DEF Chunking
<1>9. \A s \in Slots : Visited(NumSlots, s)
  <2> TAKE s \in Slots
  <2>1. s + 1 \in 1 .. NumSlots /\ (s + 1) - 1 = s
    BY Visits DEF Slots
  <2>2. SlotOrder[s + 1] = s
    BY <2>1, Visits
  <2> QED
    BY <2>1, <2>2 DEF Visited
<1>10. Settled(chunked)
  <2> SUFFICES ASSUME NEW w \in Works, chunked.rec[w].pending PROVE FALSE
    BY DEF Settled
  <2>1. Good(chunked, w, G[w]) /\ chunked.rec[w] \in Record
    BY <1>8 DEF Whole, Scheds
  <2>2. chunked.rec[w].slot \in Slots
    BY <2>1 DEF Good, Listed, Admitted, Record
  <2> QED
    BY <1>8, <1>9, <2>2
<1>11. \A w \in Works : chunked.rec[w].state = "decoding" => G[w] = Rest
  <2> SUFFICES ASSUME NEW w \in Works, chunked.rec[w].state = "decoding", G[w] # Rest PROVE FALSE
    OBVIOUS
  <2>1. /\ Good(chunked, w, G[w]) /\ G[w].kind = "prefill" /\ G[w].at = "flying"
    BY <1>8, RestOrFlying DEF Whole
  <2> QED
    BY <2>1 DEF Good, Travelling
<1>12. GroupsFine(chunked, G, groups) /\ \E n \in Nat : DOMAIN groups = 1 .. n
  BY <1>8, <1>11, GroupsSeen DEF groups
<1>13. PICK n \in Nat : DOMAIN groups = 1 .. n
  BY <1>12
<1>14. round \in Scheds /\ Grouped(groups, n, round)
  BY <1>6, <1>8, <1>10, <1>12, <1>13, GroupsKeep
<1> HIDE DEF round
<1>15. PICK E : Grouping(groups, n, round, E)
  BY <1>14 DEF Grouped
<1>16. /\ Whole(round, E) /\ Carried(round.pending, E) /\ round.in_round = TRUE /\ Settled(round)
       /\ E \in Flights
  BY <1>15 DEF Grouping, Whole
<1>17. CASE round.pending = <<>>
  <2>1. E = AllRest
    BY <1>16, <1>17, NothingCarried
  <2> DEFINE r == FinishRound(round)
  <2>2. /\ Whole(r, AllRest) /\ Settled(r) /\ Between(r) /\ r.in_round = FALSE
        /\ r.pending = round.pending
    BY <1>16, <2>1, FinishKeeps
  <2>3. Step(q) = r
    BY <1>3, <1>17
  <2> HIDE DEF r
  <2>4. Carried(r.pending, AllRest)
    BY <1>16, <2>1, <2>2
  <2> QED
    BY <1>17, <2>2, <2>3, <2>4, RecordTypes DEF Sane
<1>18. CASE round.pending # <<>>
  BY <1>3, <1>16, <1>18 DEF Sane
<1> QED
  BY <1>17, <1>18

(* The exposed head is marked, and nothing else. *)
LEMMA ExposeKeeps ==
  ASSUME NEW q, Sane(q)
  PROVE  Sane(Expose(q))
<1> DEFINE P == q.pending  r == Expose(q)  R == [P EXCEPT ![1].started = TRUE]
<1>1. PICK F \in Flights : Whole(q, F) /\ Carried(P, F)
  BY DEF Sane
<1>2. CASE P = <<>>
  BY <1>2 DEF Expose
<1>3. CASE P # <<>>
  <2>1. q \in Scheds /\ P \in Seq(Dispatches)
    BY <1>1 DEF Whole, Scheds
  <2>2. /\ DOMAIN P = 1 .. Len(P) /\ Len(P) \in Nat /\ Len(P) > 0 /\ P[1] \in Dispatches
        /\ 1 \in DOMAIN P
    BY <1>3, <2>1
  <2>3. r = [q EXCEPT !.pending = R]
    BY <1>3 DEF Expose
  <2> HIDE DEF P
  <2> DEFINE d == P[1]  e == [d EXCEPT !.started = TRUE]
  <2>4. /\ e \in Dispatches /\ e.kind = d.kind /\ e.members = d.members /\ e.rows = d.rows
        /\ e.slot = d.slot /\ e.generation = d.generation
    BY <2>2 DEF Dispatches
  <2>5. /\ R \in Seq(Dispatches) /\ DOMAIN R = DOMAIN P
        /\ \A i \in DOMAIN P : R[i] = IF i = 1 THEN e ELSE P[i]
    <3>1. R = [P EXCEPT ![1] = e]
      OBVIOUS
    <3> HIDE DEF e, R
    <3> QED
      BY <2>1, <2>2, <2>4, <3>1 DEF P
  <2> HIDE DEF R, e, r
  <2>6. /\ r \in Scheds /\ r.cache = q.cache /\ r.rec = q.rec /\ r.requests = q.requests
        /\ r.queue = q.queue /\ r.results = q.results /\ r.occupants = q.occupants
        /\ r.pending = R /\ r.in_round = q.in_round
    BY <2>1, <2>3, <2>5 DEF Scheds
  <2>7. \A i \in DOMAIN P : /\ R[i].kind = P[i].kind /\ R[i].members = P[i].members
                            /\ R[i].rows = P[i].rows /\ R[i].slot = P[i].slot
                            /\ R[i].generation = P[i].generation
    BY <2>4, <2>5
  <2>8. Carried(R, F)
    <3>1. \A i \in DOMAIN P : Made(R[i]) <=> Made(P[i])
      BY <2>7 DEF Made, Padding
    <3>2. \A i \in DOMAIN P : \A m : FlightOf(R[i], m) = FlightOf(P[i], m)
      BY <2>7 DEF FlightOf
    <3>3. /\ \A i \in DOMAIN P : Made(P[i])
          /\ \A i \in DOMAIN P : \A m \in DOMAIN P[i].members :
               F[P[i].members[m]] = FlightOf(P[i], m)
          /\ \A i, j \in DOMAIN P : \A m \in DOMAIN P[i].members, n \in DOMAIN P[j].members :
               P[i].members[m] = P[j].members[n] => i = j /\ m = n
          /\ \A w \in Works : F[w] # Rest =>
               \E i \in DOMAIN P : \E m \in DOMAIN P[i].members : P[i].members[m] = w
      BY <1>1 DEF Carried, P
    <3>4. \A i \in DOMAIN R : Made(R[i])
      BY <2>5, <3>1, <3>3
    <3>5. \A i \in DOMAIN R : \A m \in DOMAIN R[i].members : F[R[i].members[m]] = FlightOf(R[i], m)
      BY <2>5, <2>7, <3>2, <3>3
    <3>6. \A i, j \in DOMAIN R : \A m \in DOMAIN R[i].members, n \in DOMAIN R[j].members :
            R[i].members[m] = R[j].members[n] => i = j /\ m = n
      BY <2>5, <2>7, <3>3
    <3>7. \A w \in Works : F[w] # Rest =>
            \E i \in DOMAIN R : \E m \in DOMAIN R[i].members : R[i].members[m] = w
      BY <2>5, <2>7, <3>3
    <3> QED
      BY <3>4, <3>5, <3>6, <3>7 DEF Carried
  <2>9. Whole(r, F)
    BY <1>1, <2>6, WholeBesides
  <2>10. R # <<>>
    BY <2>2, <2>5
  <2> QED
    BY <1>1, <1>3, <2>6, <2>8, <2>9, <2>10 DEF Sane, Settled, Between, r, P
<1> QED
  BY <1>2, <1>3

-----------------------------------------------------------------------------
(* A dispatch is settled.                                                  *)

(* A step that changes one record, at its slot, concerns that work only. *)
LEMMA RecordChange ==
  ASSUME NEW q, NEW F, Whole(q, F), NEW w \in Works, NEW e \in Record,
         e.slot = q.rec[w].slot,
         NEW r \in Scheds, r.rec = [q.rec EXCEPT ![w] = e], r.cache = q.cache,
         r.occupants = q.occupants, r.queue = q.queue, r.results = q.results,
         r.requests = q.requests, NEW f \in Flight, Good(r, w, f)
  PROVE  Whole(r, [F EXCEPT ![w] = f]) /\ Elsewhere(q, r, {w})
<1> DEFINE G == [F EXCEPT ![w] = f]
<1>0. /\ NamedOnce(q) /\ Sound(q.cache) /\ F \in Flights /\ q.rec \in [Works -> Record]
      /\ q.occupants \in [Slots -> Works \cup {NoWork}]
      /\ \A t \in Slots : SlotFine(q, t)
  BY DEF Whole, Scheds
<1>1. r.rec[w] = e /\ \A v \in Works : v # w => r.rec[v] = q.rec[v]
  BY <1>0
<1>2. NamedOnce(r) /\ Sound(r.cache)
  BY <1>0 DEF NamedOnce
<1>3. Elsewhere(q, r, {w})
  <2>1. \A t \in Slots : t # q.rec[w].slot => Untouched(q.cache, r.cache, t)
    BY DEF Untouched
  <2> QED
    BY <1>1, <2>1, OneApart
<1>4. \A s \in Slots : SlotFine(r, s)
  <2> TAKE s \in Slots
  <2>1. SlotFine(q, s)
    BY <1>0
  <2>2. CASE q.occupants[s] = NoWork
    BY <2>1, <2>2 DEF SlotFine
  <2>3. CASE q.occupants[s] # NoWork
    <3>1. q.occupants[s] \in Works
      BY <1>0, <2>3
    <3>2. r.rec[q.occupants[s]].slot = q.rec[q.occupants[s]].slot
      BY <1>1, <3>1
    <3> QED
      BY <2>1, <2>3, <3>2 DEF SlotFine
  <2> QED
    BY <2>2, <2>3
<1>5. G \in Flights /\ G[w] = f /\ \A v \in Works \ {w} : G[v] = F[v]
  BY <1>0 DEF Flights
<1> HIDE DEF G
<1>6. \A v \in {w} : Good(r, v, G[v])
  BY <1>5
<1>7. Whole(r, G)
  BY <1>2, <1>3, <1>4, <1>5, <1>6, WholeElsewhere
<1> QED
  BY <1>3, <1>7 DEF G

(* The works of W have their tokens committed, but not yet counted. *)
Counting(F, W) == [w \in Works |-> IF w \in W THEN [F[w] EXCEPT !.at = "settling"] ELSE F[w]]

(* commit_batch for the slots of works in flight. *)
LEMMA CommitKeeps ==
  ASSUME NEW q, NEW F, Whole(q, F), NEW W \in SUBSET Works,
         \A w \in W : F[w].at = "flying" /\ F[w].kind # "stateless",
         NEW r \in Scheds, r.cache = Commit(q.cache, {F[w].slot : w \in W}),
         r.rec = q.rec, r.occupants = q.occupants, r.queue = q.queue, r.results = q.results,
         r.requests = q.requests
  PROVE  Whole(r, Counting(F, W)) /\ Elsewhere(q, r, W)
<1> DEFINE S == {F[w].slot : w \in W}  c == Commit(q.cache, S)  G == Counting(F, W)
<1>0. /\ q \in Scheds /\ NamedOnce(q) /\ F \in Flights /\ Sound(q.cache)
      /\ \A t \in Slots : SlotFine(q, t)
      /\ q.rec \in [Works -> Record]
  BY DEF Whole, Scheds
<1>1. ASSUME NEW w \in W
      PROVE  /\ w \in Works /\ Good(q, w, F[w]) /\ q.rec[w].slot = F[w].slot
             /\ F[w].slot # NoSlot /\ F[w].slot \in Slots /\ F[w] \in Flight
             /\ ~q.rec[w].pending /\ q.rec[w].state \in Admitted
             /\ q.cache.reservation[F[w].slot].tokens = F[w].rows
  <2>1. w \in Works /\ Good(q, w, F[w]) /\ F[w] \in Flight
    BY <1>0 DEF Whole, Flights
  <2> QED
    BY <2>1, Numbers DEF Good, Travelling, Listed, Flight, Admitted
<1>2. S \in SUBSET Slots
  BY <1>1
<1> HIDE DEF S
<1>3. /\ Sound(c) /\ \A t \in Slots : t \notin S => Untouched(q.cache, c, t)
      /\ \A s \in S : /\ c.kv_length[s] = q.cache.kv_length[s] + q.cache.reservation[s].tokens
                      /\ c.slot_generation[s] = q.cache.slot_generation[s]
                      /\ ~Open(c, s)
  BY <1>0, <1>2, CommitSeen
<1>5. /\ r \in Scheds /\ r.cache = c /\ r.rec = q.rec /\ r.occupants = q.occupants
      /\ r.queue = q.queue /\ r.results = q.results /\ r.requests = q.requests
  BY DEF S
<1> HIDE DEF c
<1>6. NamedOnce(r) /\ \A v : HasResult(r, v) <=> HasResult(q, v)
  BY <1>0, <1>5 DEF NamedOnce, HasResult
<1>7. Elsewhere(q, r, W)
  <2> SUFFICES ASSUME NEW v \in Works \ W, q.rec[v].slot # NoSlot
               PROVE  Untouched(q.cache, c, q.rec[v].slot)
    BY <1>5, <1>6 DEF Elsewhere
  <2>1. q.rec[v].slot \in Slots
    BY <1>0 DEF Record
  <2>2. q.rec[v].slot \notin S
    <3> SUFFICES ASSUME NEW w \in W, F[w].slot = q.rec[v].slot PROVE FALSE
      BY DEF S
    <3>1. w \in Works /\ w # v /\ q.rec[w].slot = q.rec[v].slot
      BY <1>1
    <3> QED
      BY <3>1, SlotsApart
  <2> QED
    BY <1>3, <2>1, <2>2
<1>8. ASSUME NEW s \in Slots, q.occupants[s] \in W \cup {NoWork} PROVE SlotFine(r, s)
  <2>1. CASE q.occupants[s] = NoWork
    <3>1. s \notin S
      <4> SUFFICES ASSUME NEW w \in W, F[w].slot = s PROVE FALSE
        BY DEF S
      <4>1. q.occupants[s] = w /\ w \in Works
        BY <1>1 DEF Good, Owning
      <4> QED
        BY <2>1, <4>1, Numbers
    <3> QED
      BY <1>0, <1>3, <1>5, <2>1, <3>1 DEF SlotFine, Untouched, Open
  <2>2. CASE q.occupants[s] # NoWork
    BY <1>0, <1>5, <2>2 DEF SlotFine
  <2> QED
    BY <2>1, <2>2
<1>9. ASSUME NEW w \in W PROVE Good(r, w, G[w]) /\ G[w] \in Flight
  <2> DEFINE s == q.rec[w].slot  f == F[w]  g == G[w]
  <2>1. /\ w \in Works /\ Good(q, w, F[w]) /\ s = F[w].slot /\ s # NoSlot /\ s \in S
        /\ ~q.rec[w].pending /\ q.rec[w].state \in Admitted /\ f \in Flight
        /\ q.cache.reservation[s].tokens = f.rows
        /\ f.at = "flying" /\ f.kind # "stateless"
    BY <1>1 DEF S
  <2>2. /\ c.kv_length[s] = q.cache.kv_length[s] + f.rows /\ ~Open(c, s)
        /\ c.slot_generation[s] = q.cache.slot_generation[s]
    BY <1>3, <2>1
  <2>3. /\ g.at = "settling" /\ g.kind = f.kind /\ g.rows = f.rows /\ g.slot = f.slot
        /\ g.generation = f.generation /\ g \in Flight
    <3>1. g = [f EXCEPT !.at = "settling"]
      BY <2>1 DEF Counting
    <3> HIDE DEF f, g
    <3> QED
      BY <2>1, <3>1 DEF Flight
  <2> HIDE DEF f, g, s
  <2>4. Good(q, w, f) /\ q.rec[w] \in Record
    BY <1>0, <2>1 DEF f
  <2>5. Listed(r, w, g)
    BY <1>5, <1>6, <2>1, <2>3, <2>4 DEF Good, Listed, Admitted
  <2>6. Owning(r, w, g)
    <3>1. Ahead(f) = 0 /\ Ahead(g) = f.rows /\ f.rows \in Nat
      BY <2>1, <2>3 DEF Ahead, Flight
    <3>2. q.cache.kv_length[s] = q.rec[w].prefilled + q.rec[w].generated + Ahead(f)
      BY <2>1, <2>4 DEF Good, Owning, s
    <3>3. q.rec[w].prefilled \in Nat /\ q.rec[w].generated \in Nat
      BY <2>4 DEF Record
    <3>4. c.kv_length[s] = q.rec[w].prefilled + q.rec[w].generated + Ahead(g)
      BY <2>2, <3>1, <3>2, <3>3
    <3> QED
      BY <1>5, <2>1, <2>2, <2>3, <2>4, <3>4 DEF Good, Owning, s
  <2>7. Travelling(r, w, g)
    BY <1>5, <2>1, <2>3, <2>4 DEF Good, Travelling
  <2>8. Good(r, w, g) /\ g \in Flight
    BY <2>3, <2>5, <2>6, <2>7 DEF Good
  <2> QED
    BY <2>8 DEF g
<1>10. \A v \in Works \ W : G[v] = F[v]
  BY DEF Counting
<1>11. G \in Flights
  <2>1. \A w \in Works : G[w] \in Flight
    BY <1>0, <1>9, <1>10 DEF Flights
  <2> QED
    BY <2>1 DEF Flights, Counting
<1> HIDE DEF G
<1>13. Whole(r, G)
  <2>1. Sound(r.cache)
    BY <1>3, <1>5
  <2> QED
    BY <1>5, <1>6, <1>7, <1>8, <1>9, <1>10, <1>11, <2>1, WholeElsewhere
<1> QED
  BY <1>7, <1>13 DEF G

(* A record e of w that differs in its counters only, by the rows that flew. *)
CountedAs(q, w, rows, e) ==
  /\ e \in Record
  /\ e.state = q.rec[w].state /\ e.slot = q.rec[w].slot /\ e.pending = q.rec[w].pending
  /\ e.slot_generation = q.rec[w].slot_generation
  /\ e.cancel_requested = q.rec[w].cancel_requested
  /\ e.prefilled + e.generated = q.rec[w].prefilled + q.rec[w].generated + rows
  /\ e.prefilled <= Work[w].prompt_tokens /\ (e.state = "prefill" => e.generated = 0)

(* Only the record of w is new. *)
RecordIs(q, w, e, r) ==
  /\ r \in Scheds /\ r.rec = [q.rec EXCEPT ![w] = e] /\ r.cache = q.cache
  /\ r.occupants = q.occupants /\ r.queue = q.queue /\ r.results = q.results
  /\ Quietly(q, r)

(* A work's tokens are counted. *)
LEMMA CountKeeps ==
  ASSUME NEW q, NEW F, Whole(q, F), NEW w \in Works, F[w].at = "settling",
         F[w].kind # "stateless", NEW e, CountedAs(q, w, F[w].rows, e),
         NEW f \in Flight, f = Rest \/ f = Leaving, e.generated < Work[w].max_tokens \/ f = Leaving,
         NEW r, RecordIs(q, w, e, r)
  PROVE  /\ Whole(r, [F EXCEPT ![w] = f]) /\ Elsewhere(q, r, {w}) /\ ~e.pending
<1>a. /\ e \in Record
      /\ e.state = q.rec[w].state /\ e.slot = q.rec[w].slot /\ e.pending = q.rec[w].pending
      /\ e.slot_generation = q.rec[w].slot_generation
      /\ e.cancel_requested = q.rec[w].cancel_requested
      /\ e.prefilled + e.generated = q.rec[w].prefilled + q.rec[w].generated + F[w].rows
      /\ e.prefilled <= Work[w].prompt_tokens /\ (e.state = "prefill" => e.generated = 0)
  BY DEF CountedAs
<1>b. /\ r \in Scheds /\ r.rec = [q.rec EXCEPT ![w] = e] /\ r.cache = q.cache
      /\ r.occupants = q.occupants /\ r.queue = q.queue /\ r.results = q.results
      /\ Quietly(q, r)
  BY DEF RecordIs
<1> USE <1>a, <1>b
<1>0. /\ q \in Scheds /\ q.rec \in [Works -> Record] /\ q.rec[w] \in Record
      /\ Good(q, w, F[w]) /\ F[w] \in Flight
  BY DEF Whole, Scheds, Flights
<1>1. /\ r \in Scheds /\ r.rec = [q.rec EXCEPT ![w] = e] /\ r.cache = q.cache
      /\ r.occupants = q.occupants /\ r.queue = q.queue /\ r.results = q.results
      /\ r.requests = q.requests
  BY DEF Quietly
<1>2. r.rec[w] = e /\ \A v : HasResult(r, v) <=> HasResult(q, v)
  BY <1>0, <1>1 DEF HasResult
<1>3. f.at \in {"rest", "leaving"} /\ f.kind = "stateless"
      /\ (f = Leaving => f.at = "leaving")
  BY RecordTypes
<1>4. /\ q.rec[w].state \in Admitted /\ ~e.pending /\ e.slot # NoSlot
      /\ w \notin Range(q.queue)
  <2>1. q.rec[w].state \in Admitted
    BY <1>0 DEF Good, Travelling, Admitted
  <2> QED
    BY <1>0, <2>1 DEF Good, Listed, Admitted
<1>5. Listed(r, w, f)
  BY <1>0, <1>1, <1>2, <1>3, <1>4 DEF Good, Listed, Admitted
<1>6. Owning(r, w, f)
  <2>1. Ahead(f) = 0 /\ Ahead(F[w]) = F[w].rows /\ F[w].rows \in Nat
    BY <1>0, <1>3 DEF Ahead, Flight
  <2>2. /\ ~Stateless(w) /\ q.occupants[e.slot] = w
        /\ q.cache.slot_generation[e.slot] = e.slot_generation
        /\ q.cache.kv_length[e.slot] = q.rec[w].prefilled + q.rec[w].generated + Ahead(F[w])
        /\ ~Open(q.cache, e.slot)
    BY <1>0, <1>4 DEF Good, Owning
  <2>3. /\ e.prefilled \in Nat /\ e.generated \in Nat
    BY DEF Record
  <2>4. q.cache.kv_length[e.slot] = e.prefilled + e.generated + Ahead(f)
    BY <2>1, <2>2, <2>3
  <2> QED
    BY <1>1, <1>2, <1>3, <1>4, <2>2, <2>4 DEF Owning
<1>7. Good(r, w, f)
  BY <1>3, <1>5, <1>6 DEF Good, Travelling
<1>8. Whole(r, [F EXCEPT ![w] = f]) /\ Elsewhere(q, r, {w})
  BY <1>1, <1>3, <1>7, RecordChange
<1> QED
  BY <1>1, <1>2, <1>4, <1>8

(* What the settlement of one member leaves. *)
Moved(E, r, a, w) ==
  Whole(a, [E EXCEPT ![w] = Rest]) /\ Elsewhere(r, a, {w}) /\ Quietly(r, a) /\ ~a.rec[w].pending

(* One step of a member after another. *)
LEMMA MovedOn ==
  ASSUME NEW q, NEW r, NEW a, NEW w, Elsewhere(q, r, {w}), Elsewhere(r, a, {w}),
         Quietly(q, r), Quietly(r, a)
  PROVE  Elsewhere(q, a, {w}) /\ Quietly(q, a)
<1>1. {w} \cup {w} = {w}
  OBVIOUS
<1>2. Elsewhere(q, a, {w} \cup {w})
  BY ElsewhereOn
<1>3. Elsewhere(q, a, {w})
  BY <1>1, <1>2, Zenon
<1> QED
  BY <1>3 DEF Quietly

(* A member that ends. *)
LEMMA EndMoves ==
  ASSUME NEW E, NEW r, Whole(r, E), NEW w \in Works, NEW st \in Terminal,
         \/ E[w].at = "flying" /\ E[w].kind = "stateless"
         \/ E[w].at = "settling" /\ E[w].kind # "stateless"
         \/ E[w] = Rest /\ r.rec[w].state \in Admitted
  PROVE  Moved(E, r, ReleaseAndPublish(r, w, st), w)
<1>1. Good(r, w, E[w])
  BY DEF Whole
<1>2. CASE E[w].at = "flying" /\ E[w].kind = "stateless"
  <2>1. r.rec[w].state \in {"queued"} \cup Terminal
    BY <1>1, <1>2 DEF Good, Travelling
  <2>2. r.rec[w].slot = NoSlot /\ r.rec[w].state # "unknown"
    BY <1>1, <2>1 DEF Good, Listed, Admitted, Terminal
  <2>3. w \notin Range(r.queue)
    BY <1>1, <1>2 DEF Good, Listed
  <2>4. \A s \in Slots : r.rec[w].slot = s /\ Open(r.cache, s) => r.rec[w].pending
    BY <2>2, Numbers
  <2> QED
    BY <2>2, <2>3, <2>4, EndKeeps DEF Ended, Moved
<1>3. CASE \/ E[w].at = "settling" /\ E[w].kind # "stateless"
           \/ E[w] = Rest /\ r.rec[w].state \in Admitted
  <2>1. r.rec[w].state \in Admitted
    BY <1>1, <1>3 DEF Good, Travelling, Admitted
  <2>2. r.rec[w].state # "unknown" /\ w \notin Range(r.queue)
    BY <1>1, <2>1 DEF Good, Listed, Admitted
  <2>3. E[w].at # "flying"
    BY <1>3, RecordTypes
  <2>4. \A s \in Slots : r.rec[w].slot = s /\ Open(r.cache, s) => r.rec[w].pending
    BY <1>1, <2>3, Numbers DEF Good, Owning
  <2> QED
    BY <2>2, <2>4, EndKeeps DEF Ended, Moved
<1> QED
  BY <1>2, <1>3

(* publish_prompt_prefix *)
LEMMA PromptPrefixKeeps ==
  ASSUME NEW q, NEW F, Whole(q, F), NEW w \in Works, q.rec[w].slot # NoSlot
  PROVE  LET r == PublishPromptPrefix(q, w)
         IN  Whole(r, F) /\ Elsewhere(q, r, {w}) /\ Quietly(q, r) /\ r.rec = q.rec
<1> DEFINE k == Work[w].prompt_key  s == q.rec[w].slot
           n == (Work[w].prompt_tokens \div PageTokens) * PageTokens
           c == Publish(q.cache, k, s, n)  r == PublishPromptPrefix(q, w)
           b == [q EXCEPT !.cache = c]
<1>0. /\ q \in Scheds /\ Sound(q.cache) /\ s \in Slots /\ k \in Keys \cup {NoKey} /\ n \in Nat
      /\ \A t \in Slots : SlotFine(q, t)
  <2>1. q \in Scheds /\ Sound(q.cache) /\ \A t \in Slots : SlotFine(q, t)
    BY DEF Whole
  <2>2. q.rec[w] \in Record
    BY <2>1 DEF Scheds
  <2>3. s \in Slots
    BY <2>2 DEF Record
  <2>4. Work[w].prompt_tokens \in Nat /\ k \in Keys \cup {NoKey}
    BY Numbers
  <2>5. PageTokens \in Nat /\ PageTokens > 0
    BY Sizes
  <2>6. Work[w].prompt_tokens \div PageTokens \in Nat
    BY <2>4, <2>5
  <2>7. n \in Nat
    BY <2>5, <2>6
  <2> QED
    BY <2>1, <2>3, <2>4, <2>7
<1> HIDE DEF k, s, n
<1>1. CASE k = NoKey \/ k \in LiveKeys(q.cache) \/ ~PublishOK(q.cache, k, s, n)
  <2>1. r = q
    BY <1>1 DEF PublishPromptPrefix, k, s, n
  <2>2. Elsewhere(q, q, {w}) /\ Quietly(q, q)
    BY DEF Elsewhere, Quietly, Untouched
  <2> HIDE DEF r
  <2> QED
    BY <2>1, <2>2 DEF r
<1>2. CASE ~(k = NoKey \/ k \in LiveKeys(q.cache) \/ ~PublishOK(q.cache, k, s, n))
  <2>1. r = b
    BY <1>2 DEF PublishPromptPrefix, k, s, n
  <2>2. k \in Keys /\ PublishOK(q.cache, k, s, n)
    BY <1>0, <1>2
  <2>3. Sound(c) /\ \A t \in Slots : Untouched(q.cache, c, t)
    BY <1>0, <2>2, PublishSeen
  <2> HIDE DEF c
  <2>4. \A t \in Slots : q.occupants[t] = NoWork => c.kv_length[t] = 0 /\ ~Open(c, t)
    BY <1>0, <2>3 DEF SlotFine, Untouched, Open
  <2>5. Whole(b, F) /\ Quietly(q, b)
    BY <2>3, <2>4, CacheBesides
  <2>6. /\ b.rec = q.rec /\ b.queue = q.queue /\ b.results = q.results /\ b.cache = c
        /\ b.occupants = q.occupants /\ b.requests = q.requests
    BY <1>0 DEF Scheds
  <2> HIDE DEF b, r
  <2>7. \A t \in Slots : t # q.rec[w].slot => Untouched(q.cache, b.cache, t)
    BY <2>3, <2>6
  <2>8. Elsewhere(q, b, {w})
    BY <2>6, <2>7, OneApart
  <2> QED
    BY <2>1, <2>5, <2>6, <2>8 DEF r
<1> QED
  BY <1>1, <1>2

(* A prompt chunk is done. *)
LEMMA ChunkMoves ==
  ASSUME NEW E, NEW r, Whole(r, E), NEW w \in Works, NEW d, d.rows = E[w].rows,
         E[w].at = "settling", E[w].kind = "prefill"
  PROVE  Moved(E, r, ChunkDone(r, d, w), w)
<1> DEFINE e == [r.rec[w] EXCEPT !.prefilled = @ + d.rows]
           b == [r EXCEPT !.rec = [@ EXCEPT ![w] = e]]  G == [E EXCEPT ![w] = Rest]
           p == PublishPromptPrefix(b, w)
           a == ChunkDone(r, d, w)
<1>0. /\ r \in Scheds /\ r.rec \in [Works -> Record] /\ r.rec[w] \in Record
      /\ Good(r, w, E[w]) /\ E[w] \in Flight /\ E \in Flights
      /\ r.rec[w].prefilled \in Nat /\ E[w].rows \in Nat /\ r.rec[w].generated \in Nat
      /\ Work[w].prompt_tokens \in Nat
  BY Numbers DEF Whole, Scheds, Flights, Record, Flight
<1>1. /\ r.rec[w].state = "prefill" /\ r.rec[w].prefilled + E[w].rows <= Work[w].prompt_tokens
      /\ r.rec[w].slot # NoSlot
  BY <1>0 DEF Good, Travelling
<1>2. r.rec[w].generated = 0 /\ r.rec[w].generated < Work[w].max_tokens
  BY <1>0, <1>1 DEF Good, Owning
<1>3. /\ e \in Record /\ e.state = r.rec[w].state /\ e.slot = r.rec[w].slot
      /\ e.slot_generation = r.rec[w].slot_generation /\ e.pending = r.rec[w].pending
      /\ e.cancel_requested = r.rec[w].cancel_requested /\ e.generated = r.rec[w].generated
      /\ e.prefilled = r.rec[w].prefilled + E[w].rows
  BY <1>0 DEF Record
<1>4. [r EXCEPT !.rec[w].prefilled = @ + d.rows] = b
  BY <1>0 DEF Scheds
<1>5. b.rec[w] = e
  BY <1>0 DEF Scheds
<1>6. a = IF b.rec[w].prefilled # Work[w].prompt_tokens THEN b
          ELSE [p EXCEPT !.rec[w].state = "decoding"]
  BY <1>4 DEF ChunkDone
<1> HIDE DEF e
<1>7. /\ Whole(b, G) /\ Elsewhere(r, b, {w}) /\ Quietly(r, b) /\ ~e.pending
  <2>1. e.prefilled + e.generated = r.rec[w].prefilled + r.rec[w].generated + E[w].rows
    BY <1>0, <1>3
  <2>2. e.prefilled <= Work[w].prompt_tokens /\ (e.state = "prefill" => e.generated = 0)
        /\ e.generated < Work[w].max_tokens
    BY <1>1, <1>2, <1>3
  <2>3. Rest \in Flight
    BY RecordTypes
  <2>4. E[w].kind # "stateless"
    OBVIOUS
  <2>5. /\ b \in Scheds /\ b.rec = [r.rec EXCEPT ![w] = e] /\ b.cache = r.cache
        /\ b.occupants = r.occupants /\ b.queue = r.queue /\ b.results = r.results
        /\ Quietly(r, b)
    BY <1>0, <1>3 DEF Scheds, Quietly
  <2> HIDE DEF G, a, p, b
  <2>6. /\ Whole(b, [E EXCEPT ![w] = Rest]) /\ Elsewhere(r, b, {w}) /\ ~e.pending
    <3>1. CountedAs(r, w, E[w].rows, e)
      BY <1>3, <2>1, <2>2 DEF CountedAs
    <3>2. RecordIs(r, w, e, b)
      BY <2>5 DEF RecordIs
    <3> QED
      BY <2>2, <2>3, <2>4, <3>1, <3>2, CountKeeps
  <2> QED
    BY <2>5, <2>6 DEF G
<1>8. G[w] = Rest
  BY <1>0 DEF Flights
<1> HIDE DEF b, G, p, a
<1>9. CASE b.rec[w].prefilled # Work[w].prompt_tokens
  BY <1>5, <1>6, <1>7, <1>9 DEF Moved, a, G
<1>10. CASE b.rec[w].prefilled = Work[w].prompt_tokens
  <2> DEFINE z == [p EXCEPT !.rec[w].state = "decoding"]
  <2>1. /\ Whole(p, G) /\ Elsewhere(b, p, {w}) /\ Quietly(b, p) /\ p.rec = b.rec
    <3>1. b.rec[w].slot # NoSlot
      BY <1>1, <1>3, <1>5
    <3> QED
      BY <1>7, <3>1, PromptPrefixKeeps DEF p
  <2>2. /\ p.rec[w].state = "prefill" /\ ~(Work[w].prompt_tokens - p.rec[w].prefilled > 0)
    BY <1>0, <1>1, <1>3, <1>5, <1>10, <2>1
  <2>3. Whole(z, G) /\ Elsewhere(p, z, {w}) /\ ~z.rec[w].pending
    BY <1>8, <2>1, <2>2, SharedInFull
  <2>4. Quietly(p, z)
    <3>1. p \in Scheds
      BY <2>1 DEF Whole
    <3> QED
      BY <3>1 DEF Scheds, Quietly
  <2>5. a = z
    BY <1>6, <1>10
  <2> HIDE DEF z
  <2>6. Elsewhere(b, z, {w}) /\ Quietly(b, z)
    BY <2>1, <2>3, <2>4, MovedOn
  <2>7. Elsewhere(r, z, {w}) /\ Quietly(r, z)
    BY <1>7, <2>6, MovedOn
  <2> QED
    BY <2>3, <2>5, <2>7 DEF Moved, a, G
<1> QED
  BY <1>9, <1>10

(* A token is generated, and may be the last one. *)
LEMMA TokenMoves ==
  ASSUME NEW E, NEW r, Whole(r, E), NEW w \in Works, NEW finished,
         E[w].at = "settling", E[w].kind = "decode"
  PROVE  Moved(E, r, TokenDone(r, finished, w), w)
<1> DEFINE e == [r.rec[w] EXCEPT !.generated = @ + 1]
           b == [r EXCEPT !.rec = [@ EXCEPT ![w] = e]]
           last == w \in finished \/ e.generated >= Work[w].max_tokens
           f == IF last THEN Leaving ELSE Rest
           G == [E EXCEPT ![w] = f]
           a == TokenDone(r, finished, w)
<1>0. /\ r \in Scheds /\ r.rec \in [Works -> Record] /\ r.rec[w] \in Record
      /\ Good(r, w, E[w]) /\ E[w] \in Flight /\ E \in Flights
      /\ r.rec[w].prefilled \in Nat /\ r.rec[w].generated \in Nat
      /\ Work[w].max_tokens \in Nat
  BY Numbers DEF Whole, Scheds, Flights, Record
<1>1. /\ r.rec[w].state = "decoding" /\ E[w].rows = 1 /\ r.rec[w].slot # NoSlot
      /\ r.rec[w].prefilled <= Work[w].prompt_tokens
  BY <1>0 DEF Good, Travelling, Owning
<1>3. /\ e \in Record /\ e.state = r.rec[w].state /\ e.slot = r.rec[w].slot
      /\ e.slot_generation = r.rec[w].slot_generation /\ e.pending = r.rec[w].pending
      /\ e.cancel_requested = r.rec[w].cancel_requested /\ e.prefilled = r.rec[w].prefilled
      /\ e.generated = r.rec[w].generated + 1
  BY <1>0 DEF Record
<1>4. [r EXCEPT !.rec[w].generated = @ + 1] = b
  BY <1>0 DEF Scheds
<1>5. b.rec[w] = e
  BY <1>0 DEF Scheds
<1>6. a = IF last THEN ReleaseAndPublish(b, w, "completed") ELSE b
  BY <1>4, <1>5 DEF TokenDone
<1> HIDE DEF e
<1>7. /\ Whole(b, G) /\ Elsewhere(r, b, {w}) /\ Quietly(r, b) /\ ~e.pending
  <2>1. e.prefilled + e.generated = r.rec[w].prefilled + r.rec[w].generated + E[w].rows
    BY <1>0, <1>1, <1>3
  <2>2. e.prefilled <= Work[w].prompt_tokens /\ (e.state = "prefill" => e.generated = 0)
    BY <1>1, <1>3
  <2>3. /\ f \in Flight /\ (f = Rest \/ f = Leaving)
        /\ e.generated < Work[w].max_tokens \/ f = Leaving
    BY <1>0, <1>3, RecordTypes
  <2>4. E[w].kind # "stateless"
    OBVIOUS
  <2>5. /\ b \in Scheds /\ b.rec = [r.rec EXCEPT ![w] = e] /\ b.cache = r.cache
        /\ b.occupants = r.occupants /\ b.queue = r.queue /\ b.results = r.results
        /\ Quietly(r, b)
    BY <1>0, <1>3 DEF Scheds, Quietly
  <2> HIDE DEF G, a, b, f, last
  <2>6. /\ Whole(b, [E EXCEPT ![w] = f]) /\ Elsewhere(r, b, {w}) /\ ~e.pending
    <3>1. CountedAs(r, w, E[w].rows, e)
      BY <1>3, <2>1, <2>2 DEF CountedAs
    <3>2. RecordIs(r, w, e, b)
      BY <2>5 DEF RecordIs
    <3> QED
      BY <2>3, <2>4, <3>1, <3>2, CountKeeps
  <2> QED
    BY <2>5, <2>6 DEF G
<1> HIDE DEF b, last
<1>9. CASE ~last
  <2>1. G = [E EXCEPT ![w] = Rest] /\ a = b
    BY <1>6, <1>9
  <2> HIDE DEF G, a
  <2> QED
    BY <1>5, <1>7, <2>1 DEF Moved, a
<1>10. CASE last
  <2>1. G = [E EXCEPT ![w] = Leaving] /\ a = ReleaseAndPublish(b, w, "completed")
    BY <1>6, <1>10
  <2>2. [G EXCEPT ![w] = Rest] = [E EXCEPT ![w] = Rest]
    BY <1>0, <2>1 DEF Flights
  <2>3. G[w] = Leaving
    BY <1>0, <2>1 DEF Flights
  <2> HIDE DEF G, a
  <2>4. /\ b.rec[w].state = "decoding" /\ Good(b, w, Leaving) /\ ~b.rec[w].pending
    BY <1>1, <1>3, <1>5, <1>7, <2>3 DEF Whole
  <2>5. w \notin Range(b.queue)
    BY <2>4 DEF Good, Listed
  <2>6. \A s \in Slots : b.rec[w].slot = s /\ Open(b.cache, s) => b.rec[w].pending
    BY <2>4, RecordTypes, Numbers DEF Good, Owning
  <2>7. "completed" \in Terminal /\ b.rec[w].state # "unknown"
    BY <2>4 DEF Terminal
  <2>8. Whole(a, [G EXCEPT ![w] = Rest]) /\ Ended(b, a, w)
    BY <1>7, <2>1, <2>5, <2>6, <2>7, EndKeeps
  <2>9. Elsewhere(r, a, {w}) /\ Quietly(r, a)
    BY <1>7, <2>8, MovedOn DEF Ended
  <2> QED
    BY <2>2, <2>8, <2>9 DEF Moved, Ended, a
<1> QED
  BY <1>9, <1>10

(* A member of a dispatch that succeeded. *)
LEMMA MemberMoves ==
  ASSUME NEW E, NEW r, Whole(r, E), NEW w \in Works, NEW finished, NEW d, d.kind \in Kinds,
         E[w].kind = d.kind, E[w].rows = d.rows,
         E[w].at = IF d.kind = "stateless" THEN "flying" ELSE "settling"
  PROVE  Moved(E, r, SettleMember(r, d, finished, w), w)
<1> DEFINE a == SettleMember(r, d, finished, w)
<1>0. /\ \/ E[w].at = "flying" /\ E[w].kind = "stateless"
         \/ E[w].at = "settling" /\ E[w].kind # "stateless"
      /\ Good(r, w, E[w]) /\ "cancelled" \in Terminal /\ "completed" \in Terminal
  BY DEF Whole, Terminal
<1>1. CASE r.rec[w].cancel_requested \/ r.rec[w].state = "cancelled"
  <2>1. a = ReleaseAndPublish(r, w, "cancelled")
    BY <1>1 DEF SettleMember
  <2>2. Moved(E, r, ReleaseAndPublish(r, w, "cancelled"), w)
    BY <1>0, EndMoves
  <2> QED
    BY <2>1, <2>2
<1>2. CASE ~(r.rec[w].cancel_requested \/ r.rec[w].state = "cancelled")
  <2>1. CASE d.kind = "stateless"
    <3>1. r.rec[w].state \in {"queued"} \cup Terminal
      BY <1>0, <2>1 DEF Good, Travelling
    <3>2. r.rec[w].slot = NoSlot
      BY <1>0, <3>1 DEF Good, Listed, Admitted, Terminal
    <3>3. a = ReleaseAndPublish(r, w, "completed")
      BY <1>2, <2>1, <3>2 DEF SettleMember, ReleaseAndPublish, ReleaseRequest
    <3>4. Moved(E, r, ReleaseAndPublish(r, w, "completed"), w)
      BY <1>0, EndMoves
    <3> QED
      BY <3>3, <3>4
  <2>2. CASE d.kind = "prefill"
    <3>1. a = ChunkDone(r, d, w)
      BY <1>2, <2>2 DEF SettleMember
    <3>2. Moved(E, r, ChunkDone(r, d, w), w)
      BY <2>2, ChunkMoves
    <3> QED
      BY <3>1, <3>2
  <2>3. CASE d.kind = "decode"
    <3>1. a = TokenDone(r, finished, w)
      BY <1>2, <2>3 DEF SettleMember
    <3>2. Moved(E, r, TokenDone(r, finished, w), w)
      BY <2>3, TokenMoves
    <3> QED
      BY <3>1, <3>2
  <2> QED
    BY <2>1, <2>2, <2>3 DEF Kinds
<1> QED
  BY <1>1, <1>2

(* A member of a dispatch that did not, its reservation rolled back. *)
LEMMA GiveMoves ==
  ASSUME NEW E, NEW r, Whole(r, E), NEW w \in Works,
         \/ E[w].at = "flying" /\ E[w].kind = "stateless"
         \/ E[w] = Rest /\ r.rec[w].state \in Admitted
  PROVE  Moved(E, r, GiveUp(r, w), w)
<1> DEFINE st == IF r.rec[w].cancel_requested THEN "cancelled" ELSE "failed"
<1>1. Good(r, w, E[w])
  BY DEF Whole
<1>2. r.rec[w].state # "unknown"
  <2>1. CASE E[w].at = "flying" /\ E[w].kind = "stateless"
    BY <1>1, <2>1 DEF Good, Travelling, Terminal
  <2>2. CASE r.rec[w].state \in Admitted
    BY <2>2 DEF Admitted
  <2> QED
    BY <2>1, <2>2
<1>3. GiveUp(r, w) = ReleaseAndPublish(r, w, st)
  BY <1>2 DEF GiveUp
<1>4. st \in Terminal
  BY DEF Terminal
<1> HIDE DEF st
<1>5. Moved(E, r, ReleaseAndPublish(r, w, st), w)
  BY <1>4, EndMoves
<1> QED
  BY <1>3, <1>5

-----------------------------------------------------------------------------
(* All members, one after the other.                                       *)

(* The works of W have landed, the others are where they were. *)
Settling(q, E, r, W) ==
  Whole(r, Landed(E, W)) /\ Elsewhere(q, r, W) /\ Quietly(q, r) /\ Settled(r)

(* One member more has landed. *)
LEMMA SettlingOn ==
  ASSUME NEW q, NEW E \in Flights, NEW r, NEW W, NEW w \in Works, NEW a, Settling(q, E, r, W),
         Moved(Landed(E, W), r, a, w)
  PROVE  Settling(q, E, a, W \cup {w})
<1>1. [Landed(E, W) EXCEPT ![w] = Rest] = Landed(E, W \cup {w})
  BY DEF Landed
<1>2. /\ Whole(a, [Landed(E, W) EXCEPT ![w] = Rest]) /\ Elsewhere(r, a, {w}) /\ Quietly(r, a)
      /\ ~a.rec[w].pending
  BY DEF Moved
<1>3. Whole(a, Landed(E, W \cup {w}))
  BY <1>1, <1>2, Zenon
<1>4. Elsewhere(q, r, W) /\ Quietly(q, r) /\ Settled(r)
  BY DEF Settling
<1>5. Elsewhere(q, a, W \cup {w}) /\ Quietly(q, a)
  BY <1>2, <1>4, ElsewhereOn DEF Quietly
<1>6. Settled(a)
  BY <1>2, <1>4 DEF Settled, Elsewhere
<1> QED
  BY <1>3, <1>5, <1>6 DEF Settling

(* A list without repetition, member by member. *)
LEMMA FirstSteps ==
  ASSUME NEW members \in Seq(Works), IsInjective(members)
  PROVE  /\ Len(members) \in Nat /\ DOMAIN members = 1 .. Len(members)
         /\ Range(members) = First(members, Len(members)) /\ First(members, 0) = {}
         /\ Range(members) \in SUBSET Works
         /\ \A i \in 1 .. Len(members) :
              /\ members[i] \in Works /\ members[i] \in Range(members)
              /\ members[i] \notin First(members, i - 1)
              /\ First(members, i) = First(members, i - 1) \cup {members[i]}
<1> DEFINE n == Len(members)
<1>1. n \in Nat /\ DOMAIN members = 1 .. n
  OBVIOUS
<1> HIDE DEF n
<1>2. Range(members) = First(members, n) /\ First(members, 0) = {}
  BY <1>1 DEF Range, First
<1>3. \A i \in 1 .. n : members[i] \in Works /\ members[i] \in Range(members)
  BY <1>1 DEF Range, n
<1>4. ASSUME NEW i \in 1 .. n
      PROVE  /\ members[i] \notin First(members, i - 1)
             /\ First(members, i) = First(members, i - 1) \cup {members[i]}
  <2>1. 1 .. i = (1 .. i - 1) \cup {i} /\ \A j \in 1 .. i : j \in 1 .. n
    BY <1>1
  <2>2. First(members, i) = First(members, i - 1) \cup {members[i]}
    BY <2>1 DEF First
  <2>3. members[i] \notin First(members, i - 1)
    BY <1>1, <2>1 DEF First, IsInjective
  <2> QED
    BY <2>2, <2>3
<1>6. Range(members) \in SUBSET Works
  BY <1>1 DEF Range, n
<1> QED
  BY <1>1, <1>2, <1>3, <1>4, <1>6 DEF n

(* Nobody has moved yet. *)
LEMMA SettlingStarts ==
  ASSUME NEW q, NEW E, Whole(q, E), Settled(q)
  PROVE  Settling(q, E, q, {})
<1>1. Landed(E, {}) = E
  BY DEF Landed, Whole, Flights
<1>2. Whole(q, Landed(E, {}))
  BY <1>1, Zenon
<1> QED
  BY <1>2 DEF Settling, Elsewhere, Quietly, Untouched

GiveOp(members, i, r) == GiveUp(r, members[i])
GiveFold == INSTANCE Folding WITH Op <- GiveOp, Choose <- Max

(* All members of a dispatch that failed are given up. *)
LEMMA GiveKeeps ==
  ASSUME NEW q, NEW E, Whole(q, E), Settled(q), NEW members \in Seq(Works), IsInjective(members),
         \A w \in Range(members) : \/ E[w].at = "flying" /\ E[w].kind = "stateless"
                                   \/ E[w] = Rest /\ q.rec[w].state \in Admitted
  PROVE  Settling(q, E, FoldLeft(GiveUp, q, members), Range(members))
<1> DEFINE n == Len(members)
           H == [i \in 0 .. n |-> {r \in Scheds : Settling(q, E, r, First(members, i))}]
           end == GiveFold!Fold(members, q, 1 .. n)[1 .. n]
<1>0. E \in Flights /\ q \in Scheds
  BY DEF Whole
<1>1. /\ n \in Nat /\ DOMAIN members = 1 .. n
      /\ Range(members) = First(members, n) /\ First(members, 0) = {}
      /\ \A i \in 1 .. n :
           /\ members[i] \in Works /\ members[i] \in Range(members)
           /\ members[i] \notin First(members, i - 1)
           /\ First(members, i) = First(members, i - 1) \cup {members[i]}
  BY FirstSteps
<1> HIDE DEF n
<1>2. FoldLeft(GiveUp, q, members) = end
  BY <1>1 DEF FoldLeft, MapThenFoldSet, GiveFold!Fold, GiveFold!Iteration, GiveOp
<1>3. q \in H[0]
  <2>1. Settling(q, E, q, {})
    BY SettlingStarts
  <2>2. Settling(q, E, q, First(members, 0))
    BY <1>1, <2>1, Zenon
  <2> QED
    BY <1>0, <1>1, <2>2
<1>4. ASSUME NEW i \in 1 .. n, NEW r \in H[i - 1]
      PROVE  GiveOp(members, i, r) \in H[i]
  <2> DEFINE w == members[i]  W == First(members, i - 1)  a == GiveUp(r, w)
  <2>1. i - 1 \in 0 .. n /\ i \in 0 .. n
    BY <1>1
  <2>2. r \in Scheds /\ Settling(q, E, r, W)
    BY <2>1
  <2>3. /\ w \in Works /\ w \in Range(members) /\ w \notin W
        /\ First(members, i) = W \cup {w}
    BY <1>1
  <2> HIDE DEF w, W, H, a
  <2>4. Landed(E, W)[w] = E[w] /\ r.rec[w] = q.rec[w] /\ Whole(r, Landed(E, W))
    BY <2>2, <2>3 DEF Landed, Settling, Elsewhere
  <2>5. Moved(Landed(E, W), r, a, w)
    BY <2>3, <2>4, GiveMoves DEF a
  <2>6. Settling(q, E, a, W \cup {w})
    BY <1>0, <2>2, <2>3, <2>5, SettlingOn
  <2>7. Settling(q, E, a, First(members, i)) /\ a \in Scheds
    <3>1. Settling(q, E, a, First(members, i))
      BY <2>3, <2>6, Zenon
    <3> QED
      BY <3>1 DEF Settling, Whole
  <2> QED
    BY <2>1, <2>7 DEF GiveOp, H, a, w
<1> HIDE DEF H
<1>5. end \in H[n]
  BY <1>1, <1>3, <1>4, Greatest, GiveFold!InOrder DEF Grounded, GiveFold!Grounded
<1> HIDE DEF end
<1>6. Settling(q, E, end, First(members, n))
  BY <1>1, <1>5 DEF H
<1> QED
  BY <1>1, <1>2, <1>6, Zenon

MemberOp(p, i, r) == SettleMember(r, p.d, p.finished, p.d.members[i])
MemberFold == INSTANCE Folding WITH Op <- MemberOp, Choose <- Max

(* All members of a dispatch advance. *)
Advance(q, d, finished) == FoldLeft(LAMBDA r, w : SettleMember(r, d, finished, w), q, d.members)

(* All members of a dispatch that succeeded advance. *)
LEMMA MembersKeep ==
  ASSUME NEW q, NEW E, Whole(q, E), Settled(q), NEW d \in Dispatches, IsInjective(d.members),
         NEW finished,
         \A w \in Range(d.members) :
           /\ E[w].kind = d.kind /\ E[w].rows = d.rows
           /\ E[w].at = IF d.kind = "stateless" THEN "flying" ELSE "settling"
  PROVE  Settling(q, E, Advance(q, d, finished), Range(d.members))
<1> DEFINE members == d.members  n == Len(members)  p == [d |-> d, finished |-> finished]
           H == [i \in 0 .. n |-> {r \in Scheds : Settling(q, E, r, First(members, i))}]
           end == MemberFold!Fold(p, q, 1 .. n)[1 .. n]
<1>0. E \in Flights /\ q \in Scheds /\ members \in Seq(Works) /\ d.kind \in Kinds
  BY DEF Whole, Dispatches, Kinds
<1>1. /\ n \in Nat /\ DOMAIN members = 1 .. n
      /\ Range(members) = First(members, n) /\ First(members, 0) = {}
      /\ \A i \in 1 .. n :
           /\ members[i] \in Works /\ members[i] \in Range(members)
           /\ members[i] \notin First(members, i - 1)
           /\ First(members, i) = First(members, i - 1) \cup {members[i]}
  BY <1>0, FirstSteps
<1> HIDE DEF n
<1>2. Advance(q, d, finished) = end
  BY <1>1 DEF Advance, FoldLeft, MapThenFoldSet, MemberFold!Fold, MemberFold!Iteration, MemberOp
<1> HIDE DEF members
<1>3. q \in H[0]
  <2>1. Settling(q, E, q, {})
    BY SettlingStarts
  <2>2. Settling(q, E, q, First(members, 0))
    BY <1>1, <2>1, Zenon
  <2> QED
    BY <1>0, <1>1, <2>2
<1>4. ASSUME NEW i \in 1 .. n, NEW r \in H[i - 1]
      PROVE  MemberOp(p, i, r) \in H[i]
  <2> DEFINE w == members[i]  W == First(members, i - 1)  a == SettleMember(r, d, finished, w)
  <2>1. i - 1 \in 0 .. n /\ i \in 0 .. n
    BY <1>1
  <2>2. r \in Scheds /\ Settling(q, E, r, W)
    BY <2>1
  <2>3. /\ w \in Works /\ w \in Range(members) /\ w \notin W
        /\ First(members, i) = W \cup {w}
    BY <1>1
  <2>8. MemberOp(p, i, r) = a
    BY DEF MemberOp, members
  <2> HIDE DEF w, W, H, a, p
  <2>4. Landed(E, W)[w] = E[w] /\ Whole(r, Landed(E, W))
    BY <2>2, <2>3 DEF Landed, Settling
  <2>5. Moved(Landed(E, W), r, a, w)
    <3>1. /\ E[w].kind = d.kind /\ E[w].rows = d.rows
          /\ E[w].at = IF d.kind = "stateless" THEN "flying" ELSE "settling"
      BY <2>3 DEF members
    <3> QED
      BY <1>0, <2>3, <2>4, <3>1, MemberMoves DEF a
  <2>6. Settling(q, E, a, W \cup {w})
    BY <1>0, <2>2, <2>3, <2>5, SettlingOn
  <2>7. Settling(q, E, a, First(members, i)) /\ a \in Scheds
    <3>1. Settling(q, E, a, First(members, i))
      BY <2>3, <2>6, Zenon
    <3> QED
      BY <3>1 DEF Settling, Whole
  <2> QED
    BY <2>1, <2>7, <2>8 DEF H
<1> HIDE DEF H, p
<1>5. end \in H[n]
  BY <1>1, <1>3, <1>4, Greatest, MemberFold!InOrder DEF Grounded, MemberFold!Grounded
<1> HIDE DEF end
<1>6. Settling(q, E, end, First(members, n))
  BY <1>1, <1>5 DEF H
<1>7. Settling(q, E, end, Range(members))
  BY <1>1, <1>6, Zenon
<1>8. Settling(q, E, Advance(q, d, finished), Range(members))
  BY <1>2, <1>7, Zenon
<1> QED
  BY <1>8 DEF members

(* The works of a dispatch fly as it says. *)
Aboard(F, d) ==
  /\ d \in Dispatches /\ Made(d) /\ IsInjective(d.members)
  /\ \A m \in DOMAIN d.members : F[d.members[m]] = FlightOf(d, m)

(* The slots of a dispatch are those of its members, and open. *)
LEMMA SlotsSeen ==
  ASSUME NEW q, NEW F, Whole(q, F), NEW d, Aboard(F, d),
         NEW W, W = IF d.kind = "stateless" THEN {} ELSE Range(d.members)
  PROVE  /\ (IF d.kind = "stateless" THEN {} ELSE Range(d.slot)) = {F[w].slot : w \in W}
         /\ W \in SUBSET Works
         /\ \A w \in W : /\ F[w].at = "flying" /\ F[w].kind # "stateless"
                         /\ q.rec[w].state \in Admitted
                         /\ F[w].slot \in Slots /\ Open(q.cache, F[w].slot)
         /\ \A w \in Range(d.members) : /\ F[w].at = "flying" /\ F[w].kind = d.kind
                                        /\ F[w].rows = d.rows
<1>0. /\ DOMAIN d.members = 1 .. Len(d.members) /\ DOMAIN d.slot = 1 .. Len(d.members)
      /\ \A m \in DOMAIN d.members : d.members[m] \in Works /\ F[d.members[m]] = FlightOf(d, m)
  BY DEF Aboard, Made, Dispatches
<1>1. \A m \in DOMAIN d.members :
        LET f == FlightOf(d, m)
        IN  f.at = "flying" /\ f.kind = d.kind /\ f.rows = d.rows /\ f.slot = d.slot[m]
  BY DEF FlightOf
<1>2. \A w \in Range(d.members) :
        w \in Works /\ F[w].at = "flying" /\ F[w].kind = d.kind /\ F[w].rows = d.rows
  BY <1>0, <1>1 DEF Range
<1>3. CASE d.kind = "stateless"
  <2>1. W = {}
    BY <1>3
  <2>2. {F[w].slot : w \in W} = {}
    BY <2>1
  <2> QED
    BY <1>2, <1>3, <2>1, <2>2
<1>4. CASE d.kind # "stateless"
  <2>1. W = Range(d.members)
    BY <1>4
  <2>2. Range(d.slot) = {F[w].slot : w \in W}
    BY <1>0, <1>1, <2>1 DEF Range
  <2>3. ASSUME NEW w \in W
        PROVE  /\ F[w].at = "flying" /\ F[w].kind # "stateless" /\ w \in Works
               /\ q.rec[w].state \in Admitted /\ F[w].slot \in Slots /\ Open(q.cache, F[w].slot)
    <3>1. w \in Works /\ F[w].at = "flying" /\ F[w].kind # "stateless"
      BY <1>2, <1>4, <2>1
    <3>2. Good(q, w, F[w]) /\ q.rec[w] \in Record
      BY <3>1 DEF Whole, Scheds
    <3>3. F[w].slot # NoSlot /\ q.rec[w].slot = F[w].slot /\ q.rec[w].state \in Admitted
      BY <3>1, <3>2 DEF Good, Travelling, Admitted
    <3> QED
      BY <3>1, <3>2, <3>3 DEF Good, Owning, Record
  <2> QED
    BY <1>2, <1>4, <2>1, <2>2, <2>3
<1> QED
  BY <1>3, <1>4

(* The dispatch succeeded: its reservations are committed. *)
LEMMA AdvanceKeeps ==
  ASSUME NEW q, NEW F, Whole(q, F), Settled(q), NEW d, Aboard(F, d), NEW finished,
         NEW S, S = IF d.kind = "stateless" THEN {} ELSE Range(d.slot)
  PROVE  Settling(q, F, Advance([q EXCEPT !.cache = Commit(@, S)], d, finished),
                  Range(d.members))
<1> DEFINE R == Range(d.members)  W == IF d.kind = "stateless" THEN {} ELSE R
           c == Commit(q.cache, S)  b == [q EXCEPT !.cache = c]  E == Counting(F, W)
           r == Advance(b, d, finished)
<1>0. /\ q \in Scheds /\ Sound(q.cache) /\ F \in Flights /\ d \in Dispatches
      /\ IsInjective(d.members) /\ R \in SUBSET Works /\ W \subseteq R
  <2>1. d \in Dispatches /\ IsInjective(d.members) /\ d.members \in Seq(Works)
    BY DEF Aboard, Dispatches
  <2>2. R \in SUBSET Works
    BY <2>1 DEF Range
  <2> QED
    BY <2>1, <2>2 DEF Whole
<1>1. /\ S = {F[w].slot : w \in W} /\ W \in SUBSET Works
      /\ \A w \in W : /\ F[w].at = "flying" /\ F[w].kind # "stateless"
                      /\ F[w].slot \in Slots
      /\ \A w \in R : /\ F[w].at = "flying" /\ F[w].kind = d.kind /\ F[w].rows = d.rows
  <2>1. W = IF d.kind = "stateless" THEN {} ELSE Range(d.members)
    OBVIOUS
  <2> HIDE DEF c, b, E, r, W
  <2>2. /\ (IF d.kind = "stateless" THEN {} ELSE Range(d.slot)) = {F[w].slot : w \in W}
        /\ W \in SUBSET Works
        /\ \A w \in W : /\ F[w].at = "flying" /\ F[w].kind # "stateless"
                        /\ q.rec[w].state \in Admitted
                        /\ F[w].slot \in Slots /\ Open(q.cache, F[w].slot)
        /\ \A w \in Range(d.members) : /\ F[w].at = "flying" /\ F[w].kind = d.kind
                                       /\ F[w].rows = d.rows
    BY <2>1, SlotsSeen
  <2> QED
    BY <2>2
<1>2. S \in SUBSET Slots
  BY <1>1
<1>3. Sound(c)
  BY <1>0, <1>2, CommitSeen
<1>4. c = Commit(q.cache, {F[w].slot : w \in W})
  BY <1>1, Zenon
<1> HIDE DEF c
<1>5. /\ b \in Scheds /\ b.cache = c /\ b.rec = q.rec /\ b.occupants = q.occupants
      /\ b.queue = q.queue /\ b.results = q.results /\ b.requests = q.requests /\ Quietly(q, b)
  BY <1>0, <1>3 DEF Sound, Scheds, Quietly
<1>6. \A w \in R : /\ E[w].kind = d.kind /\ E[w].rows = d.rows
                   /\ E[w].at = IF d.kind = "stateless" THEN "flying" ELSE "settling"
  <2> TAKE w \in R
  <2>1. F[w] \in Flight /\ w \in Works
    BY <1>0 DEF Flights
  <2>2. CASE d.kind = "stateless"
    <3>1. E[w] = F[w]
      BY <2>1, <2>2 DEF Counting
    <3> QED
      BY <1>1, <2>2, <3>1
  <2>3. CASE d.kind # "stateless"
    <3>1. E[w] = [F[w] EXCEPT !.at = "settling"]
      BY <2>1, <2>3 DEF Counting
    <3> QED
      BY <1>1, <2>1, <2>3, <3>1 DEF Flight
  <2> QED
    BY <2>2, <2>3
<1>7. Landed(E, R) = Landed(F, R)
  BY <1>0 DEF Landed, Counting
<1>12. r = Advance(b, d, finished)
  OBVIOUS
<1>13. b.cache = Commit(q.cache, {F[w].slot : w \in W})
  BY <1>4, <1>5, Zenon
<1>14. b.requests = q.requests /\ b.queue = q.queue /\ W \in SUBSET Works /\ b \in Scheds
  BY <1>1, <1>5
<1> HIDE DEF b, W, R, E, r
<1>8. Whole(b, E) /\ Elsewhere(q, b, W)
  <2>1. Whole(b, Counting(F, W)) /\ Elsewhere(q, b, W)
    BY <1>1, <1>5, <1>13, <1>14, CommitKeeps
  <2> QED
    BY <2>1 DEF E
<1>9. Settled(b)
  BY <1>5 DEF Settled
<1>10. Settling(b, E, r, R)
  <2>1. Settling(b, E, Advance(b, d, finished), Range(d.members))
    BY <1>0, <1>6, <1>8, <1>9, MembersKeep DEF R
  <2> QED
    BY <1>12, <2>1, Zenon DEF R
<1>11. Settling(q, F, r, R)
  <2>1. Whole(r, Landed(E, R)) /\ Elsewhere(b, r, R) /\ Quietly(b, r) /\ Settled(r)
    BY <1>10 DEF Settling
  <2>2. Whole(r, Landed(F, R))
    BY <1>7, <2>1, Zenon
  <2>3. W \cup R = R
    BY <1>0
  <2>4. Elsewhere(q, r, W \cup R)
    BY <1>8, <2>1, ElsewhereOn
  <2>5. Elsewhere(q, r, R)
    BY <2>3, <2>4, Zenon
  <2> QED
    BY <1>5, <2>1, <2>2, <2>5 DEF Settling, Quietly
<1> QED
  BY <1>11 DEF r, b, R, c

(* It did not: they are rolled back. *)
LEMMA ReturnKeeps ==
  ASSUME NEW q, NEW F, Whole(q, F), Settled(q), NEW d, Aboard(F, d),
         NEW S, S = IF d.kind = "stateless" THEN {} ELSE Range(d.slot)
  PROVE  Settling(q, F, FoldLeft(GiveUp, [q EXCEPT !.cache = IF RollbackOK(@, S)
                                                            THEN Rollback(@, S) ELSE @],
                                 d.members),
                  Range(d.members))
<1> DEFINE R == Range(d.members)  W == IF d.kind = "stateless" THEN {} ELSE R
           c == Rollback(q.cache, S)  E == Landed(F, W)
           b == [q EXCEPT !.cache = IF RollbackOK(@, S) THEN Rollback(@, S) ELSE @]
           r == FoldLeft(GiveUp, b, d.members)
<1>0. /\ q \in Scheds /\ Sound(q.cache) /\ F \in Flights /\ d.members \in Seq(Works)
      /\ IsInjective(d.members) /\ R \in SUBSET Works /\ W \subseteq R
  <2>1. d.members \in Seq(Works) /\ IsInjective(d.members)
    BY DEF Aboard, Dispatches
  <2>2. R \in SUBSET Works
    BY <2>1 DEF Range
  <2> QED
    BY <2>1, <2>2 DEF Whole
<1>1. /\ S = {F[w].slot : w \in W} /\ W \in SUBSET Works
      /\ \A w \in W : /\ F[w].at = "flying" /\ F[w].kind # "stateless"
                      /\ q.rec[w].state \in Admitted
                      /\ F[w].slot \in Slots /\ Open(q.cache, F[w].slot)
      /\ \A w \in R : /\ F[w].at = "flying" /\ F[w].kind = d.kind /\ F[w].rows = d.rows
  <2>1. W = IF d.kind = "stateless" THEN {} ELSE Range(d.members)
    OBVIOUS
  <2> HIDE DEF c, b, E, r, W
  <2>2. /\ (IF d.kind = "stateless" THEN {} ELSE Range(d.slot)) = {F[w].slot : w \in W}
        /\ W \in SUBSET Works
        /\ \A w \in W : /\ F[w].at = "flying" /\ F[w].kind # "stateless"
                        /\ q.rec[w].state \in Admitted
                        /\ F[w].slot \in Slots /\ Open(q.cache, F[w].slot)
        /\ \A w \in Range(d.members) : /\ F[w].at = "flying" /\ F[w].kind = d.kind
                                       /\ F[w].rows = d.rows
    BY <2>1, SlotsSeen
  <2> QED
    BY <2>2
<1>2. S \in SUBSET Slots /\ S \in SUBSET {s \in Slots : Open(q.cache, s)}
  BY <1>1
<1>3. Sound(c) /\ RollbackOK(q.cache, S)
  BY <1>0, <1>2, RollbackSeen, OpenSettles DEF RollbackOK
<1>4. c = Rollback(q.cache, {F[w].slot : w \in W})
  BY <1>1, Zenon
<1>5. /\ b \in Scheds /\ b.cache = c /\ b.rec = q.rec /\ b.occupants = q.occupants
      /\ b.queue = q.queue /\ b.results = q.results /\ b.requests = q.requests /\ Quietly(q, b)
  <2>1. b = [q EXCEPT !.cache = c]
    BY <1>3
  <2> HIDE DEF c, b
  <2> QED
    BY <1>0, <1>3, <2>1 DEF Sound, Scheds, Quietly
<1> HIDE DEF c
<1>6. \A w \in R : \/ E[w].at = "flying" /\ E[w].kind = "stateless"
                   \/ E[w] = Rest /\ b.rec[w].state \in Admitted
  <2> TAKE w \in R
  <2>1. w \in Works
    BY <1>0
  <2>2. CASE d.kind = "stateless"
    <3>1. E[w] = F[w]
      BY <2>1, <2>2 DEF Landed
    <3> QED
      BY <1>1, <2>2, <3>1
  <2>3. CASE d.kind # "stateless"
    <3>1. E[w] = Rest
      BY <2>1, <2>3 DEF Landed
    <3> QED
      BY <1>1, <1>5, <2>3, <3>1
  <2> QED
    BY <2>2, <2>3
<1>7. Landed(E, R) = Landed(F, R)
  BY <1>0 DEF Landed
<1>12. r = FoldLeft(GiveUp, b, d.members)
  OBVIOUS
<1>13. b.cache = Rollback(q.cache, {F[w].slot : w \in W})
  BY <1>4, <1>5, Zenon
<1>14. b.requests = q.requests /\ b.queue = q.queue /\ W \in SUBSET Works /\ b \in Scheds
  BY <1>1, <1>5
<1> HIDE DEF b, W, R, E, r
<1>8. Whole(b, E) /\ Elsewhere(q, b, W)
  <2>1. Whole(b, Landed(F, W)) /\ Elsewhere(q, b, W)
    BY <1>1, <1>5, <1>13, <1>14, TurnBack
  <2> QED
    BY <2>1 DEF E
<1>9. Settled(b)
  BY <1>5 DEF Settled
<1>10. Settling(b, E, r, R)
  <2>1. Settling(b, E, FoldLeft(GiveUp, b, d.members), Range(d.members))
    BY <1>0, <1>6, <1>8, <1>9, GiveKeeps DEF R
  <2> QED
    BY <1>12, <2>1, Zenon DEF R
<1>11. Settling(q, F, r, R)
  <2>1. Whole(r, Landed(E, R)) /\ Elsewhere(b, r, R) /\ Quietly(b, r) /\ Settled(r)
    BY <1>10 DEF Settling
  <2>2. Whole(r, Landed(F, R))
    BY <1>7, <2>1, Zenon
  <2>3. W \cup R = R
    BY <1>0
  <2>4. Elsewhere(q, r, W \cup R)
    BY <1>8, <2>1, ElsewhereOn
  <2>5. Elsewhere(q, r, R)
    BY <2>3, <2>4, Zenon
  <2> QED
    BY <1>5, <2>1, <2>2, <2>5 DEF Settling, Quietly
<1> QED
  BY <1>11 DEF r, b, R

(* batch_settle_dispatch *)
LEMMA SettleKeeps ==
  ASSUME NEW q, NEW F, Whole(q, F), Settled(q), NEW d, Aboard(F, d), NEW ok, NEW finished
  PROVE  Settling(q, F, Settle(q, d, ok, finished), Range(d.members))
<1> DEFINE S == IF d.kind = "stateless" THEN {} ELSE Range(d.slot)
           good == /\ ok
                   /\ \A i \in DOMAIN d.members : StillOwned(q, d, i)
                   /\ CommitOK(q.cache, S)
           b == Advance([q EXCEPT !.cache = Commit(@, S)], d, finished)
           c == FoldLeft(GiveUp, [q EXCEPT !.cache = IF RollbackOK(@, S)
                                                    THEN Rollback(@, S) ELSE @], d.members)
<1>1. Settle(q, d, ok, finished) = IF good THEN b ELSE c
  BY DEF Settle, Advance
<1>2. Settling(q, F, b, Range(d.members))
  BY AdvanceKeeps
<1>3. Settling(q, F, c, Range(d.members))
  BY ReturnKeeps
<1> HIDE DEF good, b, c
<1>4. CASE good
  BY <1>1, <1>2, <1>4
<1>5. CASE ~good
  BY <1>1, <1>3, <1>5
<1> QED
  BY <1>4, <1>5

(* The works of the first dispatches. *)
Sailed(P, i) == UNION {Range(P[j].members) : j \in 1 .. i}

(* Each of the pending dispatches still carries its members when those     *)
(* before it are settled.                                                  *)
LEMMA AboardOn ==
  ASSUME NEW P \in Seq(Dispatches), NEW F, Carried(P, F), NEW i \in 1 .. Len(P)
  PROVE  /\ Aboard(F, P[i]) /\ Range(P[i].members) \in SUBSET Works
         /\ Range(P[i].members) \cap Sailed(P, i - 1) = {}
         /\ Sailed(P, i) = Sailed(P, i - 1) \cup Range(P[i].members)
<1>0. /\ DOMAIN P = 1 .. Len(P) /\ Len(P) \in Nat /\ i \in DOMAIN P /\ P[i] \in Dispatches
      /\ \A j \in 1 .. i - 1 : j \in DOMAIN P /\ j # i
  OBVIOUS
<1>1. /\ \A j \in DOMAIN P : Made(P[j])
      /\ \A j \in DOMAIN P : \A m \in DOMAIN P[j].members : F[P[j].members[m]] = FlightOf(P[j], m)
      /\ \A j, k \in DOMAIN P : \A m \in DOMAIN P[j].members, n \in DOMAIN P[k].members :
           P[j].members[m] = P[k].members[n] => j = k /\ m = n
  BY DEF Carried
<1>2. IsInjective(P[i].members)
  BY <1>0, <1>1 DEF IsInjective
<1>3. Aboard(F, P[i])
  BY <1>0, <1>1, <1>2 DEF Aboard
<1>4. Range(P[i].members) \in SUBSET Works
  <2>1. P[i].members \in Seq(Works)
    BY <1>0 DEF Dispatches
  <2> QED
    BY <2>1 DEF Range
<1>5. ASSUME NEW w, w \in Range(P[i].members), w \in Sailed(P, i - 1) PROVE FALSE
  <2>1. PICK j \in 1 .. i - 1 : w \in Range(P[j].members)
    BY <1>5 DEF Sailed
  <2>2. PICK m \in DOMAIN P[i].members, n \in DOMAIN P[j].members :
          P[i].members[m] = w /\ P[j].members[n] = w
    BY <1>5, <2>1 DEF Range
  <2> QED
    BY <1>0, <1>1, <2>2
<1>6. Sailed(P, i) = Sailed(P, i - 1) \cup Range(P[i].members)
  <2>1. 1 .. i = (1 .. i - 1) \cup {i}
    BY <1>0
  <2> QED
    BY <2>1 DEF Sailed
<1> QED
  BY <1>3, <1>4, <1>5, <1>6

(* Once the first dispatch is settled the others carry their members. *)
LEMMA CarriedTail ==
  ASSUME NEW P \in Seq(Dispatches), P # <<>>, NEW F \in Flights, Carried(P, F)
  PROVE  Carried(Tail(P), Landed(F, Range(P[1].members)))
<1> DEFINE T == Tail(P)  W == Range(P[1].members)  G == Landed(F, W)
<1>0. /\ DOMAIN T = 1 .. Len(P) - 1 /\ DOMAIN P = 1 .. Len(P) /\ Len(P) \in Nat /\ Len(P) > 0
      /\ \A i \in 1 .. Len(P) - 1 : T[i] = P[i + 1]
  BY TailSeen
<1>1. /\ \A i \in DOMAIN T : i + 1 \in DOMAIN P /\ i + 1 # 1 /\ T[i] = P[i + 1]
      /\ 1 \in DOMAIN P
      /\ \A i \in DOMAIN P : P[i] \in Dispatches /\ (i = 1 \/ (i - 1 \in DOMAIN T /\ T[i - 1] = P[i]))
  BY <1>0
<1>2. /\ \A j \in DOMAIN P : Made(P[j])
      /\ \A j \in DOMAIN P : \A m \in DOMAIN P[j].members : F[P[j].members[m]] = FlightOf(P[j], m)
      /\ \A j, k \in DOMAIN P : \A m \in DOMAIN P[j].members, n \in DOMAIN P[k].members :
           P[j].members[m] = P[k].members[n] => j = k /\ m = n
      /\ \A w \in Works : F[w] # Rest =>
           \E j \in DOMAIN P : \E m \in DOMAIN P[j].members : P[j].members[m] = w
  BY DEF Carried
<1> HIDE DEF T, W
<1>3. \A i \in DOMAIN T : Made(T[i])
  BY <1>1, <1>2
<1>4. ASSUME NEW i \in DOMAIN T, NEW m \in DOMAIN T[i].members
      PROVE  G[T[i].members[m]] = FlightOf(T[i], m)
  <2> DEFINE j == i + 1  w == P[j].members[m]
  <2>1. j \in DOMAIN P /\ j # 1 /\ T[i] = P[j] /\ m \in DOMAIN P[j].members /\ P[j] \in Dispatches
    BY <1>1
  <2> HIDE DEF j
  <2>2. w \notin W
    <3> SUFFICES ASSUME w \in W PROVE FALSE
      OBVIOUS
    <3>1. PICK n \in DOMAIN P[1].members : P[1].members[n] = w
      BY DEF W, Range
    <3> QED
      BY <1>1, <1>2, <2>1, <3>1
  <2>3. w \in Works
    BY <2>1 DEF Dispatches
  <2>4. F[w] = FlightOf(P[j], m)
    BY <1>2, <2>1
  <2>5. G[w] = F[w]
    BY <2>2, <2>3 DEF Landed
  <2> QED
    BY <2>1, <2>4, <2>5
<1>5. ASSUME NEW i \in DOMAIN T, NEW j \in DOMAIN T, NEW m \in DOMAIN T[i].members,
             NEW n \in DOMAIN T[j].members, T[i].members[m] = T[j].members[n]
      PROVE  i = j /\ m = n
  <2>1. i + 1 = j + 1 /\ m = n
    BY <1>1, <1>2, <1>5
  <2> QED
    BY <1>0, <2>1
<1>6. ASSUME NEW w \in Works, G[w] # Rest
      PROVE  \E i \in DOMAIN T : \E m \in DOMAIN T[i].members : T[i].members[m] = w
  <2>1. w \notin W /\ F[w] # Rest
    BY <1>6 DEF Landed
  <2>2. PICK j \in DOMAIN P : \E m \in DOMAIN P[j].members : P[j].members[m] = w
    BY <1>2, <2>1
  <2>3. j # 1
    BY <2>1, <2>2 DEF W, Range
  <2> QED
    BY <1>1, <2>2, <2>3
<1> QED
  BY <1>3, <1>4, <1>5, <1>6 DEF Carried, T, W

(* Nothing is pending and everybody is at rest. *)
LEMMA RestCarried == Carried(<<>>, AllRest)
<1>1. \A w \in Works : AllRest[w] = Rest
  BY DEF AllRest
<1> QED
  BY <1>1 DEF Carried

(* The end of a round leaves the scheduler as the next call expects it. *)
LEMMA FinishSane ==
  ASSUME NEW q, Whole(q, AllRest), Settled(q), q.pending = <<>>
  PROVE  Sane(FinishRound(q))
<1> DEFINE r == FinishRound(q)
<1>1. /\ Whole(r, AllRest) /\ Settled(r) /\ Between(r) /\ r.in_round = FALSE
      /\ r.pending = q.pending
  BY FinishKeeps
<1> HIDE DEF r
<1>2. Carried(r.pending, AllRest)
  BY <1>1, RestCarried
<1> QED
  BY <1>1, <1>2, RecordTypes DEF Sane, r

(* vx_batch_scheduler_complete *)
LEMMA CompleteKeeps ==
  ASSUME NEW q, Sane(q), q.pending # <<>>, NEW ok, NEW finished,
         NEW settled, settled = [Settle(q, Head(q.pending), ok, finished)
                                   EXCEPT !.pending = Tail(@)]
  PROVE  Sane(IF settled.pending = <<>> THEN FinishRound(settled) ELSE settled)
<1> DEFINE P == q.pending  d == P[1]  b == Settle(q, d, ok, finished)  R == Range(d.members)
<1>1. PICK F \in Flights : Whole(q, F) /\ Carried(P, F)
  BY DEF Sane
<1>2. P \in Seq(Dispatches) /\ Head(P) = d /\ 1 \in 1 .. Len(P) /\ P # <<>>
      /\ Tail(P) \in Seq(Dispatches)
  <2>1. P \in Seq(Dispatches)
    BY <1>1 DEF Whole, Scheds
  <2> QED
    BY <2>1, TailSeen
<1>3. Settled(q) /\ q.in_round = TRUE
  <2>1. q.in_round \in BOOLEAN
    BY <1>1 DEF Whole, Scheds
  <2> QED
    BY <2>1 DEF Sane
<1>4. Aboard(F, d)
  BY <1>1, <1>2, AboardOn
<1> HIDE DEF P, d
<1>5. Settling(q, F, b, R)
  BY <1>1, <1>3, <1>4, SettleKeeps
<1> DEFINE G == Landed(F, R)
<1>6. Carried(Tail(P), G)
  BY <1>1, <1>2, CarriedTail DEF d
<1>7. settled = [b EXCEPT !.pending = Tail(@)]
  BY <1>2 DEF P
<1> HIDE DEF b, R, G
<1>8. /\ Whole(b, G) /\ b.pending = P /\ b.in_round = TRUE /\ Settled(b) /\ b \in Scheds
  BY <1>3, <1>5 DEF Settling, Quietly, Whole, P, G
<1>9. /\ settled \in Scheds /\ settled.cache = b.cache /\ settled.rec = b.rec
      /\ settled.requests = b.requests /\ settled.queue = b.queue
      /\ settled.results = b.results /\ settled.occupants = b.occupants
      /\ settled.pending = Tail(P) /\ settled.in_round = TRUE
  BY <1>2, <1>7, <1>8 DEF Scheds
<1>10. /\ Whole(settled, G) /\ Settled(settled) /\ G \in Flights
  BY <1>8, <1>9, WholeBesides DEF Settled, Whole
<1>11. CASE Tail(P) = <<>>
  <2>1. G = AllRest
    BY <1>6, <1>10, <1>11, NothingCarried
  <2>2. Sane(FinishRound(settled))
    BY <1>9, <1>10, <1>11, <2>1, FinishSane
  <2> QED
    BY <1>9, <1>11, <2>2
<1>12. CASE Tail(P) # <<>>
  <2>1. Carried(settled.pending, G)
    BY <1>6, <1>9
  <2>2. Sane(settled)
    BY <1>9, <1>10, <1>12, <2>1 DEF Sane
  <2> QED
    BY <1>9, <1>12, <2>2
<1> QED
  BY <1>11, <1>12

-----------------------------------------------------------------------------
(* The scheduler is closed.                                                *)

(* The queue is emptied: its works are leaving. *)
LEMMA AllLeave ==
  ASSUME NEW q, NEW F, Whole(q, F), NEW r, r = [q EXCEPT !.queue = <<>>],
         NEW G, G = [w \in Works |-> IF w \in Range(q.queue) THEN Leaving ELSE F[w]]
  PROVE  Whole(r, G) /\ Quietly(q, r) /\ r.rec = q.rec /\ r.queue = <<>>
<1>0. /\ q \in Scheds /\ Sound(q.cache) /\ NamedOnce(q) /\ F \in Flights
      /\ q.queue \in Seq(Works) /\ Range(q.queue) \in SUBSET Works
      /\ \A t \in Slots : SlotFine(q, t)
  <2>1. q.queue \in Seq(Works)
    BY DEF Whole, Scheds
  <2>2. Range(q.queue) \in SUBSET Works
    BY <2>1 DEF Range
  <2> QED
    BY <2>1, <2>2 DEF Whole
<1>1. /\ r \in Scheds /\ r.queue = <<>> /\ r.rec = q.rec /\ r.cache = q.cache
      /\ r.occupants = q.occupants /\ r.results = q.results /\ r.requests = q.requests
      /\ Quietly(q, r)
  <2>1. <<>> \in Seq(Works)
    OBVIOUS
  <2> QED
    BY <1>0, <2>1 DEF Scheds, Quietly
<1>2. Range(<<>>) = {} /\ IsInjective(<<>>)
  BY DEF Range, IsInjective
<1>3. NamedOnce(r) /\ \A v : HasResult(r, v) <=> HasResult(q, v)
  BY <1>0, <1>1, <1>2 DEF NamedOnce, HasResult
<1>4. Range(r.queue) = {}
  BY <1>1, <1>2, Zenon
<1>5. Elsewhere(q, r, Range(q.queue))
  BY <1>1, <1>3, <1>4 DEF Elsewhere, Untouched
<1>6. \A t \in Slots : SlotFine(r, t)
  BY <1>0, <1>1 DEF SlotFine
<1>7. \A w \in Range(q.queue) : G[w] = Leaving
  BY <1>0
<1>8. \A v \in Works \ Range(q.queue) : G[v] = F[v]
  OBVIOUS
<1>9. G \in Flights
  BY <1>0, RecordTypes DEF Flights
<1>10. ASSUME NEW w \in Range(q.queue) PROVE Good(r, w, G[w])
  <2>1. w \in Works /\ Good(q, w, F[w]) /\ G[w] = Leaving
    BY <1>0, <1>7 DEF Whole
  <2>2. q.rec[w].state = "queued" /\ q.rec[w].slot = NoSlot /\ ~q.rec[w].pending
    BY <2>1 DEF Good, Listed, Admitted
  <2>3. Listed(r, w, Leaving)
    BY <1>1, <1>3, <1>4, <2>1, <2>2, RecordTypes DEF Good, Listed
  <2> QED
    BY <1>1, <2>1, <2>2, <2>3, RecordTypes DEF Good, Owning, Travelling
<1> HIDE DEF Whole
<1>11. Whole(r, G)
  BY <1>0, <1>1, <1>3, <1>5, <1>6, <1>8, <1>9, <1>10, WholeElsewhere
<1> QED
  BY <1>1, <1>11

CancelOp(queue, i, r) == PublishResult(r, queue[i], "cancelled")
CancelFold == INSTANCE Folding WITH Op <- CancelOp, Choose <- Max

(* Queued work is cancelled. *)
LEMMA CancelQueueKeeps ==
  ASSUME NEW q, NEW F, Whole(q, F), Settled(q), \A w \in Range(q.queue) : F[w] = Rest
  PROVE  LET r == CancelQueue(q)
         IN  Whole(r, F) /\ Settled(r) /\ Quietly(q, r) /\ r.queue = <<>>
<1> DEFINE members == q.queue  n == Len(members)  b == [q EXCEPT !.queue = <<>>]
           E == [w \in Works |-> IF w \in Range(q.queue) THEN Leaving ELSE F[w]]
           Far(r, W) == Settling(b, E, r, W) /\ r.queue = <<>>
           H == [i \in 0 .. n |-> {r \in Scheds : Far(r, First(members, i))}]
           end == CancelFold!Fold(members, b, 1 .. n)[1 .. n]
<1>0. /\ F \in Flights /\ q \in Scheds /\ members \in Seq(Works) /\ IsInjective(members)
      /\ "cancelled" \in Terminal
  BY DEF Whole, Scheds, NamedOnce, Terminal
<1>1. /\ n \in Nat /\ DOMAIN members = 1 .. n
      /\ Range(members) = First(members, n) /\ First(members, 0) = {}
      /\ \A i \in 1 .. n :
           /\ members[i] \in Works /\ members[i] \in Range(members)
           /\ members[i] \notin First(members, i - 1)
           /\ First(members, i) = First(members, i - 1) \cup {members[i]}
  <2> HIDE DEF members, E, H, end, b
  <2> QED
    BY <1>0, FirstSteps
<1>2. CancelQueue(q) = end
  BY <1>1 DEF CancelQueue, FoldLeft, MapThenFoldSet, CancelFold!Fold, CancelFold!Iteration, CancelOp
<1> HIDE DEF n
<1>3. Whole(b, E) /\ Quietly(q, b) /\ b.rec = q.rec /\ b.queue = <<>> /\ b \in Scheds
  <2>1. Whole(b, E) /\ Quietly(q, b) /\ b.rec = q.rec /\ b.queue = <<>>
    BY AllLeave
  <2> QED
    BY <2>1 DEF Whole
<1>4. /\ \A w \in Range(members) : w \in Works => E[w] = Leaving
      /\ E \in Flights
      /\ Landed(E, Range(members)) = F
  <2>1. E \in Flights
    BY <1>3 DEF Whole
  <2>2. Landed(E, Range(members)) = F
    BY <1>0 DEF Landed, Flights
  <2> QED
    BY <2>1, <2>2
<1> HIDE DEF b, E, members
<1>5. b \in H[0]
  <2>1. Settling(b, E, b, {})
    BY <1>3, SettlingStarts DEF Settled
  <2>2. Settling(b, E, b, First(members, 0))
    BY <1>1, <2>1, Zenon
  <2> QED
    BY <1>1, <1>3, <2>2
<1>6. ASSUME NEW i \in 1 .. n, NEW r \in H[i - 1]
      PROVE  CancelOp(members, i, r) \in H[i]
  <2> DEFINE w == members[i]  W == First(members, i - 1)  a == PublishResult(r, w, "cancelled")
             D == Landed(E, W)
  <2>1. i - 1 \in 0 .. n /\ i \in 0 .. n
    BY <1>1
  <2>2. r \in Scheds /\ Settling(b, E, r, W) /\ r.queue = <<>>
    BY <2>1
  <2>3. /\ w \in Works /\ w \in Range(members) /\ w \notin W
        /\ First(members, i) = W \cup {w}
    BY <1>1
  <2> HIDE DEF w, W, H, a
  <2>4. D[w] = Leaving /\ Whole(r, D) /\ r.rec[w] = q.rec[w]
    BY <1>3, <1>4, <2>2, <2>3 DEF Landed, Settling, Elsewhere
  <2> HIDE DEF D
  <2>5. r.rec[w].state = "queued" /\ r.rec[w].slot = NoSlot
    <3>1. Good(q, w, F[w])
      BY <2>3 DEF Whole
    <3> QED
      BY <2>3, <2>4, <3>1 DEF Good, Listed, Admitted, members
  <2>6. w \notin Range(r.queue)
    <3>1. Range(<<>>) = {}
      BY DEF Range
    <3>2. Range(r.queue) = {}
      BY <2>2, <3>1, Zenon
    <3> QED
      BY <3>2
  <2>7. r.rec[w].state # "unknown"
    BY <2>5
  <2>8. Whole(a, [D EXCEPT ![w] = Rest]) /\ Ended(r, a, w)
    BY <1>0, <2>3, <2>4, <2>5, <2>6, <2>7, PublishKeeps DEF a
  <2>9. Moved(D, r, a, w) /\ a.queue = <<>>
    BY <2>2, <2>8 DEF Ended, Moved
  <2>10. Settling(b, E, a, W \cup {w})
    BY <1>4, <2>2, <2>3, <2>9, SettlingOn DEF D
  <2>11. Settling(b, E, a, First(members, i)) /\ a \in Scheds
    <3>1. Settling(b, E, a, First(members, i))
      BY <2>3, <2>10, Zenon
    <3> QED
      BY <3>1 DEF Settling, Whole
  <2> QED
    BY <2>1, <2>9, <2>11 DEF CancelOp, H, a, w
<1> HIDE DEF H
<1>7. end \in H[n]
  BY <1>1, <1>5, <1>6, Greatest, CancelFold!InOrder DEF Grounded, CancelFold!Grounded
<1> HIDE DEF end
<1>8. Settling(b, E, end, First(members, n)) /\ end.queue = <<>>
  BY <1>1, <1>7 DEF H
<1>9. Settling(b, E, end, Range(members))
  BY <1>1, <1>8, Zenon
<1>10. Whole(end, Landed(E, Range(members))) /\ Quietly(b, end) /\ Settled(end)
  BY <1>9 DEF Settling
<1>11. Whole(end, F)
  BY <1>4, <1>10, Zenon
<1>12. Quietly(q, end)
  BY <1>3, <1>10 DEF Quietly
<1> QED
  BY <1>2, <1>8, <1>10, <1>11, <1>12

(* Every request of the pool is to be cancelled. *)
Doomed(q) ==
  [q EXCEPT !.rec = [w \in Works |-> IF @[w].state = "unknown" THEN @[w]
                                     ELSE [@[w] EXCEPT !.cancel_requested = TRUE]]]

(* Where nothing is queued, everybody may be asked to go. *)
LEMMA DoomedKeeps ==
  ASSUME NEW q, NEW F, Whole(q, F), Settled(q), q.queue = <<>>
  PROVE  Whole(Doomed(q), F) /\ Settled(Doomed(q)) /\ Doomed(q).pending = q.pending
<1> DEFINE r == Doomed(q)
           rec == [w \in Works |-> IF q.rec[w].state = "unknown" THEN q.rec[w]
                                   ELSE [q.rec[w] EXCEPT !.cancel_requested = TRUE]]
<1>0. /\ q \in Scheds /\ Sound(q.cache) /\ NamedOnce(q) /\ F \in Flights
      /\ q.rec \in [Works -> Record] /\ \A t \in Slots : SlotFine(q, t)
      /\ q.occupants \in [Slots -> Works \cup {NoWork}]
  BY DEF Whole, Scheds
<1>1. ASSUME NEW w \in Works
      PROVE  /\ rec[w] \in Record /\ rec[w].state = q.rec[w].state /\ rec[w].slot = q.rec[w].slot
             /\ rec[w].slot_generation = q.rec[w].slot_generation
             /\ rec[w].prefilled = q.rec[w].prefilled /\ rec[w].generated = q.rec[w].generated
             /\ rec[w].pending = q.rec[w].pending
             /\ q.rec[w].state = "unknown" => rec[w] = q.rec[w]
  <2>1. q.rec[w] \in Record
    BY <1>0
  <2> QED
    BY <2>1 DEF Record
<1>2. r = [q EXCEPT !.rec = rec] /\ rec \in [Works -> Record]
  <2>1. rec \in [Works -> Record]
    BY <1>1
  <2> QED
    BY <2>1 DEF Doomed
<1> HIDE DEF rec, r
<1>3. /\ r \in Scheds /\ r.rec = rec /\ r.cache = q.cache /\ r.occupants = q.occupants
      /\ r.queue = q.queue /\ r.requests = q.requests /\ r.results = q.results
      /\ r.pending = q.pending
  BY <1>0, <1>2 DEF Scheds
<1>4. NamedOnce(r) /\ \A v : HasResult(r, v) <=> HasResult(q, v)
  BY <1>0, <1>3 DEF NamedOnce, HasResult
<1>5. Elsewhere(q, r, Works)
  BY DEF Elsewhere
<1>6. \A t \in Slots : SlotFine(r, t)
  BY <1>0, <1>1, <1>3 DEF SlotFine
<1>7. Range(r.queue) = {}
  <2>1. Range(<<>>) = {}
    BY DEF Range
  <2> QED
    BY <1>3, <2>1, Zenon
<1>8. ASSUME NEW w \in Works PROVE Good(r, w, F[w])
  <2>1. Good(q, w, F[w])
    BY DEF Whole
  <2>2. /\ r.rec[w].state = q.rec[w].state /\ r.rec[w].slot = q.rec[w].slot
        /\ r.rec[w].slot_generation = q.rec[w].slot_generation
        /\ r.rec[w].prefilled = q.rec[w].prefilled /\ r.rec[w].generated = q.rec[w].generated
        /\ r.rec[w].pending = q.rec[w].pending
        /\ q.rec[w].state = "unknown" => r.rec[w] = q.rec[w]
    BY <1>1, <1>3
  <2>3. Listed(r, w, F[w])
    <3>1. Range(q.queue) = {} /\ (w \in Range(r.requests) <=> w \in Range(q.requests))
      BY <1>3, <1>7
    <3> QED
      BY <1>4, <1>7, <2>1, <2>2, <3>1 DEF Good, Listed
  <2>4. Owning(r, w, F[w])
    BY <1>3, <2>1, <2>2 DEF Good, Owning
  <2>5. Travelling(r, w, F[w])
    BY <1>3, <2>1, <2>2 DEF Good, Travelling
  <2> QED
    BY <2>3, <2>4, <2>5 DEF Good
<1>9. Whole(r, F)
  BY <1>0, <1>3, <1>4, <1>5, <1>6, <1>8, WholeElsewhere
<1>10. Settled(r)
  BY <1>1, <1>3 DEF Settled
<1> QED
  BY <1>3, <1>9, <1>10 DEF r

SinkOp(P, i, r) == Settle(r, P[i], FALSE, {})
SinkFold == INSTANCE Folding WITH Op <- SinkOp, Choose <- Max

(* Every pending dispatch is settled as failed. *)
Sink(q, P) == FoldLeft(LAMBDA r, d : Settle(r, d, FALSE, {}), q, P)

(* When all have been settled nobody is on the way any more. *)
LEMMA SinkKeeps ==
  ASSUME NEW q, NEW F, Whole(q, F), Settled(q), NEW P \in Seq(Dispatches), Carried(P, F)
  PROVE  /\ Whole(Sink(q, P), AllRest) /\ Settled(Sink(q, P)) /\ Quietly(q, Sink(q, P))
<1> DEFINE n == Len(P)
           Sunk(i, r) == Whole(r, Landed(F, Sailed(P, i))) /\ Settled(r) /\ Quietly(q, r)
           H == [i \in 0 .. n |-> {r \in Scheds : Sunk(i, r)}]
           end == SinkFold!Fold(P, q, 1 .. n)[1 .. n]
<1>0. n \in Nat /\ DOMAIN P = 1 .. n /\ q \in Scheds /\ F \in Flights
  BY DEF Whole
<1>1. Sink(q, P) = end
  BY <1>0 DEF Sink, FoldLeft, MapThenFoldSet, SinkFold!Fold, SinkFold!Iteration, SinkOp
<1> HIDE DEF n
<1>2. q \in H[0]
  <2>1. Sailed(P, 0) = {}
    BY DEF Sailed
  <2>2. Landed(F, Sailed(P, 0)) = F
    BY <1>0, <2>1 DEF Landed, Flights
  <2>3. Whole(q, Landed(F, Sailed(P, 0)))
    BY <2>2, Zenon
  <2>4. Sunk(0, q)
    BY <2>3 DEF Quietly
  <2> QED
    BY <1>0, <2>4
<1>3. ASSUME NEW i \in 1 .. n, NEW r \in H[i - 1]
      PROVE  SinkOp(P, i, r) \in H[i]
  <2> DEFINE d == P[i]  R == Range(P[i].members)  a == Settle(r, d, FALSE, {})
             S == Sailed(P, i - 1)  E == Landed(F, S)
  <2>1. i - 1 \in 0 .. n /\ i \in 0 .. n /\ i \in 1 .. Len(P)
    BY <1>0 DEF n
  <2>2. r \in Scheds /\ Sunk(i - 1, r)
    BY <2>1
  <2>3. /\ Aboard(F, d) /\ R \in SUBSET Works
        /\ R \cap S = {} /\ Sailed(P, i) = S \cup R
    BY <2>1, AboardOn
  <2> HIDE DEF S, H, d
  <2>4. Whole(r, E) /\ Settled(r) /\ Quietly(q, r)
    BY <2>2 DEF S
  <2>5. Aboard(E, d)
    <3>1. \A m \in DOMAIN d.members : d.members[m] \in R
      BY DEF Range, d
    <3>2. \A w \in R : E[w] = F[w]
      BY <2>3 DEF Landed
    <3>3. /\ d \in Dispatches /\ Made(d) /\ IsInjective(d.members)
          /\ \A m \in DOMAIN d.members : F[d.members[m]] = FlightOf(d, m)
      BY <2>3 DEF Aboard
    <3> QED
      BY <3>1, <3>2, <3>3 DEF Aboard
  <2> HIDE DEF E, a
  <2>6. Settling(r, E, a, Range(d.members))
    BY <2>4, <2>5, SettleKeeps DEF a
  <2>7. Landed(E, Range(d.members)) = Landed(F, Sailed(P, i))
    BY <2>3 DEF E, Landed, d
  <2>8. Whole(a, Landed(E, Range(d.members))) /\ Quietly(r, a) /\ Settled(a)
    BY <2>6 DEF Settling
  <2>9. Whole(a, Landed(F, Sailed(P, i)))
    BY <2>7, <2>8, Zenon
  <2>10. Sunk(i, a) /\ a \in Scheds
    <3>1. Quietly(q, a)
      BY <2>4, <2>8 DEF Quietly
    <3> QED
      BY <2>8, <2>9, <3>1 DEF Whole
  <2> QED
    BY <2>1, <2>10 DEF SinkOp, H, a, d
<1> HIDE DEF H
<1>4. end \in H[n]
  BY <1>0, <1>2, <1>3, Greatest, SinkFold!InOrder DEF Grounded, SinkFold!Grounded
<1> HIDE DEF end
<1>5. Sunk(n, end)
  BY <1>0, <1>4 DEF H
<1>6. Landed(F, Sailed(P, n)) = AllRest
  <2> SUFFICES ASSUME NEW w \in Works PROVE w \in Sailed(P, n) \/ F[w] = Rest
    BY DEF Landed, AllRest
  <2> SUFFICES ASSUME F[w] # Rest PROVE w \in Sailed(P, n)
    OBVIOUS
  <2>1. PICK i \in DOMAIN P : \E m \in DOMAIN P[i].members : P[i].members[m] = w
    BY DEF Carried
  <2>2. w \in Range(P[i].members)
    BY <2>1 DEF Range
  <2> QED
    BY <1>0, <2>1, <2>2 DEF Sailed
<1>7. Whole(end, AllRest)
  BY <1>5, <1>6, Zenon
<1> QED
  BY <1>1, <1>5, <1>7, Zenon

(* vx_batch_scheduler_close_async *)
LEMMA CloseKeeps ==
  ASSUME NEW q, Sane(q), NEW drain \in BOOLEAN
  PROVE  Sane(CloseLocked(q, drain))
<1> DEFINE base == [q EXCEPT !.closed = TRUE, !.draining = drain]
           shut == CancelQueue(base)
           doomed == Doomed(shut)
           cleared == [doomed EXCEPT !.pending = <<>>]
           settled == Sink(cleared, doomed.pending)
<1>1. PICK F \in Flights : Whole(q, F) /\ Carried(q.pending, F)
  BY DEF Sane
<1>2. Settled(q) /\ (q.in_round <=> q.pending # <<>>) /\ q \in Scheds
      /\ (~q.in_round => Between(q))
  BY <1>1 DEF Sane, Whole
<1>3. /\ base \in Scheds /\ base.cache = q.cache /\ base.rec = q.rec
      /\ base.requests = q.requests /\ base.queue = q.queue /\ base.results = q.results
      /\ base.occupants = q.occupants /\ base.pending = q.pending /\ base.in_round = q.in_round
  BY <1>2 DEF Scheds
<1>4. CloseLocked(q, drain) = CASE drain /\ q.pending # <<>> -> shut
                                [] drain /\ q.pending = <<>> -> FinishRound(shut)
                                [] OTHER -> FinishRound(settled)
  BY DEF CloseLocked, Doomed, Sink
<1> HIDE DEF base
<1>5. Whole(base, F) /\ Settled(base)
  BY <1>1, <1>2, <1>3, WholeBesides DEF Settled
<1>6. \A w \in Range(base.queue) : F[w] = Rest
  <2> SUFFICES ASSUME NEW w \in Range(q.queue) PROVE F[w] = Rest
    BY <1>3
  <2>1. w \in Works
    <3>1. q.queue \in Seq(Works)
      BY <1>2 DEF Scheds
    <3> QED
      BY <3>1 DEF Range
  <2>2. F[w].at = "rest"
    BY <1>1, <2>1 DEF Whole, Good, Listed
  <2> QED
    BY <1>1, <2>1, <2>2, RestOrFlying
<1>7. Whole(shut, F) /\ Settled(shut) /\ Quietly(base, shut) /\ shut.queue = <<>>
  BY <1>5, <1>6, CancelQueueKeeps
<1> HIDE DEF shut
<1>8. CASE drain /\ q.pending # <<>>
  <2>1. shut.pending = q.pending /\ shut.in_round = q.in_round
    BY <1>3, <1>7 DEF Quietly
  <2>2. Carried(shut.pending, F)
    BY <1>1, <2>1, Zenon
  <2>3. Sane(shut)
    <3>1. \E G \in Flights : Whole(shut, G) /\ Carried(shut.pending, G)
      BY <1>7, <2>2
    <3> QED
      BY <1>2, <1>7, <1>8, <2>1, <3>1 DEF Sane
  <2> QED
    BY <1>4, <1>8, <2>3
<1>9. CASE drain /\ q.pending = <<>>
  <2>1. Carried(<<>>, F)
    BY <1>1, <1>9, Zenon
  <2>2. F = AllRest
    BY <2>1, NothingCarried
  <2>3. Whole(shut, AllRest) /\ shut.pending = <<>>
    <3>1. shut.pending = <<>>
      BY <1>3, <1>7, <1>9 DEF Quietly
    <3> QED
      BY <1>7, <2>2, <3>1, Zenon
  <2>4. Sane(FinishRound(shut))
    BY <1>7, <2>3, FinishSane
  <2> QED
    BY <1>4, <1>9, <2>4
<1>10. CASE ~drain
  <2>1. Whole(doomed, F) /\ Settled(doomed) /\ doomed.pending = shut.pending
    BY <1>7, DoomedKeeps
  <2>2. doomed.pending = q.pending /\ doomed.pending \in Seq(Dispatches)
    BY <1>2, <1>3, <1>7, <2>1 DEF Quietly, Scheds
  <2> HIDE DEF doomed
  <2>3. /\ cleared \in Scheds /\ cleared.cache = doomed.cache /\ cleared.rec = doomed.rec
        /\ cleared.requests = doomed.requests /\ cleared.queue = doomed.queue
        /\ cleared.results = doomed.results /\ cleared.occupants = doomed.occupants
        /\ cleared.pending = <<>>
    <3>1. doomed \in Scheds /\ <<>> \in Seq(Dispatches)
      BY <2>1 DEF Whole
    <3> QED
      BY <3>1 DEF Scheds
  <2> HIDE DEF cleared
  <2>4. Whole(cleared, F) /\ Settled(cleared)
    BY <2>1, <2>3, WholeBesides DEF Settled
  <2>5. Carried(doomed.pending, F)
    BY <1>1, <2>2, Zenon
  <2>6. Whole(settled, AllRest) /\ Settled(settled) /\ Quietly(cleared, settled)
    BY <2>2, <2>4, <2>5, SinkKeeps
  <2> HIDE DEF settled
  <2>7. settled.pending = <<>>
    BY <2>3, <2>6 DEF Quietly
  <2>8. Sane(FinishRound(settled))
    BY <2>6, <2>7, FinishSane
  <2> QED
    BY <1>4, <1>10, <2>8
<1> QED
  BY <1>8, <1>9, <1>10

-----------------------------------------------------------------------------
(* The callers' other calls.                                               *)

(* Between rounds terminal records are retired at once. *)
LEMMA RetireSane ==
  ASSUME NEW q, Whole(q, AllRest), Settled(q), q.pending = <<>>, q.in_round = FALSE,
         \A v \in Works : q.rec[v].state \in Terminal \/ ~q.rec[v].cancel_requested
  PROVE  Sane(Retire(q))
<1> DEFINE r == Retire(q)
<1>1. \A v \in Works : AllRest[v] = Rest
  BY DEF AllRest
<1>2. /\ Whole(r, AllRest) /\ Settled(r)
      /\ \A v \in Works : r.rec[v] = IF q.rec[v].state \in Terminal THEN NoRecord ELSE q.rec[v]
      /\ r.pending = <<>> /\ r.in_round = FALSE
  <2>1. /\ Whole(r, AllRest) /\ Settled(r)
        /\ r.pending = q.pending /\ r.in_round = q.in_round
        /\ \A v \in Works : r.rec[v] = IF q.rec[v].state \in Terminal THEN NoRecord
                                                                     ELSE q.rec[v]
    BY <1>1, RetireKeeps
  <2> QED
    BY <2>1
<1> HIDE DEF r
<1>3. Between(r)
  <2> SUFFICES ASSUME NEW v \in Works
               PROVE  r.rec[v].state \notin Terminal /\ ~r.rec[v].cancel_requested
    BY DEF Between
  <2>1. NoRecord.state \notin Terminal /\ ~NoRecord.cancel_requested
    BY DEF NoRecord, Terminal
  <2> QED
    BY <1>2, <2>1
<1>4. Carried(r.pending, AllRest)
  BY <1>2, RestCarried, Zenon
<1>5. Sane(r)
  BY <1>2, <1>3, <1>4, RecordTypes DEF Sane
<1> QED
  BY <1>5 DEF r

(* When work ended, it is over at once between rounds, else with the round. *)
LEMMA EndedSane ==
  ASSUME NEW q, Sane(q), NEW w \in Works, NEW F \in Flights, Carried(q.pending, F),
         NEW r, Whole(r, F), Elsewhere(q, r, {w}), Quietly(q, r),
         ~r.rec[w].pending, r.rec[w].state \in Terminal
  PROVE  Sane(IF q.in_round THEN r ELSE Retire(r))
<1>1. Settled(q) /\ (q.in_round <=> q.pending # <<>>) /\ (~q.in_round => Between(q))
  BY DEF Sane
<1>2. /\ r.pending = q.pending /\ r.in_round = q.in_round /\ r.in_round \in BOOLEAN
  BY DEF Quietly, Whole, Scheds
<1>3. \A v \in Works \ {w} : r.rec[v] = q.rec[v]
  BY DEF Elsewhere
<1>4. Settled(r)
  BY <1>1, <1>3 DEF Settled
<1>5. CASE q.in_round
  <2>1. Carried(r.pending, F)
    BY <1>2, Zenon
  <2>2. Sane(r)
    BY <1>1, <1>2, <1>4, <1>5, <2>1 DEF Sane
  <2> QED
    BY <1>5, <2>2
<1>6. CASE ~q.in_round
  <2>1. r.pending = <<>> /\ r.in_round = FALSE /\ q.pending = <<>> /\ Between(q)
    BY <1>1, <1>2, <1>6
  <2>2. Carried(<<>>, F)
    BY <2>1, Zenon
  <2>3. F = AllRest
    BY <2>2, NothingCarried
  <2>4. Whole(r, AllRest)
    BY <2>3, Zenon
  <2>5. \A v \in Works : r.rec[v].state \in Terminal \/ ~r.rec[v].cancel_requested
    BY <1>3, <2>1 DEF Between
  <2>6. Sane(Retire(r))
    BY <1>4, <2>1, <2>4, <2>5, RetireSane
  <2> QED
    BY <1>6, <2>6
<1> QED
  BY <1>5, <1>6

(* A work that waits in the queue. *)
LEMMA CancelWaiting ==
  ASSUME NEW q, Sane(q), NEW w \in Works, w \in Range(q.queue), q.rec[w].state = "queued",
         NEW r, r = PublishResult([q EXCEPT !.queue = Without(@, w)], w, "cancelled")
  PROVE  Sane(IF q.in_round THEN r ELSE Retire(r))
<1> DEFINE b == [q EXCEPT !.queue = Without(@, w)]
<1>1. PICK F \in Flights : Whole(q, F) /\ Carried(q.pending, F)
  BY DEF Sane
<1> DEFINE G == [F EXCEPT ![w] = Leaving]
<1>2. F[w] = Rest /\ q.rec[w].slot = NoSlot
  <2>1. Good(q, w, F[w])
    BY <1>1 DEF Whole
  <2>2. F[w].at = "rest" /\ q.rec[w].slot = NoSlot
    BY <2>1 DEF Good, Listed, Admitted
  <2> QED
    BY <1>1, <2>2, RestOrFlying
<1>3. /\ Whole(b, G) /\ Elsewhere(q, b, {w}) /\ Quietly(q, b)
      /\ w \notin Range(b.queue) /\ b.rec = q.rec
  BY <1>1, LeaveQueue
<1> HIDE DEF b, G
<1>4. b.rec[w].state # "unknown" /\ b.rec[w].slot = NoSlot /\ "cancelled" \in Terminal
  BY <1>2, <1>3 DEF Terminal
<1>5. Whole(r, [G EXCEPT ![w] = Rest]) /\ Ended(b, r, w)
  BY <1>3, <1>4, PublishKeeps DEF b
<1>6. [G EXCEPT ![w] = Rest] = F
  BY <1>2 DEF G, Flights
<1>7. Whole(r, F)
  BY <1>5, <1>6, Zenon
<1>8. /\ Elsewhere(b, r, {w}) /\ Quietly(q, r) /\ ~r.rec[w].pending
      /\ r.rec[w].state \in Terminal
  BY <1>3, <1>5 DEF Ended, Quietly
<1>9. Elsewhere(q, r, {w})
  <2>1. Elsewhere(q, r, {w} \cup {w})
    BY <1>3, <1>8, ElsewhereOn
  <2>2. {w} \cup {w} = {w}
    OBVIOUS
  <2> QED
    BY <2>1, <2>2, Zenon
<1> QED
  BY <1>1, <1>7, <1>8, <1>9, EndedSane

(* Stateless work that was dispatched has left the queue already. *)
LEMMA CancelFlying ==
  ASSUME NEW q, Sane(q), NEW w \in Works, w \notin Range(q.queue), q.rec[w].state = "queued",
         NEW r, r = PublishResult([q EXCEPT !.queue = Without(@, w)], w, "cancelled")
  PROVE  Sane(IF q.in_round THEN r ELSE Retire(r))
<1> DEFINE b == [q EXCEPT !.queue = Without(@, w)]  e == [q.rec[w] EXCEPT !.state = "cancelled"]
<1>1. PICK F \in Flights : Whole(q, F) /\ Carried(q.pending, F)
  BY DEF Sane
<1>2. /\ q \in Scheds /\ Sound(q.cache) /\ NamedOnce(q) /\ F \in Flights
      /\ Good(q, w, F[w]) /\ q.queue \in Seq(Works) /\ q.rec \in [Works -> Record]
      /\ q.rec[w] \in Record /\ \A t \in Slots : SlotFine(q, t)
  BY <1>1 DEF Whole, Scheds
<1>3. /\ Without(q.queue, w) \in Seq(Works) /\ Range(Without(q.queue, w)) = Range(q.queue)
      /\ IsInjective(Without(q.queue, w))
  <2>1. IsInjective(q.queue)
    BY <1>2 DEF NamedOnce
  <2>2. /\ Without(q.queue, w) \in Seq(Works) /\ IsInjective(Without(q.queue, w))
        /\ Range(Without(q.queue, w)) = Range(q.queue) \ {w}
    BY <1>2, <2>1, WithoutSeen
  <2>3. Range(q.queue) \ {w} = Range(q.queue)
    OBVIOUS
  <2> QED
    BY <2>2, <2>3
<1>4. /\ b \in Scheds /\ b.queue = Without(q.queue, w) /\ b.rec = q.rec /\ b.cache = q.cache
      /\ b.occupants = q.occupants /\ b.results = q.results /\ b.requests = q.requests
      /\ Quietly(q, b)
  BY <1>2, <1>3 DEF Scheds, Quietly
<1> HIDE DEF b
<1>5. /\ NamedOnce(b) /\ Range(b.queue) = Range(q.queue)
      /\ \A v : HasResult(b, v) <=> HasResult(q, v)
  <2>1. Range(b.queue) = Range(q.queue) /\ IsInjective(b.queue)
    BY <1>3, <1>4, Zenon
  <2> QED
    BY <1>2, <1>4, <2>1 DEF NamedOnce, HasResult
<1>6. /\ q.rec[w].slot = NoSlot /\ ~q.rec[w].pending /\ F[w].at # "rest"
      /\ F[w].at = "flying" /\ F[w].kind = "stateless" /\ Stateless(w)
      /\ ~HasResult(q, w) /\ q.rec[w].cancel_requested \in BOOLEAN
      /\ w \in Range(q.requests) /\ Acceptable(w)
  <2>1. /\ q.rec[w].slot = NoSlot /\ ~q.rec[w].pending /\ F[w].at # "rest"
        /\ ~HasResult(q, w) /\ w \in Range(q.requests) /\ Acceptable(w)
    BY <1>2 DEF Good, Listed, Admitted, Live
  <2>2. F[w] = Rest \/ F[w].at = "flying"
    BY <1>1, RestOrFlying
  <2>3. F[w].at = "flying"
    BY <2>1, <2>2, RecordTypes
  <2>4. Travelling(q, w, F[w])
    BY <1>2 DEF Good
  <2>5. F[w].kind = "stateless" /\ Stateless(w)
    BY <2>3, <2>4 DEF Travelling
  <2>6. q.rec[w].cancel_requested \in BOOLEAN
    BY <1>2 DEF Record
  <2> QED
    BY <2>1, <2>3, <2>5, <2>6
<1>7. /\ r \in Scheds /\ NamedOnce(r)
      /\ r.cache = b.cache /\ r.occupants = b.occupants /\ r.queue = b.queue
      /\ r.rec = [b.rec EXCEPT ![w] = [b.rec[w] EXCEPT !.state = "cancelled"]]
      /\ Quietly(b, r)
      /\ \A v \in Works : v # w => (HasResult(r, v) => HasResult(b, v))
  <2>1. ~IsTerminal(b, w) /\ ~HasResult(b, w) /\ "cancelled" \in Terminal
    BY <1>4, <1>5, <1>6 DEF IsTerminal, Terminal
  <2>2. r = PublishResult(b, w, "cancelled")
    BY DEF b
  <2>3. LET a == PublishResult(b, w, "cancelled")
        IN  /\ a \in Scheds /\ NamedOnce(a)
            /\ a.cache = b.cache /\ a.occupants = b.occupants /\ a.queue = b.queue
            /\ a.rec = [b.rec EXCEPT ![w] = [b.rec[w] EXCEPT !.state = "cancelled"]]
            /\ \A v \in Works : v # w => (HasResult(a, v) => HasResult(b, v))
            /\ Quietly(b, a)
    BY <1>4, <1>5, <2>1, Published
  <2> QED
    BY <2>2, <2>3, Zenon
<1>8. r.rec = [q.rec EXCEPT ![w] = e]
  BY <1>4, <1>7
<1>9. /\ e.state = "cancelled" /\ e.slot = NoSlot /\ ~e.pending
      /\ r.rec[w] = e /\ \A v \in Works : v # w => r.rec[v] = q.rec[v]
  <2>1. e.state = "cancelled" /\ e.slot = NoSlot /\ ~e.pending
    BY <1>2, <1>6 DEF Record
  <2> HIDE DEF e
  <2> QED
    BY <1>2, <1>8, <2>1
<1> HIDE DEF e
<1>10. /\ Range(r.queue) = Range(q.queue) /\ r.requests = q.requests
       /\ r.cache = q.cache /\ r.occupants = q.occupants
  BY <1>4, <1>5, <1>7 DEF Quietly
<1>11. Elsewhere(q, r, {w})
  BY <1>5, <1>7, <1>9, <1>10 DEF Elsewhere, Untouched
<1>12. ASSUME NEW t \in Slots PROVE SlotFine(r, t)
  <2>1. SlotFine(q, t) /\ (q.occupants[t] = NoWork \/ q.occupants[t] \in Works)
    BY <1>2 DEF Scheds
  <2>2. \A v \in Works : r.rec[v].slot = q.rec[v].slot
    BY <1>6, <1>9
  <2> QED
    BY <1>10, <2>1, <2>2 DEF SlotFine
<1>13. Good(r, w, F[w])
  <2>1. Listed(r, w, F[w])
    BY <1>6, <1>9, <1>10 DEF Listed, Live, Admitted
  <2>2. Owning(r, w, F[w])
    BY <1>9 DEF Owning
  <2>3. Travelling(r, w, F[w])
    BY <1>6, <1>9 DEF Travelling, Terminal
  <2> QED
    BY <2>1, <2>2, <2>3 DEF Good
<1>14. Whole(r, F)
  <2>1. \A x \in {w} : Good(r, x, F[x])
    BY <1>13
  <2>2. {w} \in SUBSET Works /\ Sound(r.cache)
    BY <1>2, <1>10
  <2> QED
    BY <1>1, <1>2, <1>7, <1>11, <1>12, <2>1, <2>2, WholeElsewhere
<1>15. Quietly(q, r)
  BY <1>4, <1>7 DEF Quietly
<1>16. ~r.rec[w].pending /\ r.rec[w].state \in Terminal
  BY <1>9 DEF Terminal
<1> QED
  BY <1>1, <1>11, <1>14, <1>15, <1>16, EndedSane

(* Admitted work, between rounds. *)
LEMMA CancelAdmitted ==
  ASSUME NEW q, Sane(q), NEW w \in Works, q.rec[w].state \in Admitted, ~q.in_round
  PROVE  Sane(Retire(ReleaseAndPublish(q, w, "cancelled")))
<1> DEFINE r == ReleaseAndPublish(q, w, "cancelled")
<1>1. PICK F \in Flights : Whole(q, F) /\ Carried(q.pending, F)
  BY DEF Sane
<1>2. q.pending = <<>> /\ Settled(q)
  <2>1. q.in_round \in BOOLEAN
    BY <1>1 DEF Whole, Scheds
  <2> QED
    BY <2>1 DEF Sane
<1>3. F = AllRest
  <2>1. Carried(<<>>, F)
    BY <1>1, <1>2, Zenon
  <2> QED
    BY <2>1, NothingCarried
<1>4. AllRest[w] = Rest /\ [AllRest EXCEPT ![w] = Rest] = AllRest
  <2>1. AllRest[w] = Rest
    BY DEF AllRest
  <2> QED
    BY <2>1, RecordTypes, StillResting
<1>5. Whole(q, AllRest)
  BY <1>1, <1>3, Zenon
<1>6. /\ q.rec[w].state # "unknown" /\ w \notin Range(q.queue)
      /\ \A s \in Slots : q.rec[w].slot = s /\ Open(q.cache, s) => q.rec[w].pending
      /\ "cancelled" \in Terminal
  <2>1. Good(q, w, Rest)
    BY <1>4, <1>5 DEF Whole
  <2>2. q.rec[w].state # "unknown" /\ w \notin Range(q.queue)
    BY <2>1 DEF Good, Listed, Admitted
  <2>3. ASSUME NEW s \in Slots, q.rec[w].slot = s, Open(q.cache, s)
        PROVE  q.rec[w].pending
    <3>1. s # NoSlot
      BY Numbers
    <3>2. Open(q.cache, q.rec[w].slot) <=> q.rec[w].pending \/ Rest.at = "flying"
      BY <2>1, <2>3, <3>1 DEF Good, Owning
    <3> QED
      BY <2>3, <3>2, RecordTypes
  <2> QED
    BY <2>2, <2>3 DEF Terminal
<1>7. Whole(r, [AllRest EXCEPT ![w] = Rest]) /\ Ended(q, r, w)
  BY <1>5, <1>6, EndKeeps
<1> HIDE DEF r
<1>8. Whole(r, AllRest)
  BY <1>4, <1>7, Zenon
<1>9. Carried(q.pending, AllRest)
  BY <1>2, RestCarried, Zenon
<1>10. Elsewhere(q, r, {w}) /\ Quietly(q, r) /\ ~r.rec[w].pending /\ r.rec[w].state \in Terminal
  BY <1>7 DEF Ended
<1>11. Sane(IF q.in_round THEN r ELSE Retire(r))
  BY <1>8, <1>9, <1>10, RecordTypes, EndedSane
<1> QED
  BY <1>11 DEF r

(* Admitted work inside a round is only marked. *)
LEMMA CancelMarked ==
  ASSUME NEW q, Sane(q), NEW w \in Works, q.rec[w].state \in Admitted, q.in_round,
         NEW r, r = [q EXCEPT !.rec[w].cancel_requested = TRUE]
  PROVE  Sane(r)
<1> DEFINE e == [q.rec[w] EXCEPT !.cancel_requested = TRUE]  R == [q.rec EXCEPT ![w] = e]
<1>1. PICK F \in Flights : Whole(q, F) /\ Carried(q.pending, F)
  BY DEF Sane
<1>2. /\ q \in Scheds /\ Good(q, w, F[w]) /\ q.rec \in [Works -> Record] /\ q.rec[w] \in Record
      /\ F \in Flights /\ F[w] \in Flight
  BY <1>1 DEF Whole, Scheds, Flights
<1>3. /\ e \in Record /\ e.state = q.rec[w].state /\ e.slot = q.rec[w].slot
      /\ e.slot_generation = q.rec[w].slot_generation
      /\ e.prefilled = q.rec[w].prefilled /\ e.generated = q.rec[w].generated
      /\ e.pending = q.rec[w].pending
  BY <1>2 DEF Record
<1>4. r = [q EXCEPT !.rec = R] /\ R \in [Works -> Record]
  BY <1>2, <1>3 DEF Scheds
<1> HIDE DEF e, R
<1>5. /\ r \in Scheds /\ r.rec = R /\ r.cache = q.cache
      /\ r.occupants = q.occupants /\ r.queue = q.queue /\ r.results = q.results
      /\ r.requests = q.requests /\ r.pending = q.pending /\ r.in_round = q.in_round
  BY <1>2, <1>4 DEF Scheds
<1>6. r.rec[w] = e /\ \A v \in Works : v # w => r.rec[v] = q.rec[v]
  BY <1>2, <1>5 DEF R
<1>7. Good(r, w, F[w])
  <2>1. Listed(r, w, F[w])
    BY <1>2, <1>3, <1>5, <1>6 DEF Good, Listed, HasResult, Admitted
  <2>2. Owning(r, w, F[w])
    BY <1>2, <1>3, <1>5, <1>6 DEF Good, Owning
  <2>3. Travelling(r, w, F[w])
    BY <1>2, <1>3, <1>5, <1>6 DEF Good, Travelling
  <2> QED
    BY <2>1, <2>2, <2>3 DEF Good
<1>8. Whole(r, [F EXCEPT ![w] = F[w]])
  BY <1>1, <1>2, <1>3, <1>5, <1>7, RecordChange DEF R
<1>9. [F EXCEPT ![w] = F[w]] = F
  BY <1>2 DEF Flights
<1>10. Whole(r, F)
  BY <1>8, <1>9, Zenon
<1>11. Carried(r.pending, F)
  BY <1>1, <1>5, Zenon
<1>12. Settled(r)
  BY <1>3, <1>5, <1>6 DEF Sane, Settled
<1>13. (q.in_round <=> q.pending # <<>>) /\ q.in_round \in BOOLEAN
  BY <1>2 DEF Sane, Scheds
<1> QED
  BY <1>5, <1>10, <1>11, <1>12, <1>13 DEF Sane

(* vx_batch_scheduler_cancel *)
LEMMA CancelKeeps ==
  ASSUME NEW q, Sane(q), NEW w \in Works, q.rec[w].state \in Live
  PROVE  Sane(CancelLocked(q, w))
<1> DEFINE a == PublishResult([q EXCEPT !.queue = Without(@, w)], w, "cancelled")
           b == ReleaseAndPublish(q, w, "cancelled")
           c == [q EXCEPT !.rec[w].cancel_requested = TRUE]
           r == CASE q.rec[w].state = "queued" -> a
                  [] q.rec[w].state # "queued" /\ ~q.in_round -> b
                  [] OTHER -> c
<1>1. CancelLocked(q, w) = IF q.in_round THEN r ELSE Retire(r)
  BY DEF CancelLocked
<1>2. q.rec[w].state = "queued" => Sane(IF q.in_round THEN a ELSE Retire(a))
  BY CancelWaiting, CancelFlying
<1>3. q.rec[w].state \in Admitted /\ ~q.in_round => Sane(Retire(b))
  BY CancelAdmitted
<1>4. q.rec[w].state \in Admitted /\ q.in_round => Sane(c)
  BY CancelMarked
<1>5. q.rec[w].state = "queued" \/ q.rec[w].state \in Admitted
  BY DEF Live, Admitted
<1>6. q.rec[w].state \in Admitted => q.rec[w].state # "queued"
  BY DEF Admitted
<1> HIDE DEF a, b, c
<1>7. CASE q.rec[w].state = "queued"
  <2>1. r = a
    BY <1>7
  <2> QED
    BY <1>1, <1>2, <1>7, <2>1
<1>8. CASE q.rec[w].state \in Admitted /\ ~q.in_round
  <2>1. r = b
    BY <1>6, <1>8
  <2> QED
    BY <1>1, <1>3, <1>8, <2>1
<1>9. CASE q.rec[w].state \in Admitted /\ q.in_round
  <2>1. r = c
    BY <1>6, <1>9
  <2> QED
    BY <1>1, <1>4, <1>9, <2>1
<1> QED
  BY <1>5, <1>7, <1>8, <1>9

(* A forgotten work is at rest, has no record and no result. *)
LEMMA ForgottenRests ==
  ASSUME NEW q, NEW F, Whole(q, F), Carried(q.pending, F), NEW w \in Works, Forgotten(q, w)
  PROVE  /\ F[w] = Rest /\ q.rec[w] = NoRecord /\ ~HasResult(q, w)
         /\ w \notin Range(q.queue) /\ w \notin Range(q.requests)
<1>1. Good(q, w, F[w]) /\ q.rec[w].state = "unknown"
  BY DEF Whole, Forgotten
<1>2. /\ q.rec[w] = NoRecord /\ w \notin Range(q.queue) /\ w \notin Range(q.requests)
  BY <1>1 DEF Good, Listed
<1>3. ~HasResult(q, w)
  BY DEF Forgotten, ResultsFor, HasResult
<1>4. F[w].at # "flying"
  <2> SUFFICES ASSUME F[w].at = "flying" PROVE FALSE
    OBVIOUS
  <2>1. Travelling(q, w, F[w])
    BY <1>1 DEF Good
  <2>2. CASE F[w].kind = "stateless"
    BY <1>1, <2>1, <2>2 DEF Travelling, Terminal
  <2>3. CASE F[w].kind # "stateless"
    BY <1>1, <2>1, <2>3 DEF Travelling
  <2> QED
    BY <2>2, <2>3
<1> QED
  BY <1>2, <1>3, <1>4, RestOrFlying

(* vx_batch_scheduler_submit_llm and _submit_stateless *)
LEMMA SubmitKeeps ==
  ASSUME NEW q, Sane(q), NEW w \in Works, Forgotten(q, w), Acceptable(w),
         NEW r, r = [q EXCEPT !.rec[w] = [NoRecord EXCEPT !.state = "queued"],
                              !.requests = Append(@, w), !.queue = Append(@, w)]
  PROVE  Sane(r)
<1> DEFINE e == [NoRecord EXCEPT !.state = "queued"]  R == [q.rec EXCEPT ![w] = e]
           Q == Append(q.queue, w)  L == Append(q.requests, w)
<1>1. PICK F \in Flights : Whole(q, F) /\ Carried(q.pending, F)
  BY DEF Sane
<1>2. /\ q \in Scheds /\ Sound(q.cache) /\ NamedOnce(q) /\ q.queue \in Seq(Works)
      /\ q.requests \in Seq(Works) /\ q.rec \in [Works -> Record]
      /\ \A t \in Slots : SlotFine(q, t)
  BY <1>1 DEF Whole, Scheds
<1>3. /\ F[w] = Rest /\ q.rec[w] = NoRecord /\ ~HasResult(q, w)
      /\ w \notin Range(q.queue) /\ w \notin Range(q.requests)
  BY <1>1, ForgottenRests
<1>4. /\ e \in Record /\ e.state = "queued" /\ e.slot = NoSlot /\ e.generated = 0
      /\ ~e.pending /\ ~e.cancel_requested
  BY RecordTypes DEF Record, Live, NoRecord
<1>5. r = [q EXCEPT !.rec = R, !.requests = L, !.queue = Q]
  OBVIOUS
<1> HIDE DEF e
<1>6. R \in [Works -> Record] /\ R[w] = e /\ \A v \in Works : v # w => R[v] = q.rec[v]
  BY <1>2, <1>4
<1>7. /\ Q \in Seq(Works) /\ Range(Q) = Range(q.queue) \cup {w} /\ IsInjective(Q)
      /\ L \in Seq(Works) /\ Range(L) = Range(q.requests) \cup {w} /\ IsInjective(L)
  <2>1. IsInjective(q.queue) /\ IsInjective(q.requests)
    BY <1>2 DEF NamedOnce
  <2> QED
    BY <1>2, <1>3, <2>1, AppendSeen
<1> HIDE DEF R, Q, L
<1>8. /\ r \in Scheds /\ r.rec = R /\ r.queue = Q /\ r.requests = L /\ r.cache = q.cache
      /\ r.occupants = q.occupants /\ r.results = q.results /\ r.pending = q.pending
      /\ r.in_round = q.in_round
  BY <1>2, <1>5, <1>6, <1>7 DEF Scheds
<1>9. NamedOnce(r) /\ \A v : HasResult(r, v) <=> HasResult(q, v)
  BY <1>2, <1>7, <1>8 DEF NamedOnce, HasResult
<1>10. Range(r.queue) = Range(q.queue) \cup {w} /\ Range(r.requests) = Range(q.requests) \cup {w}
  BY <1>7, <1>8, Zenon
<1>11. Elsewhere(q, r, {w})
  BY <1>6, <1>8, <1>9, <1>10 DEF Elsewhere, Untouched
<1>12. ASSUME NEW t \in Slots PROVE SlotFine(r, t)
  <2>1. SlotFine(q, t) /\ (q.occupants[t] = NoWork \/ q.occupants[t] \in Works) /\ t # NoSlot
    BY <1>2, Numbers DEF Scheds
  <2>2. \A v \in Works : r.rec[v].slot = q.rec[v].slot
    BY <1>3, <1>4, <1>6, <1>8, RecordTypes
  <2> QED
    BY <1>8, <2>1, <2>2 DEF SlotFine
<1>13. Good(r, w, F[w])
  <2>1. Listed(r, w, Rest)
    BY <1>3, <1>4, <1>6, <1>8, <1>9, <1>10, RecordTypes DEF Listed, Live, Admitted
  <2>2. Owning(r, w, Rest)
    BY <1>4, <1>6, <1>8 DEF Owning
  <2>3. Travelling(r, w, Rest)
    BY RecordTypes DEF Travelling
  <2> QED
    BY <1>3, <2>1, <2>2, <2>3 DEF Good
<1>14. Whole(r, F)
  <2>1. \A x \in {w} : Good(r, x, F[x])
    BY <1>13
  <2>2. {w} \in SUBSET Works /\ Sound(r.cache) /\ r \in Scheds /\ NamedOnce(r)
    BY <1>2, <1>8, <1>9
  <2>3. \A t \in Slots : q.occupants[t] \in {w} \cup {NoWork} => SlotFine(r, t)
    BY <1>12
  <2> DEFINE W == {w}
  <2>4. Elsewhere(q, r, W) /\ (\A x \in W : Good(r, x, F[x])) /\ W \in SUBSET Works
    BY <1>11, <2>1, <2>2
  <2>5. \A t \in Slots : q.occupants[t] \in W \cup {NoWork} => SlotFine(r, t)
    BY <2>3
  <2> HIDE DEF W
  <2> QED
    BY <1>1, <2>2, <2>4, <2>5, WholeElsewhere
<1>15. Carried(r.pending, F)
  BY <1>1, <1>8, Zenon
<1>16. Settled(r) /\ (q.in_round <=> q.pending # <<>>)
  BY <1>4, <1>6, <1>8 DEF Sane, Settled
<1>17. ~q.in_round => Between(r)
  <2> SUFFICES ASSUME ~q.in_round, NEW v \in Works
               PROVE  r.rec[v].state \notin Terminal /\ ~r.rec[v].cancel_requested
    BY DEF Between
  <2>1. Between(q)
    BY DEF Sane
  <2>2. CASE v = w
    BY <1>4, <1>6, <1>8, <2>2 DEF Terminal
  <2>3. CASE v # w
    BY <1>6, <1>8, <2>1, <2>3 DEF Between
  <2> QED
    BY <2>2, <2>3
<1> QED
  BY <1>8, <1>14, <1>15, <1>16, <1>17 DEF Sane

(* vx_batch_scheduler_forget_result *)
LEMMA ForgetKeeps ==
  ASSUME NEW q, Sane(q), NEW w,
         NEW r, r = [q EXCEPT !.results = Keep(@, {x \in Range(@) : x.work # w})]
  PROVE  Sane(r)
<1> DEFINE S == {x \in Range(q.results) : x.work # w}  K == Keep(q.results, S)
<1>1. PICK F \in Flights : Whole(q, F) /\ Carried(q.pending, F)
  BY DEF Sane
<1>2. /\ q \in Scheds /\ Sound(q.cache) /\ NamedOnce(q) /\ q.results \in Seq(Result)
      /\ \A t \in Slots : SlotFine(q, t)
  BY <1>1 DEF Whole, Scheds
<1>3. /\ K \in Seq(Result) /\ Range(K) = Range(q.results) \cap S /\ IsInjective(K)
  <2>1. IsInjective(q.results)
    BY <1>2 DEF NamedOnce, IsInjective
  <2> HIDE DEF S
  <2> QED
    BY <1>2, <2>1, KeepSeen
<1>4. r = [q EXCEPT !.results = K]
  OBVIOUS
<1> HIDE DEF K
<1>5. /\ r \in Scheds /\ r.results = K /\ r.cache = q.cache /\ r.rec = q.rec
      /\ r.occupants = q.occupants /\ r.queue = q.queue /\ r.requests = q.requests
      /\ r.pending = q.pending /\ r.in_round = q.in_round
  BY <1>2, <1>3, <1>4 DEF Scheds
<1>6. \A i \in DOMAIN K : \E j \in DOMAIN q.results : K[i] = q.results[j]
  <2> TAKE i \in DOMAIN K
  <2>1. K[i] \in Range(q.results)
    BY <1>3 DEF Range
  <2> QED
    BY <2>1 DEF Range
<1>7. \A i, j \in DOMAIN K : K[i].work = K[j].work => i = j
  <2> SUFFICES ASSUME NEW i \in DOMAIN K, NEW j \in DOMAIN K, K[i].work = K[j].work
               PROVE  i = j
    OBVIOUS
  <2>1. PICK m \in DOMAIN q.results, n \in DOMAIN q.results :
          K[i] = q.results[m] /\ K[j] = q.results[n]
    BY <1>6
  <2>2. m = n
    BY <1>2, <2>1 DEF NamedOnce
  <2>3. K[i] = K[j]
    BY <2>1, <2>2
  <2> QED
    BY <1>3, <2>3 DEF IsInjective
<1>8. NamedOnce(r)
  <2>1. \A i, j \in DOMAIN r.results : r.results[i].work = r.results[j].work => i = j
    BY <1>5, <1>7
  <2>2. IsInjective(r.queue) /\ IsInjective(r.requests)
    BY <1>2, <1>5 DEF NamedOnce
  <2> QED
    BY <2>1, <2>2 DEF NamedOnce
<1>9. \A v : HasResult(r, v) => HasResult(q, v)
  BY <1>5, <1>6 DEF HasResult
<1>10. Elsewhere(q, r, {})
  BY <1>5, <1>9 DEF Elsewhere, Untouched
<1>11. \A t \in Slots : SlotFine(r, t)
  BY <1>2, <1>5 DEF SlotFine
<1>12. Whole(r, F)
  <2>1. Sound(r.cache) /\ r \in Scheds /\ {} \in SUBSET Works
    BY <1>2, <1>5
  <2> DEFINE W == {}
  <2>2. Elsewhere(q, r, W) /\ (\A x \in W : Good(r, x, F[x])) /\ W \in SUBSET Works
    BY <1>10
  <2> HIDE DEF W
  <2> QED
    BY <1>1, <1>8, <1>11, <2>1, <2>2, WholeElsewhere
<1>13. Carried(r.pending, F)
  BY <1>1, <1>5, Zenon
<1> QED
  BY <1>5, <1>12, <1>13 DEF Sane, Settled, Between

(* Time passes. *)
LEMMA AgeKeeps ==
  ASSUME NEW q, Sane(q), NEW w \in Works, NEW r, r = [q EXCEPT !.aged = @ \cup {w}]
  PROVE  Sane(r)
<1>1. PICK F \in Flights : Whole(q, F) /\ Carried(q.pending, F)
  BY DEF Sane
<1>2. q \in Scheds
  BY <1>1 DEF Whole
<1>3. /\ r \in Scheds /\ r.results = q.results /\ r.cache = q.cache /\ r.rec = q.rec
      /\ r.occupants = q.occupants /\ r.queue = q.queue /\ r.requests = q.requests
      /\ r.pending = q.pending /\ r.in_round = q.in_round
  BY <1>2 DEF Scheds
<1>4. Whole(r, F)
  BY <1>1, <1>3, WholeBesides
<1>5. Carried(r.pending, F)
  BY <1>1, <1>3, Zenon
<1> QED
  BY <1>3, <1>4, <1>5 DEF Sane, Settled, Between

-----------------------------------------------------------------------------
(* The invariant is inductive.                                             *)

(* An empty scheduler. *)
LEMMA InitSane == Init => IInv
<1> SUFFICES ASSUME Init PROVE Sane(sched)
  BY DEF IInv
<1>1. /\ sched.cache = EmptyCache /\ sched.rec = [w \in Works |-> NoRecord]
      /\ sched.requests = <<>> /\ sched.queue = <<>> /\ sched.results = <<>>
      /\ sched.pending = <<>> /\ sched.occupants = [s \in Slots |-> NoWork]
      /\ sched.in_round = FALSE
  BY DEF Init
<1>2. EmptyCache \in CacheType /\ Sound(EmptyCache)
  BY EmptyCacheSound DEF Sound
<1>3. sched \in Scheds
  <2>1. /\ <<>> \in Seq(Works) /\ <<>> \in Seq(Result) /\ <<>> \in Seq(Dispatches)
    OBVIOUS
  <2>2. [w \in Works |-> NoRecord] \in [Works -> Record]
    BY RecordTypes
  <2>3. [s \in Slots |-> NoWork] \in [Slots -> Works \cup {NoWork}]
    OBVIOUS
  <2> HIDE DEF EmptyCache
  <2> QED
    BY <1>2, <2>1, <2>2, <2>3 DEF Init, Scheds
<1>4. Range(sched.queue) = {} /\ Range(sched.requests) = {}
  <2>1. Range(<<>>) = {}
    BY DEF Range
  <2> QED
    BY <1>1, <2>1, Zenon
<1>5. NamedOnce(sched) /\ \A v : ~HasResult(sched, v)
  BY <1>1 DEF NamedOnce, HasResult, IsInjective
<1>6. ASSUME NEW s \in Slots PROVE SlotFine(sched, s)
  <2>1. EmptyCache.kv_length[s] = 0 /\ ~Open(EmptyCache, s)
    BY DEF EmptyCache, Open, NoReservation
  <2> QED
    BY <1>1, <2>1 DEF SlotFine
<1>7. ASSUME NEW w \in Works PROVE Good(sched, w, AllRest[w])
  <2>1. sched.rec[w] = NoRecord /\ AllRest[w] = Rest
    BY <1>1 DEF AllRest
  <2>2. Listed(sched, w, Rest)
    BY <1>4, <1>5, <2>1, RecordTypes DEF Listed, Live, Admitted
  <2>3. Owning(sched, w, Rest)
    BY <2>1, RecordTypes DEF Owning
  <2>4. Travelling(sched, w, Rest)
    BY RecordTypes DEF Travelling
  <2> QED
    BY <2>1, <2>2, <2>3, <2>4 DEF Good
<1>8. Whole(sched, AllRest)
  BY <1>1, <1>2, <1>3, <1>5, <1>6, <1>7, RecordTypes DEF Whole
<1>9. Carried(sched.pending, AllRest)
  BY <1>1, RestCarried, Zenon
<1>10. Settled(sched) /\ Between(sched)
  BY <1>1, RecordTypes DEF Settled, Between, Terminal
<1> QED
  BY <1>1, <1>8, <1>9, <1>10, RecordTypes DEF Sane

(* Every call of the callers and of the worker keeps the invariant. *)
LEMMA NextSane ==
  ASSUME IInv, [Next]_sched
  PROVE  IInv'
<1>0. Sane(sched)
  BY DEF IInv
<1> SUFFICES Sane(sched')
  BY DEF IInv
<1>1. CASE Close
  <2>1. PICK drain \in BOOLEAN : sched' = CloseLocked(sched, drain)
    BY <1>1 DEF Close, CloseAsync
  <2> QED
    BY <1>0, <2>1, CloseKeeps
<1>2. CASE AgeOut
  <2>1. PICK w \in Range(sched.queue) \ sched.aged : sched' = [sched EXCEPT !.aged = @ \cup {w}]
    BY <1>2 DEF AgeOut
  <2>2. w \in Works
    <3>1. sched.queue \in Seq(Works)
      BY <1>0 DEF Sane, Whole, Scheds
    <3> QED
      BY <2>1, <3>1 DEF Range
  <2> QED
    BY <1>0, <2>1, <2>2, AgeKeeps
<1>3. ASSUME NEW w \in Works, Submit(w) PROVE Sane(sched')
  BY <1>0, <1>3, SubmitKeeps DEF Submit
<1>4. ASSUME NEW w \in Works, Cancel(w) PROVE Sane(sched')
  BY <1>0, <1>4, CancelKeeps DEF Cancel
<1>5. ASSUME NEW w \in Works, ForgetResult(w) PROVE Sane(sched')
  BY <1>0, <1>5, ForgetKeeps DEF ForgetResult
<1>6. CASE NextDispatch
  <2>1. CASE sched.pending = <<>> /\ sched' = Expose(Step(sched))
    <3>1. Sane(Step(sched))
      BY <1>0, <2>1, StepKeeps
    <3> QED
      BY <2>1, <3>1, ExposeKeeps
  <2>2. CASE sched' = Expose(sched)
    BY <1>0, <2>2, ExposeKeeps
  <2> QED
    BY <1>6, <2>1, <2>2 DEF NextDispatch
<1>7. CASE CompleteAny
  <2>1. PICK ok, finished : Complete(ok, finished)
    BY <1>7 DEF CompleteAny
  <2> DEFINE settled == [Settle(sched, Head(sched.pending), ok, finished)
                           EXCEPT !.pending = Tail(@)]
  <2>2. /\ sched.pending # <<>>
        /\ sched' = IF settled.pending = <<>> THEN FinishRound(settled) ELSE settled
    BY <2>1 DEF Complete
  <2>3. settled = [Settle(sched, Head(sched.pending), ok, finished) EXCEPT !.pending = Tail(@)]
    OBVIOUS
  <2> HIDE DEF settled
  <2> QED
    BY <1>0, <2>2, <2>3, CompleteKeeps
<1>8. CASE UNCHANGED sched
  BY <1>0, <1>8
<1> QED
  BY <1>1, <1>2, <1>3, <1>4, <1>5, <1>6, <1>7, <1>8 DEF Next, Callers

-----------------------------------------------------------------------------
(* What the invariant says.                                                *)

(* The types. *)
LEMMA SaneTyped == IInv => TypeOK
<1> SUFFICES ASSUME IInv PROVE TypeOK
  OBVIOUS
<1>1. sched \in Scheds
  BY DEF IInv, Sane, Whole
<1> QED
  BY <1>1 DEF Scheds, TypeOK

(* Slots and their occupants. *)
LEMMA SaneSlots == IInv => SlotsFollowWork
<1> SUFFICES ASSUME IInv PROVE SlotsFollowWork
  OBVIOUS
<1>1. PICK F \in Flights : Whole(sched, F) /\ Carried(sched.pending, F)
  BY DEF IInv, Sane
<1>2. /\ Sound(sched.cache) /\ sched.cache \in CacheType
      /\ \A s \in Slots : SlotFine(sched, s)
      /\ \A w \in Works : Good(sched, w, F[w])
  BY <1>1 DEF Whole, Sound
<1>3. ASSUME NEW w \in Works, sched.rec[w].slot # NoSlot
      PROVE  /\ Holder(sched.rec[w].slot) = w
             /\ sched.cache.slot_generation[sched.rec[w].slot] = sched.rec[w].slot_generation
             /\ sched.cache.kv_length[sched.rec[w].slot] =
                  sched.rec[w].prefilled + sched.rec[w].generated
             /\ sched.rec[w].prefilled <= Work[w].prompt_tokens
             /\ sched.rec[w].generated <= Work[w].max_tokens
  <2>1. F[w] = Rest \/ F[w].at = "flying"
    BY <1>1, RestOrFlying
  <2>2. Ahead(F[w]) = 0 /\ F[w].at # "leaving"
    BY <2>1, RecordTypes DEF Ahead
  <2>3. Owning(sched, w, F[w]) /\ sched.rec[w] \in Record /\ Work[w].max_tokens \in Nat
    BY <1>1, <1>2, Numbers DEF Good, Whole, Scheds
  <2>4. sched.rec[w].prefilled \in Nat /\ sched.rec[w].generated \in Nat
    BY <2>3 DEF Record
  <2>5. /\ sched.cache.kv_length[sched.rec[w].slot] =
             sched.rec[w].prefilled + sched.rec[w].generated + 0
        /\ sched.rec[w].generated < Work[w].max_tokens
        /\ sched.rec[w].prefilled <= Work[w].prompt_tokens
        /\ sched.occupants[sched.rec[w].slot] = w
        /\ sched.cache.slot_generation[sched.rec[w].slot] = sched.rec[w].slot_generation
    BY <1>3, <2>2, <2>3 DEF Owning
  <2> QED
    BY <2>3, <2>4, <2>5 DEF Holder
<1>4. ASSUME NEW s \in Slots, Holder(s) # NoWork
      PROVE  sched.rec[Holder(s)].slot = s
  BY <1>2, <1>4 DEF SlotFine, Holder
<1>5. ASSUME NEW s \in Slots, Holder(s) = NoWork
      PROVE  /\ PagesOf(sched.cache.page_table[s]) = {}
             /\ sched.cache.kv_length[s] = 0
             /\ sched.cache.slot_prefix[s] = NoKey
             /\ ~Open(sched.cache, s)
  <2>1. sched.cache.kv_length[s] = 0 /\ ~Open(sched.cache, s)
    BY <1>2, <1>5 DEF SlotFine, Holder
  <2>2. sched.cache.slot_prefix[s] = NoKey
    BY <1>2, <2>1 DEF Sound, GraftsCounted
  <2>4. \A l \in Logical : sched.cache.page_table[s][l] = Unmapped
    BY <1>2, <2>1, EmptySlotMap DEF EmptyMap
  <2>5. PagesOf(sched.cache.page_table[s]) = {}
    BY <2>4 DEF PagesOf
  <2> QED
    BY <2>1, <2>2, <2>5
<1>6. SlotOwnership
  BY <1>3, <1>4, <1>5 DEF SlotOwnership
<1>7. LengthIsProgress
  BY <1>3 DEF LengthIsProgress
<1> QED
  BY <1>6, <1>7 DEF SlotsFollowWork

(* The members of the pending dispatches are the works that fly. *)
LEMMA MembersFly ==
  ASSUME NEW q, NEW F, Whole(q, F), Carried(q.pending, F),
         NEW i \in DOMAIN q.pending, NEW m \in DOMAIN q.pending[i].members
  PROVE  LET d == q.pending[i]
             w == d.members[m]
         IN  /\ d \in Dispatches /\ Made(d) /\ w \in Works /\ F[w] = FlightOf(d, m)
             /\ F[w].at = "flying" /\ F[w].kind = d.kind
             /\ StillOwned(q, d, m)
             /\ d.kind # "stateless" =>
                  /\ Open(q.cache, d.slot[m])
                  /\ q.cache.reservation[d.slot[m]].tokens = d.rows
                  /\ d.slot[m] # NoSlot /\ q.rec[w].slot = d.slot[m]
<1> DEFINE d == q.pending[i]  w == d.members[m]
<1>1. d \in Dispatches
  BY DEF Whole, Scheds
<1>2. w \in Works /\ Made(d) /\ F[w] = FlightOf(d, m)
  BY <1>1 DEF Dispatches, Carried
<1> HIDE DEF d, w
<1>3. /\ F[w].at = "flying" /\ F[w].kind = d.kind /\ F[w].rows = d.rows
      /\ F[w].slot = d.slot[m] /\ F[w].generation = d.generation[m]
  BY <1>2 DEF FlightOf
<1>4. Good(q, w, F[w])
  BY <1>2 DEF Whole
<1>5. CASE d.kind = "stateless"
  <2>1. q.rec[w].state \in {"queued"} \cup Terminal
    BY <1>3, <1>4, <1>5 DEF Good, Travelling
  <2>2. StillOwned(q, d, m)
    BY <1>5, <2>1 DEF StillOwned, Terminal, w
  <2> QED
    BY <1>1, <1>2, <1>3, <1>5, <2>2 DEF d, w
<1>6. CASE d.kind # "stateless"
  <2>1. /\ d.slot[m] # NoSlot /\ q.rec[w].slot = d.slot[m]
        /\ q.rec[w].slot_generation = d.generation[m]
        /\ q.cache.reservation[d.slot[m]].tokens = d.rows
        /\ q.rec[w].state \in Admitted
    BY <1>3, <1>4, <1>6 DEF Good, Travelling, Admitted
  <2>2. /\ Open(q.cache, d.slot[m])
        /\ q.cache.slot_generation[d.slot[m]] = d.generation[m]
    BY <1>3, <1>4, <2>1 DEF Good, Owning
  <2>3. StillOwned(q, d, m)
    BY <1>6, <2>1, <2>2 DEF StillOwned, Admitted, w
  <2> QED
    BY <1>1, <1>2, <1>3, <2>1, <2>2, <2>3 DEF d, w
<1> QED
  BY <1>5, <1>6

(* Members and InFlightSlots, place by place. *)
LEMMA MembersSeen ==
  ASSUME sched.pending \in Seq(Dispatches)
  PROVE  /\ \A w : w \in Members <=>
              \E i \in DOMAIN sched.pending : \E m \in DOMAIN sched.pending[i].members :
                sched.pending[i].members[m] = w
         /\ \A s : s \in InFlightSlots <=>
              /\ s # NoSlot
              /\ \E i \in DOMAIN sched.pending : \E m \in DOMAIN sched.pending[i].slot :
                   sched.pending[i].slot[m] = s
<1>1. Range(sched.pending) = {sched.pending[i] : i \in DOMAIN sched.pending}
  BY DEF Range
<1>2. \A w : w \in Members <=> \E i \in DOMAIN sched.pending : w \in Range(sched.pending[i].members)
  BY <1>1 DEF Members
<1>3. \A s : s \in InFlightSlots <=>
        s # NoSlot /\ \E i \in DOMAIN sched.pending : s \in Range(sched.pending[i].slot)
  <2> DEFINE U == UNION {Range(d.slot) : d \in Range(sched.pending)}
  <2>1. \A s : s \in U <=> \E i \in DOMAIN sched.pending : s \in Range(sched.pending[i].slot)
    BY <1>1
  <2>2. InFlightSlots = U \ {NoSlot}
    BY DEF InFlightSlots
  <2> HIDE DEF U
  <2> QED
    BY <2>1, <2>2
<1> QED
  BY <1>2, <1>3 DEF Range

(* Slots under a dispatch. *)
LEMMA SaneFlights == IInv => InFlightIntact
<1> SUFFICES ASSUME IInv PROVE InFlightIntact
  OBVIOUS
<1> DEFINE P == sched.pending
<1>1. PICK F \in Flights : Whole(sched, F) /\ Carried(P, F)
  BY DEF IInv, Sane
<1>2. /\ \A s \in Slots : SlotFine(sched, s)
      /\ \A w \in Works : Good(sched, w, F[w])
      /\ \A s \in Slots : sched.occupants[s] = NoWork \/ sched.occupants[s] \in Works
      /\ \A w \in Works : ~sched.rec[w].pending
      /\ P \in Seq(Dispatches)
  BY <1>1 DEF Whole, Scheds, IInv, Sane, Settled
<1>3. ASSUME NEW i \in DOMAIN P, NEW m \in DOMAIN P[i].members
      PROVE  /\ StillOwned(sched, P[i], m)
             /\ P[i].kind # "stateless" =>
                  /\ Open(sched.cache, P[i].slot[m])
                  /\ sched.cache.reservation[P[i].slot[m]].tokens = P[i].rows
             /\ \A j \in DOMAIN P : \A n \in DOMAIN P[j].members :
                  P[j].members[n] = P[i].members[m] => i = j /\ m = n
  <2>1. /\ StillOwned(sched, P[i], m)
        /\ P[i].kind # "stateless" =>
             /\ Open(sched.cache, P[i].slot[m])
             /\ sched.cache.reservation[P[i].slot[m]].tokens = P[i].rows
    BY <1>1, MembersFly
  <2>2. \A j \in DOMAIN P : \A n \in DOMAIN P[j].members :
          P[j].members[n] = P[i].members[m] => i = j /\ m = n
    BY <1>1 DEF Carried
  <2> QED
    BY <2>1, <2>2
<1>4. ASSUME NEW s \in Slots, Open(sched.cache, s)
      PROVE  s \in InFlightSlots
  <2> DEFINE w == sched.occupants[s]
  <2>1. w \in Works /\ sched.rec[w].slot = s /\ s # NoSlot
    BY <1>2, <1>4, Numbers DEF SlotFine
  <2> HIDE DEF w
  <2>2. Good(sched, w, F[w]) /\ ~sched.rec[w].pending
    BY <1>2, <2>1
  <2>3. F[w].at = "flying" /\ sched.rec[w].state \in Admitted
    BY <1>4, <2>1, <2>2 DEF Good, Owning, Listed
  <2>4. F[w] # Rest
    BY <2>3, RecordTypes
  <2>5. PICK i \in DOMAIN P : \E m \in DOMAIN P[i].members : P[i].members[m] = w
    BY <1>1, <2>1, <2>4 DEF Carried
  <2>6. PICK m \in DOMAIN P[i].members : P[i].members[m] = w
    BY <2>5
  <2>7. /\ F[w] = FlightOf(P[i], m) /\ P[i] \in Dispatches /\ Made(P[i])
        /\ F[w].kind = P[i].kind
        /\ P[i].kind # "stateless" => sched.rec[w].slot = P[i].slot[m]
    BY <1>1, <2>6, MembersFly
  <2>8. P[i].kind # "stateless"
    BY <2>2, <2>3, <2>7 DEF Good, Travelling, Admitted, Terminal
  <2>9. m \in DOMAIN P[i].slot
    BY <2>7 DEF Made, Dispatches
  <2> QED
    BY <1>2, <2>1, <2>7, <2>8, <2>9, MembersSeen
<1>5. ASSUME NEW s \in Slots, s \in InFlightSlots
      PROVE  Open(sched.cache, s)
  <2>1. s # NoSlot
    BY Numbers
  <2>2. PICK i \in DOMAIN P : \E m \in DOMAIN P[i].slot : P[i].slot[m] = s
    BY <1>2, <1>5, MembersSeen
  <2>3. PICK m \in DOMAIN P[i].slot : P[i].slot[m] = s
    BY <2>2
  <2>4. P[i] \in Dispatches /\ Made(P[i])
    BY <1>1, <1>2 DEF Carried
  <2>5. m \in DOMAIN P[i].members
    BY <2>4 DEF Made, Dispatches
  <2>6. P[i].kind # "stateless"
    BY <2>1, <2>3, <2>4, <2>5 DEF Made
  <2> QED
    BY <1>3, <2>3, <2>5, <2>6
<1>6. ASSUME NEW s \in Slots
      PROVE  Open(sched.cache, s) <=>
               s \in InFlightSlots \/ (Holder(s) # NoWork /\ sched.rec[Holder(s)].pending)
  <2>1. ~(Holder(s) # NoWork /\ sched.rec[Holder(s)].pending)
    BY <1>2 DEF Holder
  <2> QED
    BY <1>4, <1>5, <2>1
<1> QED
  BY <1>3, <1>6 DEF InFlightIntact

(* How often a list without repetition names something. *)
LEMMA NamedHow ==
  ASSUME NEW seq \in Seq(Works), IsInjective(seq), NEW w
  PROVE  Cardinality({i \in DOMAIN seq : seq[i] = w}) = IF w \in Range(seq) THEN 1 ELSE 0
<1> DEFINE S == {i \in DOMAIN seq : seq[i] = w}
<1>1. CASE w \in Range(seq)
  <2>1. PICK i \in DOMAIN seq : seq[i] = w
    BY <1>1 DEF Range
  <2>2. S = {i}
    BY <2>1 DEF IsInjective
  <2>3. Cardinality({i}) = 1
    BY FS_Singleton
  <2>4. Cardinality(S) = 1
    BY <2>2, <2>3, Zenon
  <2> QED
    BY <1>1, <2>4
<1>2. CASE w \notin Range(seq)
  <2>1. S = {}
    BY <1>2 DEF Range
  <2>2. Cardinality(S) = 0
    BY <2>1, FS_EmptySet, Zenon
  <2> QED
    BY <1>2, <2>2
<1> QED
  BY <1>1, <1>2

(* Where work is. *)
LEMMA SaneCounted == IInv => WorkAccounted
<1> SUFFICES ASSUME IInv, NEW w \in Works
             PROVE  LET queued == Cardinality({i \in DOMAIN sched.queue : sched.queue[i] = w})
                        live == sched.rec[w].state \in Live
                    IN  /\ live <=> queued = 1 \/ sched.rec[w].slot # NoSlot
                                      \/ (sched.rec[w].state = "queued" /\ w \in Members)
                        /\ queued <= 1
                        /\ queued = 1 => sched.rec[w].state = "queued" /\ w \notin Members
                        /\ Cardinality(ResultsFor(sched, w)) <= 1
                        /\ live => ResultsFor(sched, w) = {}
                        /\ w \in Range(sched.requests) <=> sched.rec[w].state # "unknown"
  BY DEF WorkAccounted
<1> DEFINE queued == Cardinality({i \in DOMAIN sched.queue : sched.queue[i] = w})
           e == sched.rec[w]
<1>1. PICK F \in Flights : Whole(sched, F) /\ Carried(sched.pending, F)
  BY DEF IInv, Sane
<1>2. /\ sched \in Scheds /\ NamedOnce(sched) /\ Good(sched, w, F[w])
      /\ sched.queue \in Seq(Works) /\ sched.pending \in Seq(Dispatches)
      /\ sched.results \in Seq(Result)
  BY <1>1 DEF Whole, Scheds
<1>3. queued = IF w \in Range(sched.queue) THEN 1 ELSE 0
  <2>1. IsInjective(sched.queue)
    BY <1>2 DEF NamedOnce
  <2> QED
    BY <1>2, <2>1, NamedHow
<1> HIDE DEF queued
<1>4. w \in Members => F[w].at = "flying"
  <2> SUFFICES ASSUME w \in Members PROVE F[w].at = "flying"
    OBVIOUS
  <2>1. PICK i \in DOMAIN sched.pending : \E m \in DOMAIN sched.pending[i].members :
          sched.pending[i].members[m] = w
    BY <1>2, MembersSeen
  <2> QED
    BY <1>1, <2>1, MembersFly
<1>5. F[w] # Rest => w \in Members
  <2> SUFFICES ASSUME F[w] # Rest PROVE w \in Members
    OBVIOUS
  <2>1. \E i \in DOMAIN sched.pending : \E m \in DOMAIN sched.pending[i].members :
          sched.pending[i].members[m] = w
    BY <1>1 DEF Carried
  <2> QED
    BY <1>2, <2>1, MembersSeen
<1>6. /\ e.state \in Live <=> e.state = "queued" \/ e.state \in Admitted
      /\ w \in Range(sched.queue) => e.state = "queued" /\ F[w].at = "rest"
      /\ e.state = "queued" => w \in Range(sched.queue) \/ F[w].at # "rest"
      /\ e.slot # NoSlot <=> e.state \in Admitted
      /\ e.state \in Live => ~HasResult(sched, w)
      /\ w \in Range(sched.requests) <=> e.state # "unknown"
  BY <1>2 DEF Good, Listed, Live, Admitted
<1>7. e.state \in Live => ResultsFor(sched, w) = {}
  BY <1>6 DEF HasResult, ResultsFor
<1>8. Cardinality(ResultsFor(sched, w)) <= 1
  <2>1. CASE ResultsFor(sched, w) = {}
    <3>1. Cardinality(ResultsFor(sched, w)) = 0
      BY <2>1, FS_EmptySet, Zenon
    <3> QED
      BY <3>1
  <2>2. CASE ResultsFor(sched, w) # {}
    <3>1. PICK i : i \in ResultsFor(sched, w)
      BY <2>2
    <3>2. ResultsFor(sched, w) = {i}
      BY <1>2, <3>1 DEF NamedOnce, ResultsFor
    <3>3. Cardinality(ResultsFor(sched, w)) = 1
      BY <3>2, FS_Singleton, Zenon
    <3> QED
      BY <3>3
  <2> QED
    BY <2>1, <2>2
<1>9. e.state \in Live <=> queued = 1 \/ e.slot # NoSlot \/ (e.state = "queued" /\ w \in Members)
  <2>1. CASE e.state = "queued"
    <3>1. w \in Range(sched.queue) \/ w \in Members
      BY <1>5, <1>6, <2>1, RecordTypes
    <3> QED
      BY <1>3, <1>6, <2>1, <3>1
  <2>2. CASE e.state # "queued"
    BY <1>3, <1>6, <2>2
  <2> QED
    BY <2>1, <2>2
<1>10. queued <= 1 /\ (queued = 1 => e.state = "queued" /\ w \notin Members)
  BY <1>3, <1>4, <1>6
<1> QED
  BY <1>6, <1>7, <1>8, <1>9, <1>10 DEF queued

(* Between rounds. *)
LEMMA SaneRounds == IInv => RoundsAreClosed
<1> SUFFICES ASSUME IInv PROVE RoundsAreClosed
  OBVIOUS
<1>1. PICK F \in Flights : Whole(sched, F) /\ Carried(sched.pending, F)
  BY DEF IInv, Sane
<1>2. /\ Settled(sched) /\ (sched.in_round <=> sched.pending # <<>>)
      /\ ~sched.in_round => Between(sched)
  BY DEF IInv, Sane
<1>3. ASSUME ~sched.in_round, NEW s \in Slots, Open(sched.cache, s)
      PROVE  FALSE
  <2>1. F = AllRest
    <3>1. sched.pending = <<>>
      BY <1>2, <1>3
    <3>2. Carried(<<>>, F)
      BY <1>1, <3>1, Zenon
    <3> QED
      BY <3>2, NothingCarried
  <2> DEFINE w == sched.occupants[s]
  <2>2. w \in Works /\ sched.rec[w].slot = s /\ s # NoSlot
    <3>1. SlotFine(sched, s) /\ (w = NoWork \/ w \in Works)
      BY <1>1 DEF Whole, Scheds
    <3> QED
      BY <1>3, <3>1, Numbers DEF SlotFine
  <2> HIDE DEF w
  <2>3. Good(sched, w, F[w]) /\ ~sched.rec[w].pending /\ F[w] = Rest
    BY <1>1, <1>2, <2>1, <2>2 DEF Whole, Settled, AllRest
  <2> QED
    BY <1>3, <2>2, <2>3, RecordTypes DEF Good, Owning
<1> QED
  BY <1>2, <1>3 DEF RoundsAreClosed, Between

(* The size of a dispatch. *)
LEMMA SaneSizes == IInv => DispatchWithinBudget
<1> SUFFICES ASSUME IInv, NEW i \in DOMAIN sched.pending
             PROVE  LET d == sched.pending[i]
                        useful == Len(d.members)
                        padding == IF d.kind = "stateless" THEN (- useful) % MultipleOf ELSE 0
                    IN  /\ useful > 0 /\ useful + padding <= MaxSlots
                        /\ (useful + padding) * d.rows <= TokenBudget
                        /\ \A v, w \in Range(d.members) : KeyOf(v) = KeyOf(w)
  BY DEF DispatchWithinBudget
<1>1. Made(sched.pending[i])
  BY DEF IInv, Sane, Carried
<1> QED
  BY <1>1 DEF Made, Padding

-----------------------------------------------------------------------------
(* The theorems.                                                           *)

(* What is true of the empty scheduler and kept by every call, whatever    *)
(* the order of submissions, cancellations, closing and completions.       *)
THEOREM AlwaysSane == Spec => []IInv
<1>1. IInv /\ [Next]_sched => IInv'
  BY NextSane
<1> QED
  BY <1>1, InitSane, PTL DEF Spec

(* Records, lists, dispatches and the cache keep their types: in           *)
(* particular no counter of the cache goes below zero.                     *)
THEOREM SchedulerTyped == Spec => []TypeOK
BY AlwaysSane, SaneTyped, PTL

(* A slot and its occupant agree in both directions, the cache holds       *)
(* exactly the tokens that were computed for the occupant, and a slot      *)
(* without occupant keeps nothing.                                         *)
THEOREM SlotsAlwaysFollowWork == Spec => []SlotsFollowWork
BY AlwaysSane, SaneSlots, PTL

(* Until a dispatch is settled its members keep their slots, generations   *)
(* and reservations, and no member is in two dispatches.                   *)
THEOREM FlightsAlwaysIntact == Spec => []InFlightIntact
BY AlwaysSane, SaneFlights, PTL

(* Accepted work is in one place until it ends, and has one result then.   *)
THEOREM WorkAlwaysAccounted == Spec => []WorkAccounted
BY AlwaysSane, SaneCounted, PTL

(* A round leaves no reservation, terminal record or deferred cancellation *)
(* behind.                                                                 *)
THEOREM RoundsAlwaysClosed == Spec => []RoundsAreClosed
BY AlwaysSane, SaneRounds, PTL

(* A dispatch never exceeds its width and its token budget, padding        *)
(* included, and stacks requests of one group only.                        *)
THEOREM DispatchesWithinBudget == Spec => []DispatchWithinBudget
BY AlwaysSane, SaneSizes, PTL
=============================================================================
