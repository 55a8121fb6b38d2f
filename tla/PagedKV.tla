------------------------------ MODULE PagedKV -------------------------------
(***************************************************************************)
(* The paged KV cache under any legal sequence of public calls.  Every     *)
(* caller in the runtime holds one lock around a call (the batch queue's   *)
(* mutex, an execution context's cache_mutex), so a call is one step, and  *)
(* calls for different slots interleave between a reservation and its      *)
(* settlement.                                                             *)
(***************************************************************************)
EXTENDS PagedKVCache

VARIABLE cache

Lengths == 0 .. SlotTokenCapacity

-----------------------------------------------------------------------------
CacheInit == cache = EmptyCache

ReserveStep(s) == \E n \in Lengths : ReserveOK(cache, s, n) /\ cache' = Reserve(cache, s, n)

ReserveWriteStep(s) ==
  \E n \in Lengths, position \in 0 .. SlotTokenCapacity - 1 :
    /\ ReserveWriteOK(cache, s, n, position)
    /\ cache' = ReserveWrite(cache, s, n, position)

ShortenStep(s) ==
  \E n \in Lengths : ShortenOK(cache, s, n) /\ cache' = Shorten(cache, s, n)

CommitBatch == \E S \in SUBSET Slots \ {{}} : CommitOK(cache, S) /\ cache' = Commit(cache, S)

RollbackBatch ==
  \E S \in SUBSET Slots \ {{}} : RollbackOK(cache, S) /\ cache' = Rollback(cache, S)

AppendStep(s) ==
  \E n \in Lengths : AppendOK(cache, s, n) /\ cache' = AppendTokens(cache, s, n)

ReleaseStep(s) == ReleaseSlotOK(cache, s) /\ cache' = ReleaseSlot(cache, s)

ResetStep == ResetOK(cache) /\ cache' = Reset(cache)

PublishStep(k, s) ==
  \E n \in Lengths : PublishOK(cache, k, s, n) /\ cache' = Publish(cache, k, s, n)

AcquireStep(k, s) == AcquireOK(cache, k, s) /\ cache' = Acquire(cache, k, s)

CopyOnWriteStep(s) ==
  \E l \in Logical : CopyOnWriteOK(cache, s, l) /\ cache' = CopyOnWrite(cache, s, l)

EvictStep == \E n \in 0 .. MaxPages : cache' = Evict(cache, n)

CacheNext ==
  \/ \E s \in Slots : \/ ReserveStep(s) \/ ReserveWriteStep(s) \/ ShortenStep(s)
                      \/ AppendStep(s) \/ ReleaseStep(s) \/ CopyOnWriteStep(s)
                      \/ \E k \in Keys : PublishStep(k, s) \/ AcquireStep(k, s)
  \/ CommitBatch \/ RollbackBatch \/ ResetStep \/ EvictStep

CacheSpec == CacheInit /\ [][CacheNext]_cache

-----------------------------------------------------------------------------
(* Every field of the cache keeps its type: lengths, generations and       *)
(* reference counts never go below zero, page tables name real pages.      *)
CacheTypeOK == cache \in CacheType

(* Who holds page p: the slots that map it, the live prefixes that list    *)
(* it, and the open copy-on-write transitions that still need its bytes.   *)
Holders(p) ==
  ({"slot"} \X {s \in Slots : p \in PagesOf(cache.page_table[s])})
    \cup ({"prefix"} \X {k \in LiveKeys(cache) : p \in PagesOf(cache.prefix[k].pages)})
    \cup ({"source"} \X {s \in Slots : p \in PagesOf(cache.reservation[s].prior)})

(* A page's reference count is the number of its holders, whatever mixture *)
(* of reservations, rollbacks, sharing and eviction led here: one too few  *)
(* frees a page under a reader, one too many leaks it for good.            *)
RefCountIsHolders ==
  \A p \in Pages : cache.ref_count[p] = Cardinality(Holders(p))

(* The free heap is exactly the unreferenced pages. *)
FreeIffUnreferenced == cache.free = {p \in Pages : cache.ref_count[p] = 0}

(* reserved_pages, which reservation_batch_validate and telemetry rely on, *)
(* counts the pages of the reservations that are open now.                 *)
ReservedIsOpen == cache.reserved_pages = ReservedBy(cache, Slots)

(* A prefix's slot_references is the number of slots grafted on it, and a  *)
(* slot's slot_prefix is never left pointing at an evicted entry.          *)
PrefixHoldersCounted ==
  /\ \A k \in Keys : cache.prefix[k].slot_references =
                       Cardinality({s \in Slots : cache.slot_prefix[s] = k})
  /\ \A s \in Slots : cache.slot_prefix[s] \in LiveKeys(cache) \cup {NoKey}

(* Every token of a slot, committed or reserved, has a physical row of its *)
(* own.  A generation that stopped early leaves pages mapped beyond them,  *)
(* but a slot without tokens maps only what its open reservation took: a   *)
(* prefix grafted on it (vx_paged_kv_acquire_prefix) overwrites no page.   *)
TokensMapped ==
  \A s \in Slots : \A l \in Logical :
    /\ l * PageTokens < cache.kv_length[s] + cache.reservation[s].tokens
         => cache.page_table[s][l] # Unmapped
    /\ cache.page_table[s][l] # Unmapped =>
         /\ \A k \in Logical \ {l} : cache.page_table[s][k] # cache.page_table[s][l]
         /\ cache.kv_length[s] = 0 => l \in cache.reservation[s].fresh

(* Pages a slot may still append to belong to that slot alone, so an       *)
(* append can never reach the tokens of another slot or of a prefix.       *)
AppendTargetExclusive ==
  \A s \in Slots : \A l \in Logical :
    /\ l >= cache.kv_length[s] \div PageTokens
    /\ cache.page_table[s][l] # Unmapped
    => cache.ref_count[cache.page_table[s][l]] = 1

(* The callers cast the status of commit and rollback to void: an open     *)
(* reservation must be settleable in every state, with any other ones.     *)
AlwaysSettleable ==
  \A S \in SUBSET {s \in Slots : Open(cache, s)} : CommitOK(cache, S)

(* Pages are accounted for after any mixture of reservations, rollbacks,   *)
(* sharing, early stops and eviction: counted by holder, free when unheld, *)
(* mapped wherever tokens need them, and private where a slot may write,   *)
(* the pages mapped ahead of its tokens included.                          *)
PagesAccounted ==
  /\ RefCountIsHolders
  /\ FreeIffUnreferenced
  /\ PrefixHoldersCounted
  /\ TokensMapped
  /\ AppendTargetExclusive

(* reserved_pages agrees with the open reservations, so that none of them, *)
(* alone or in a batch, can ever be refused its settlement.                *)
ReservationsSettle == ReservedIsOpen /\ AlwaysSettleable

(* A live prefix keeps its pages, and the pages stay referenced, until it  *)
(* is evicted: a reader that found the key never sees it move.             *)
PrefixPagesStable(c, d) ==
  \A k \in LiveKeys(c) \cap LiveKeys(d) :
    /\ d.prefix[k].pages = c.prefix[k].pages
    /\ PagesOf(c.prefix[k].pages) \cap d.free = {}

(* A slot's committed tokens go away only together with its generation, so *)
(* work submitted for the old occupant can be recognised.                  *)
OccupantChangesGeneration(c, d) ==
  \A s \in Slots : d.kv_length[s] < c.kv_length[s] /\ MaxGeneration > 0 =>
    d.slot_generation[s] # c.slot_generation[s]

(* Eviction never takes the prefix from under a slot that is grafted on it *)
(* and never reorders it: what is evicted was used before what is kept.    *)
EvictionTakesOldestIdle(c, d) ==
  \A k \in LiveKeys(c) \ LiveKeys(d) : d.kv_length = c.kv_length =>
    /\ \A s \in Slots : c.slot_prefix[s] # k
    /\ \A j \in LiveKeys(d) : d.prefix[j].slot_references = 0 => <<k, j>> \in c.older

(* No step of anybody disturbs what others rely on: the pages behind a     *)
(* live prefix, the generation that tells occupants apart, and the prefix  *)
(* a slot is grafted on.                                                   *)
ReadersUndisturbed ==
  [][/\ PrefixPagesStable(cache, cache')
     /\ OccupantChangesGeneration(cache, cache')
     /\ EvictionTakesOldestIdle(cache, cache')]_cache
=============================================================================
