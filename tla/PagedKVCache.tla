---------------------------- MODULE PagedKVCache ----------------------------
(***************************************************************************)
(* The paged key/value cache of src/native/src/runtime/paged_kv.c as a     *)
(* library of operators: each public call is a guard "XOK(c, ...)", true   *)
(* when the C function returns VX_PAGED_KV_OK, and an effect "X(c, ...)",  *)
(* the cache it leaves.  A call that is refused leaves the cache as it was.*)
(* The state is one record so that a caller which makes several calls      *)
(* under one lock (the batch scheduler, the decode cache) can compose them *)
(* in one step.                                                            *)
(*                                                                         *)
(* Abstracted: telemetry counters, query_length, page_generation (a tag no *)
(* operation of this file reads), the byte sizes and malloc failures; a    *)
(* prefix entry is identified by its key, which prefix_find makes unique.  *)
(***************************************************************************)
EXTENDS Integers, FiniteSets, TLC

CONSTANTS NumSlots, MaxPages, PageTokens, SlotTokenCapacity,
          Contiguous,      \* VX_PAGED_KV_POLICY_CONTIGUOUS, else _PAGED
          MaxGeneration,   \* INT_MAX: where a slot's generation wraps
          Keys,            \* the prefix identities callers publish
          NoKey            \* slot_prefix = -1: the slot holds no prefix

PagesPerSlot == (SlotTokenCapacity - 1) \div PageTokens + 1
Slots == 0 .. NumSlots - 1
Logical == 0 .. PagesPerSlot - 1
Pages == 0 .. MaxPages - 1
Unmapped == -1

(* What vx_paged_kv_create requires of its options. *)
ASSUME CacheConstants ==
  /\ NumSlots \in Nat \ {0} /\ MaxPages \in Nat \ {0}
  /\ PageTokens \in Nat \ {0} /\ SlotTokenCapacity \in Nat \ {0}
  /\ MaxGeneration \in Nat /\ Contiguous \in BOOLEAN
  /\ IsFiniteSet(Keys) /\ NoKey \notin Keys
  /\ Contiguous => NumSlots * PagesPerSlot <= MaxPages

PageMap == [Logical -> Pages \cup {Unmapped}]
EmptyMap == [l \in Logical |-> Unmapped]
PagesOf(m) == {m[l] : l \in Logical} \ {Unmapped}

-----------------------------------------------------------------------------
(* A reservation holds the logical pages it mapped ("fresh") and what each *)
(* of them mapped before; a copy-on-write target has a source there.       *)
Reservation == [open: BOOLEAN, tokens: Nat, fresh: SUBSET Logical, prior: PageMap]
NoReservation == [open |-> FALSE, tokens |-> 0, fresh |-> {}, prior |-> EmptyMap]

Prefix == [live: BOOLEAN, tokens: Nat, pages: PageMap, slot_references: Int]
NoPrefix == [live |-> FALSE, tokens |-> 0, pages |-> EmptyMap, slot_references |-> 0]

(* older orders the live prefixes by last_use: <<j, k>> when j is older. *)
CacheType ==
  [page_table: [Slots -> PageMap], kv_length: [Slots -> Nat],
   slot_generation: [Slots -> 0 .. MaxGeneration],
   slot_prefix: [Slots -> Keys \cup {NoKey}],
   reservation: [Slots -> Reservation],
   ref_count: [Pages -> Nat], free: SUBSET Pages, reserved_pages: Int,
   prefix: [Keys -> Prefix], older: SUBSET (Keys \X Keys)]

EmptyCache ==
  [page_table |-> [s \in Slots |-> EmptyMap], kv_length |-> [s \in Slots |-> 0],
   slot_generation |-> [s \in Slots |-> 0],
   slot_prefix |-> [s \in Slots |-> NoKey],
   reservation |-> [s \in Slots |-> NoReservation],
   ref_count |-> [p \in Pages |-> 0], free |-> Pages, reserved_pages |-> 0,
   prefix |-> [k \in Keys |-> NoPrefix], older |-> {}]

(* f with one value replaced; unlike EXCEPT, TLC evaluates it rightly when  *)
(* an earlier call of the same step has left f to be evaluated.             *)
Put(f, x, v) == [y \in DOMAIN f |-> IF y = x THEN v ELSE f[y]]

Open(c, s) == c.reservation[s].open
LiveKeys(c) == {k \in Keys : c.prefix[k].live}
FreeCount(c) == Cardinality(c.free)
(* Fault: the counter never wraps. *)
NextGenerationUnbounded(g) == g + 1
NextGeneration(g) == IF g = MaxGeneration THEN 0 ELSE g + 1

-----------------------------------------------------------------------------
(* Pages: allocation takes the lowest free pages in logical order, or the  *)
(* identity page of a contiguous cache; release_page ignores a page nobody *)
(* references and frees one on its last reference.                         *)
IdentityPage(s, l) == s * PagesPerSlot + l
Rank(x, S) == Cardinality({y \in S : y < x})

Candidates(c, s, wanted, l) ==
  {p \in c.free : IF Contiguous THEN p = IdentityPage(s, l) /\ c.ref_count[p] = 0
                                ELSE Rank(p, c.free) = Rank(l, wanted)}
CanAllocate(c, s, wanted) == \A l \in wanted : Candidates(c, s, wanted, l) # {}
Allocation(c, s, wanted) ==
  [l \in wanted |-> CHOOSE p \in Pages : p \in Candidates(c, s, wanted, l)]

(* Map every wanted logical page of slot s to a newly allocated page. *)
Allocate(c, s, wanted) ==
  LET page == Allocation(c, s, wanted)
      taken == {page[l] : l \in wanted}
  IN  [c EXCEPT
        !.page_table = Put(@, s, [l \in Logical |-> IF l \in wanted THEN page[l]
                                                                     ELSE @[s][l]]),
        !.ref_count = [p \in Pages |-> IF p \in taken THEN 1 ELSE @[p]],
        !.free = @ \ taken]

(* Drop one reference to p for every holder in I whose map mentions p. *)
Drops(I, maps, p) == Cardinality({i \in I : p \in PagesOf(maps[i])})
Less(n, d) == IF d >= n THEN 0 ELSE n - d
ReleaseMaps(c, I, maps) ==
  [c EXCEPT !.ref_count = [p \in Pages |-> Less(@[p], Drops(I, maps, p))],
            !.free = @ \cup {p \in Pages : /\ c.ref_count[p] > 0
                                           /\ Drops(I, maps, p) >= c.ref_count[p]}]

-----------------------------------------------------------------------------
(* vx_paged_kv_reserve: map the pages the next n tokens of slot s need. *)
FirstLogical(c, s) == c.kv_length[s] \div PageTokens
LastLogical(c, s, n) == IF c.kv_length[s] + n = 0 THEN -1
                        ELSE (c.kv_length[s] + n - 1) \div PageTokens
Missing(c, s, n) ==
  {l \in FirstLogical(c, s) .. LastLogical(c, s, n) : c.page_table[s][l] = Unmapped}

ReserveOK(c, s, n) ==
  /\ ~Open(c, s)
  /\ n <= SlotTokenCapacity - c.kv_length[s]
  /\ CanAllocate(c, s, Missing(c, s, n))

Reserve(c, s, n) ==
  LET wanted == Missing(c, s, n)
  IN  [Allocate(c, s, wanted) EXCEPT
        !.reserved_pages = @ + Cardinality(wanted),
        !.reservation = Put(@, s, [open |-> TRUE, tokens |-> n, fresh |-> wanted,
                                   prior |-> EmptyMap])]

(* vx_paged_kv_reserve_write: also make the page at position writable, on *)
(* a private copy when somebody else references it.                        *)
WriteSource(c, s, position) == c.page_table[s][position \div PageTokens]
NeedsCopy(c, s, n, position) ==
  LET r == Reserve(c, s, n) IN r.ref_count[WriteSource(r, s, position)] > 1

ReserveWriteOK(c, s, n, position) ==
  /\ position < SlotTokenCapacity /\ position < c.kv_length[s] + n
  /\ ReserveOK(c, s, n)
  /\ LET r == Reserve(c, s, n) IN
       /\ WriteSource(r, s, position) # Unmapped
       /\ NeedsCopy(c, s, n, position) => CanAllocate(r, s, {position \div PageTokens})

(* Fault: the copy-on-write page is not counted as reserved. *)
ReserveWriteUncounted(c, s, n, position) ==
  LET r == Reserve(c, s, n)
      l == position \div PageTokens
  IN  IF ~NeedsCopy(c, s, n, position) THEN r
      ELSE [Allocate(r, s, {l}) EXCEPT
             !.reservation = Put(@, s, [r.reservation[s] EXCEPT
               !.fresh = @ \cup {l},
               !.prior = Put(@, l, WriteSource(r, s, position))])]
ReserveWrite(c, s, n, position) ==
  LET r == Reserve(c, s, n)
      l == position \div PageTokens
  IN  IF ~NeedsCopy(c, s, n, position) THEN r
      ELSE [Allocate(r, s, {l}) EXCEPT
             !.reserved_pages = @ + 1,
             !.reservation = Put(@, s, [r.reservation[s] EXCEPT
               !.fresh = @ \cup {l},
               !.prior = Put(@, l, WriteSource(r, s, position))])]

(* reservation_batch_validate: every slot of S has an intact reservation. *)
Settleable(c, S) ==
  /\ \A s \in S : /\ Open(c, s)
                  /\ \A l \in c.reservation[s].fresh :
                       /\ c.page_table[s][l] # Unmapped
                       /\ c.ref_count[c.page_table[s][l]] > 0
                       /\ c.reservation[s].prior[l] # Unmapped =>
                            c.ref_count[c.reservation[s].prior[l]] > 0

ReservedBy(c, S) ==
  Cardinality({x \in S \X Logical : x[2] \in c.reservation[x[1]].fresh})

(* The reservation is the caller's record.  A generation that stopped early *)
(* lowers its tokens to the n it computed, before it commits; it began     *)
(* behind at least one token.  The pages it took stay as they are.         *)
ShortenOK(c, s, n) ==
  Open(c, s) /\ c.kv_length[s] > 0 /\ n < c.reservation[s].tokens
Shorten(c, s, n) ==
  [c EXCEPT !.reservation = Put(@, s, [c.reservation[s] EXCEPT !.tokens = n])]

(* vx_paged_kv_commit_batch over the slots of S, all of them or none. *)
CommitOK(c, S) == Settleable(c, S) /\ ReservedBy(c, S) <= c.reserved_pages
(* Fault: the sources of copied pages keep their reference. *)
CommitKeepsSources(c, S) ==
  [c EXCEPT
    !.kv_length = [s \in Slots |-> IF s \in S THEN @[s] + c.reservation[s].tokens ELSE @[s]],
    !.reserved_pages = @ - ReservedBy(c, S),
    !.reservation = [s \in Slots |-> IF s \in S THEN NoReservation ELSE @[s]]]
Commit(c, S) ==
  [ReleaseMaps(c, S, [s \in S |-> c.reservation[s].prior]) EXCEPT
    !.kv_length = [s \in Slots |-> IF s \in S THEN @[s] + c.reservation[s].tokens ELSE @[s]],
    !.reserved_pages = @ - ReservedBy(c, S),
    !.reservation = [s \in Slots |-> IF s \in S THEN NoReservation ELSE @[s]]]

(* vx_paged_kv_rollback_batch: map again what the reservation replaced, *)
(* and release the pages it took.                                       *)
FreshMap(c, s) ==
  [l \in Logical |-> IF l \in c.reservation[s].fresh THEN c.page_table[s][l]
                                                     ELSE Unmapped]
RestoredMap(c, s) ==
  [l \in Logical |-> IF l \in c.reservation[s].fresh THEN c.reservation[s].prior[l]
                                                     ELSE c.page_table[s][l]]
RollbackOK(c, S) == CommitOK(c, S)
Rollback(c, S) ==
  [ReleaseMaps(c, S, [s \in S |-> FreshMap(c, s)]) EXCEPT
    !.page_table = [s \in Slots |-> IF s \in S THEN RestoredMap(c, s) ELSE @[s]],
    !.reserved_pages = @ - ReservedBy(c, S),
    !.reservation = [s \in Slots |-> IF s \in S THEN NoReservation ELSE @[s]]]

(* vx_paged_kv_append: a reservation committed at once. *)
AppendOK(c, s, n) == ReserveOK(c, s, n)
AppendTokens(c, s, n) == Commit(Reserve(c, s, n), {s})

-----------------------------------------------------------------------------
(* vx_paged_kv_release_slot: give back the prefix and every page. *)
DropPrefix(c, s) ==
  IF c.slot_prefix[s] \in LiveKeys(c)
  THEN Put(c.prefix, c.slot_prefix[s],
           [c.prefix[c.slot_prefix[s]] EXCEPT !.slot_references = @ - 1])
  ELSE c.prefix

ReleaseSlotOK(c, s) == ~Open(c, s)
ReleaseSlot(c, s) ==
  [ReleaseMaps(c, {s}, c.page_table) EXCEPT
    !.prefix = DropPrefix(c, s),
    !.slot_prefix = Put(@, s, NoKey),
    !.page_table = Put(@, s, EmptyMap),
    !.kv_length = Put(@, s, 0),
    !.slot_generation = Put(@, s, NextGeneration(@[s]))]

(* vx_paged_kv_reset: every slot, then every prefix; a no-op while any *)
(* reservation is open.                                                *)
ResetOK(c) == \A s \in Slots : ~Open(c, s)
Reset(c) ==
  LET r == ReleaseMaps(c, Slots, c.page_table)
  IN  [ReleaseMaps(r, LiveKeys(c), [k \in Keys |-> c.prefix[k].pages]) EXCEPT
        !.prefix = [k \in Keys |-> NoPrefix], !.older = {},
        !.slot_prefix = [s \in Slots |-> NoKey],
        !.page_table = [s \in Slots |-> EmptyMap],
        !.kv_length = [s \in Slots |-> 0],
        !.slot_generation = [s \in Slots |-> NextGeneration(@[s])]]

-----------------------------------------------------------------------------
(* Prefixes.  Touch makes k the most recently used of the live prefixes. *)
Forget(older, V) == {pair \in older : pair[1] \notin V /\ pair[2] \notin V}
Touch(c, k) == Forget(c.older, {k}) \cup ((LiveKeys(c) \ {k}) \X {k})

(* vx_paged_kv_publish_prefix: whole committed pages only, and a key names *)
(* one page range for as long as it is live.                               *)
PublishedPages(c, s, n) ==
  [l \in Logical |-> IF l < n \div PageTokens THEN c.page_table[s][l] ELSE Unmapped]

PublishOK(c, k, s, n) ==
  /\ ~Open(c, s)
  /\ 0 < n /\ n <= c.kv_length[s]
  /\ n % PageTokens = 0
  /\ \A l \in Logical : l < n \div PageTokens => c.page_table[s][l] # Unmapped
  /\ c.prefix[k].live => /\ c.prefix[k].tokens = n
                         /\ c.prefix[k].pages = PublishedPages(c, s, n)

(* Fault: the prefix takes no reference of its own. *)
PublishUnreferenced(c, k, s, n) ==
  IF c.prefix[k].live THEN [c EXCEPT !.older = Touch(c, k)]
  ELSE [c EXCEPT !.prefix = Put(@, k, [live |-> TRUE, tokens |-> n, slot_references |-> 0,
                                       pages |-> PublishedPages(c, s, n)]),
                 !.older = Touch(c, k)]
Publish(c, k, s, n) ==
  IF c.prefix[k].live THEN [c EXCEPT !.older = Touch(c, k)]
  ELSE LET shared == PagesOf(PublishedPages(c, s, n))
       IN  [c EXCEPT
             !.ref_count = [p \in Pages |-> IF p \in shared THEN @[p] + 1 ELSE @[p]],
             !.prefix = Put(@, k, [live |-> TRUE, tokens |-> n, slot_references |-> 0,
                                   pages |-> PublishedPages(c, s, n)]),
             !.older = Touch(c, k)]

(* vx_paged_kv_acquire_prefix: graft a live prefix under an empty slot. *)
AcquireOK(c, k, s) == ~Open(c, s) /\ c.prefix[k].live /\ c.kv_length[s] = 0
Acquire(c, k, s) ==
  LET shared == c.prefix[k].pages
  IN  [c EXCEPT
        !.page_table = Put(@, s, [l \in Logical |-> IF shared[l] = Unmapped THEN @[s][l]
                                                                         ELSE shared[l]]),
        !.ref_count = [p \in Pages |-> IF p \in PagesOf(shared) THEN @[p] + 1 ELSE @[p]],
        !.prefix = Put(@, k, [c.prefix[k] EXCEPT !.slot_references = @ + 1]),
        !.slot_prefix = Put(@, s, k),
        !.kv_length = Put(@, s, c.prefix[k].tokens),
        !.older = Touch(c, k)]

(* vx_paged_kv_copy_on_write: a private copy of one shared page at once. *)
CopyOnWriteOK(c, s, l) ==
  /\ ~Open(c, s) /\ c.page_table[s][l] # Unmapped
  /\ c.ref_count[c.page_table[s][l]] > 1 => CanAllocate(c, s, {l})
CopyOnWrite(c, s, l) ==
  LET source == c.page_table[s][l]
  IN  IF c.ref_count[source] <= 1 THEN c
      ELSE [Allocate(c, s, {l}) EXCEPT !.ref_count = Put(@, source, @[source] - 1)]

(* vx_paged_kv_evict: the least recently used prefixes no slot holds, one  *)
(* after another until n pages are free.  A prefix goes exactly when fewer *)
(* than n pages are free once every older idle one is gone.                *)
Idle(c) == {k \in LiveKeys(c) : c.prefix[k].slot_references <= 0}
WithoutPrefixes(c, V) ==
  [ReleaseMaps(c, V, [k \in Keys |-> c.prefix[k].pages]) EXCEPT
    !.prefix = [k \in Keys |-> IF k \in V THEN NoPrefix ELSE @[k]],
    !.older = Forget(@, V)]
OlderIdle(c, k) == {j \in Idle(c) : <<j, k>> \in c.older}
Victims(c, n) == {k \in Idle(c) : FreeCount(WithoutPrefixes(c, OlderIdle(c, k))) < n}
Evict(c, n) == WithoutPrefixes(c, Victims(c, n))
=============================================================================
