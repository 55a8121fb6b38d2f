# Verification of the VolvoxAI runtime

TLA+ models of the stateful core of VolvoxAI, checked with TLC on small
instances and, where it says so below, proved with TLAPS for every instance.
Source paths are relative to the repository root; `runtime/` stands for
`native/src/runtime/` and `api/` for `native/src/api/`.

PROJECT.json holds the machine-readable side of this page: the components, the
runs, for each property a mutated operator that breaks it, the source lines
behind each definition, the hazards, and the disagreements found.

## 1. Inventory

VolvoxAI loads a graph and its weights, compiles them for a backend, and
executes requests in contexts.  Most of its code (kernels, backends, graph
transformations, training mathematics) is sequential and about tensor values.
The state machines that schedule work and own memory are these:

| Component | State it keeps | Operations | Hard behaviour | What makes it correct |
| --- | --- | --- | --- | --- |
| Paged KV cache, `runtime/paged_kv.c` | page tables, lengths and generations of slots; reference counts and a free heap; open reservations; published prefixes with LRU order | reserve, reserve_write (copy-on-write), commit/rollback of a batch, in whole or of fewer tokens, append, release_slot, reset, publish/acquire prefix, copy_on_write, evict | pages shared by slots, prefixes and pending copies; refusals half way; eviction under sharing | a page's count is its holders; a slot maps what its tokens need, and pages an early stop left ahead of them are its own; nobody writes to a shared page; a reservation can always be settled |
| Batch scheduler, `runtime/batch_scheduler.c` | request pool, queue, slot occupants, pending dispatches, ring of results | submit, cancel, forget_result, next, complete, close_async | dispatches in flight while callers cancel and close; reservations member by member; head-first admission; fill-first holding | slots are not reused under a dispatch; nothing accepted is lost; order; every accepted request ends |
| Owner lifecycle core, `runtime/runtime_lifecycle.c` | identity domain; one record per Runtime, CompiledModel, ExecutionContext; tickets | init root/child, admit, begin, complete, close request/begin/complete, pin release | close against accepted work, FIFO contexts, the last identity and ticket number | counters are exact; accepted tickets stay good; a parent outlives its children; a close ends |
| Batch-queue API, `api/vx_api_batch_queue.inc` | a scheduler and the caller's records of works, under one mutex | create, submit, next, complete, get, take, cancel, close, release | take or cancel between next and complete | outcomes reach the record they are for, once |
| Request coordinator, `runtime/public_api_runtime_requests.inc`, with `runtime/scheduler_policy.c` and the context reservations of `runtime/public_api_execution_driver.inc` | queue, in-flight list, replacements in progress, budgets, worker thread; the state, ticket and cancel flag of each context | submit, LATEST replacement, cancel, wait, deadline expiry, batches, direct runs, close | locks dropped during execution and replacement; races of supersede, cancel and completion; close and join | one terminal state per request, decided by the first cause; budgets exact; contexts follow their request; every request and every close ends |
| Context decode cache, `runtime/public_api_decode_cache.inc` | a paged cache, K/V rows, erase flags, host copies of prefixes | transactions around a step or a generation of many tokens, reset, publish, reuse, evict | erasure deferred to a later operation; early stops; failing copies | a slot reads what was written for it |
| Paged binding and decode rows, `runtime/paged_binding.c`, `decode_row_set.c` | the binding of a context | bind, unbind, map token to row | stale binding after a change of pages | rows follow the page table |
| Decode session, `runtime/decode_session.c` | mode, prefilled, attached, previous row | attach, prefill, step, invalidate | implicit invalidation by other calls | incremental equals full execution |
| API module and handle registry, `api/vx_api.c`, `api/vx_api_handles.c` | open-addressing tables, leases, retained calls with a scan cursor and ready flags | insert, acquire, remove, notify, poll, has_work, destroy | lease against removal, calls that leave under the cursor, wake-ups against sleep, budgets of a turn | lookups exact, objects outlive their users, ended requests answered, a destroyed module freed |
| Execution contexts, `runtime/public_api_execution_context.inc` | bindings, operation in progress | begin/end operation, bind, close | close while executing | one operation at a time |
| Models and adapters, `runtime/public_api_model_lifecycle.inc`, `adapter_runtime.c` | revisions, reference counts | publish, stage, commit, release | revisions replaced under readers | a reader keeps its revision |
| Buffers, `api/vx_api_buffer.c`, `runtime/native_tensor.c` | readers/writer count, shared storage | begin/end access, retain, release | external access against calls | one writer or many readers |
| Training, `native/src/training/` | weights, optimizer state, checkpoints | step, checkpoint, load, commit | failure half way | a failed step changes nothing |

PROJECT.json lists the rest (graph construction, memory plans, generation,
profiling, backends, hosts and clients) with the reason for leaving each out.

How they interact: a client thread calls the API, which resolves handles to
leases.  A call that has to wait is retained by the registry and polled by the
host's turns; workers only set its ready flag and wake the host.  The
batch-queue API locks its queue and calls the batch scheduler, which calls the
paged cache in the same critical section; the client executes the dispatch it
was shown, outside the lock, and reports it.  The decode cache of a context
uses the same paged cache around its own operations under `cache_mutex`.  The
request coordinator owns a worker thread that takes requests under its lock,
drops it to execute them and takes it again to publish the results; each
request reserves its execution context when it is submitted, under the
context's own lock.  The lifecycle core is a passive library: the host keeps
and synchronises the records.

## 2. Plan

The modules, in the order in which they were written; each line builds on the
ones above it.

1. `PagedKVCache`, `PagedKV`: the cache, alone and as a library for callers;
   the proofs about it.
2. `BatchScheduler`, `BatchWorker`: the scheduler over that cache, and its
   worker loop for liveness; the proofs about the scheduler.
3. `RuntimeLifecycle`, `OwnerLifecycle`, and the proofs about them, the
   refinement included.
4. `SchedulerPolicy`, `ContextReservation`, and `RuntimeRequests` over both: the
   coordinator; the proofs about all three.
5. `DecodeCache`: `PagedKVCache` composed with the rows of keys and values;
   `Folding` and the proofs about both together.
6. `HandleTable`, and `ApiModule` over it: the host's loop; the proofs about
   both.

What would come next: the records of the batch-queue API over `BatchScheduler`;
the composition of `ApiModule` with `RuntimeRequests`, which now meet only in
"a request ends".  The runs are kept below two million states.

## 3. The modules and the code

### PagedKVCache and PagedKV

`PagedKVCache` is a library: the cache is one record `c`; a call `f` of
`paged_kv.c` is a pair of operators, `fOK(c, ...)`, true exactly when the C
function returns `VX_PAGED_KV_OK`, and `f(c, ...)`, the record it leaves.  A
refused call leaves the cache as it was, which the C code achieves by checking
first or undoing.  The record has the fields of `struct VxPagedKVCache` that
decide anything: `page_table`, `kv_length`, `slot_generation`, `slot_prefix`,
`reservation`, `ref_count`, `free`, `reserved_pages`, `prefix`, and `older`,
which is the order that `last_use` and `sequence` define on prefixes.
Generations wrap at `MaxGeneration` as they do at `INT_MAX`.

`vx_paged_kv_commit_batch` takes the number of tokens from the reservation, which
is the caller's memory, and one caller lowers it first: a generation that stopped
early (`public_api_execute_result.inc:859-864`).  `Shorten` is that write, allowed
only on a slot with tokens, which is when a generation may run.  The pages that
were reserved for the tokens that did not come stay mapped, ahead of the slot's
length, until later tokens use them or the slot is released.

`PagedKV` lets every public call, and `Shorten`, happen at any time with every
argument the small instance has.  `paged_kv.c` has no lock of its own; all callers
hold one.  `Settleable` leaves out what `reservation_validate` compares with copies
in the reservation that nothing can have changed in the model (generation, prior
length, page table entries): a slot with an open reservation is refused every
other call.

### BatchScheduler and BatchWorker

The scheduler's state is one record `sched`, with the cache inside.  One action
per public call of the deferred form: `Submit`, `Cancel`, `ForgetResult`,
`CloseAsync`, `NextDispatch` and `Complete`; the helpers carry the names of the
C functions they stand for (`ReleaseRequest` for `release_slot`, `PublishResult`
for `publish`, `AdmitStateful`, `Settle` for `batch_settle_dispatch`, ...) and
are applied in the order of the code, by folds over the slots.  A work is a
name from `Works` whose parameters (`Work[w]`: kind, group, rows, prompt and
token counts, prompt key) are constants; it may be submitted again once its
record and result are gone.  `Complete` chooses the worker's report: success
with any subset of members finished early, or failure.  `AgeOut` is the clock
of the fill-first policy.

`BatchWorker` adds the loop that drives the scheduler.  `beat` flips on every
turn so that fairness can be stated on the loop and not on what a turn finds.

### RuntimeLifecycle and OwnerLifecycle

One action per call of `runtime_lifecycle.c` that changes a record, enabled
when the call returns OK.  All those calls first validate the record they are
given; the model keeps that validation (`StateValid`) as a guard of every
action, so a record that went wrong would block its owner for ever, as in the
code, and `AlwaysValid` says that this never happens.  `MaxIdentity` and
`MaxTicket` are both `UINT64_MAX`, named twice to be bounded apart; arithmetic
near them follows the code.  `OwnerLifecycle` is the promise of
`runtime_lifecycle.h:22-26`, over sets instead of counters.

The library compiles the core in and lists it in its internal WASM interface
(`tools/wasm_internal_abi_manifest.mjs:187`); no source at this commit calls it.
The header describes the host adapter it is written for, and `HostedSpec` takes the host's
duties from there.

### SchedulerPolicy, ContextReservation and RuntimeRequests

`SchedulerPolicy` holds the pure functions of `scheduler_policy.c` (its
`latest_matches` is `SameStream` of `RuntimeRequests`, which adds the context to
the comparison as the coordinator does), with the saturation of the aged
priority.  `ContextReservation` holds, as operators on one context's record,
what `public_api_execution_driver.inc` does under the context's `queue_mutex`:
reserve, claim, settle, unreserve, cancel.

`RuntimeRequests` keeps what `coordinator->mutex` and the request mutexes
protect in one record `rt`; the C functions with `_locked` in their names are
operators on it, and an action is what a thread does between taking and
dropping the lock.  A submission is `Create` (validation and reservation of the
context), `Admit` (one of three outcomes: refused, the predecessor's storage
taken over, or a snapshot while the predecessor is detached), then `FinishSwap`,
`AbandonSnapshot` or `Commit`.  The worker is `WorkerWake`, `WorkerPick` (the
anchor and its batch), `EnterRoute` or a refusal lane by lane (`RefuseBatch`,
`UnreserveLane`, `SettleLane`), `RunEnd` and `Retire`.  Any thread that looks at
a request expires and completes others first (`Complete`).  `close` is five
actions per thread, one of the threads being a callback inside the worker's
own run.  The coalescing delay is that the worker may stay in "pick".

What a request may ask for is a constant (`Specs[r]`), constrained as the
submission functions validate it (`SpecsAreValid`).  `BatchesAlike` adds what
no code checks: the requests that may share a batch all have a context, or none
has.  Requests that reserve a context come from `vx_runtime_submit_execution`,
those without from `vx_runtime_submit`, and a host submits through one of them;
`vx_request_batch_compatible` itself would mix the two.

### DecodeCache

Every cached tensor is one array of rows, and the row computed from a token is
that token, so "attention reads what was decoded" is an equation between `rows`
and `content`.  A run is two steps, admission and end, because it may be
refused in between with its pages reserved; publish, reuse, release and evict
are one step each, and `CommandFail` is a transfer that fails half way.  The
page policy is `PagedKVCache`, unchanged.

A run is a step (`StepOpen`, `StepCommit`), in which every slot computes at most
one token, or a generation (`GenerateOpen`, `GenerateCommit`), which a context of
one slot feeds back to itself: it reserves the rows of all the tokens it may
compute and stops after any number of them.  Activating a cache (`Repacked`) copies
the prompts' rows to their pages and clears nothing, as in the code: the other
rows of the tensors keep what the prefill wrote there, which may be a row of
another slot's prompt.  Only pages taken later are cleared, if the cache was asked
to (`ClearOnRecycle`).

### HandleTable and ApiModule

`HandleTable` is the open-addressing table: probes, tombstones, growth and
rehash, over a constant hash function.  The loop that doubles the capacity is a
fold over as many steps as it can take (`Doubled`), rehashing a fold of `Place`
over the ids in the order of their slots.  Besides the tables that `ApiModule`
reaches, the assumption `TablesAreSets` of `MCApiModule` compares every table
that twelve insertions and removals of six colliding ids can make with the set
it stands for; TLC evaluates it before the run.

`ApiModule` is a module instance of a threaded native build.  One host thread
enters it (`StartTurn`, the stages of a turn, `EndTurn`, sleep and `Wake`,
`Destroy`); which callback the call runtime (`third_party/synurang`, not part of
the repository) runs next is any.  A retained call is attached to its request
or debug session, listed, polled with the registry's cursor, and detached when
it answers or is cancelled.  Workers end requests at any moment and notify the
watches one by one under the request's lock.  After `Destroy` a cleanup thread
closes the runtimes and releases the handles.

## 4. The runs

| Run | Question | Instance | Distinct states |
| --- | --- | --- | --- |
| `paged_kv` | Is page ownership exact under all interleavings? | 2 slots of 2 pages, 3 pages of 2 tokens, 2 prefix keys, generations 0..1 | 126 thousand |
| `batch_mixed` | Do rounds, cancels and closes keep slots, reservations, queue and results consistent? | 3 decode works (two share a prompt, one must evict it), 1 bulk work held for fill until it is old, 2 slots, 3 pages | 441 thousand |
| `batch_live` | Does every accepted request end, and every drain, and does every dispatch keep to width and budget? | 2 decode works sharing a prompt, 2 bulk works held for fill and padded to pairs, a pool that holds every slot | 59,920 |
| `batch_oversized` | ... when a prompt exceeds the pool? (no) | 3 pages needed of 2 | counterexample |
| `batch_contiguous` | ... when a prefix holds a slot's identity page? (no) | 1 slot, contiguous | counterexample |
| `requests` | Are budgets, queue, contexts and streams exact through replacement, batches, cancellation and close? | 3 requests on 3 contexts (a frame that may be on the device, a mate for its batch, a newer frame of either size), 2 request slots, 4 bytes, 2 results, 2 closers | 1.75 million |
| `requests_live` | Does the first cause decide, does every request end and every close return? | a frame or a request with a hard deadline, a newer frame, a clock of one tick, 2 closers | 227 thousand |
| `requests_lane` | Does a context follow its request when a batch fails part way? (no) | 2 contexts in a batch, a third request for the second of them | counterexample |
| `decode_cache` | Does every slot read the rows computed from its own input? | 2 slots of 3 tokens, 3 pages of 2, 1 key, 2 token values | 156,609 |
| `decode_generate` | Do a generation's early stops leave lengths, pages and host records in agreement, and the pages ahead clear? | 1 slot of 6 tokens, 3 pages of 2, 1 key, 2 token values | 47,943 |
| `api_module` | Are lookups exact, leases safe, waits answered, and a closing module freed? | 2 ids with one hash, 2 waits, 1 debug command, turns of budget 1 and 2 | 332,133 |
| `runtime_lifecycle` | Is the lifecycle core exact, and does it keep its promise, to the last number? | 1 runtime, 1 model, 2 contexts, 4 identities, 3 ticket numbers | 27,746 |

Why these bounds are enough to be interesting.  Two slots and two keys give
every kind of sharing: slot with slot, slot with prefix, prefix with prefix and
with a pending copy.  Three pages for two slots of two make the pool run dry as
soon as both are full or a prefix outlives its publisher, so refusals, rollbacks and evictions
happen.  Two pages per slot separate a full page from a partial tail.  A
generation that wraps after one step exercises the wrap on every second
release.  In `batch_mixed` the third decode work needs two chunks and the pages
of the published prompt; two works in a queue of two produce head-first stalls.
In `runtime_lifecycle` the second context may take the last identity and the
third ticket number is the one kept for close, so both saturations are
reached; only the model and one context admit operations, which covers both
admission modes.

In `requests` the budget of four bytes admits the newer frame only in place of
the older one or after it, so both forms of replacement, a refusal for lack of
budget and a batch that needs stacked inputs happen; identities are never used
again, so three requests are three submissions.  The specs are chosen so that
no third request wants the context of a batch's second lane: that case is
`requests_lane`, and there `ContextsFollow` fails.  `requests_live` has a clock
and therefore fewer requests.  In `decode_cache` three pages for two slots of
two make preparation, steps and reuse run out of pages, and two token values
tell a slot's rows from another's; in `decode_generate` a generation reserves up
to two pages ahead, stops in the first, and releases, a published prefix and
evictions recycle the pages.  In `api_module` two ids in one bucket make a
tombstone that a later lookup has to pass; a budget of one is the alternating
turn, a budget of two the split one.

Deadlock is not checked in the cache, scheduler and request runs because a
caller is always free to stop calling, in `api_module` because a freed module
does nothing, and in `runtime_lifecycle` because every history with finitely
many identities and tickets ends.

### Disagreements found

* `batch_oversized`: a prompt chunk larger than the pool is accepted and, as the
  head of the queue, blocks admission for good ("bounded starvation is a
  contract, not an accident", `batch_scheduler.c:611`).
* `batch_contiguous`: admission asks eviction for a number of free pages, but a
  contiguous slot needs its own page; eviction sees enough free pages, does
  nothing, and admission stalls for good.
* `requests_lane`: when one lane of a batch is refused, the contexts of the
  later lanes are given back and then, in a second critical section, settled as
  if they had run.  A submission that reserves such a context in between loses
  its reservation, and if it is refused then, the context keeps a token nobody
  owns.

Noted while modelling, without a run of their own:

* `vx_paged_kv_evict` counts every page of the prefixes it drops as reclaimed,
  also when slots still map them (`paged_kv.h:193` says "Returns the number of
  pages reclaimed").  No caller uses the value to decide anything.
* With a decode budget below the number of decoding slots, members of a group
  are taken in slot order (`batch_scheduler.c:1240`), so slots that are refilled
  starve the others; `batch_scheduler.c:1213` promises that the group drains.
* Cancelling a queued request that a LATEST replacement has detached for the
  moment returns BUSY, although `vx_lifecycle.h:150` says "Queued work is
  removed immediately".
* A prefix, release or evict command whose transfer fails clears the decode
  tracking but leaves the context READY and initialised: it can never run again
  and says nothing of it (phase "closed" of `DecodeCache`).

`batch_live` shows the conditions under which nothing starves: a pool with a
page for every row of every slot, and as many decode rows per round as slots.
The starvation below that, noted above, is outside what the run can find.

### Fairness

* `WorkerSpec`: `WF_beat(Beat)`, the host's loop keeps asking for the next
  dispatch and reports each one it was shown, well or badly; this is what the
  deferred API demands of its host.  `WF_sched(AgeOut)`: time passes.  Nobody is
  obliged to cancel, take a result or close.
* `RuntimeRequests`: threads inside submit, close and the worker are scheduled,
  a device call ends in a result or is lost, and some client polls while there
  is something to complete.  Nobody has to submit, cancel, take a result or
  close.  Each conjunct is the weak fairness of a thread with its guard written
  out (`CanSubmit`, `CanWork`, `CanClose`).
* `ApiModule`: weak fairness of the host's step (the host calls poll while
  has_work says so, sleeps otherwise, and retries a pending destroy:
  `vx_call_turn` of `native/cli/call_client.h`), of a worker that is notifying,
  of the cleanup thread, and of the runtime that ends what it accepted.
* `HostedSpec`: `WF_vars(HostWork)`, the host goes on doing what the header
  obliges it to do (begin admitted tickets, complete begun ones, begin and
  complete an asked close, release a closed child's pin).  One weak fairness for
  all of it is enough because every history of these steps is finite.

The invariants and action properties assume no fairness.

## 5. What is proved

`RuntimeLifecycleProofs` proves, for all sets of owners and all values of
`MaxIdentity` and `MaxTicket`, that `Spec` implies `[]TypeOK`, `[]AlwaysValid`,
`[]IdentitiesLast`, `[]CountsAreExact`, `[]AcceptedIsHonoured` and
`[]ParentOutlivesChildren`.  The only assumption is `LifecycleConstants`: the
bounds are positive, the owners are finitely many, the three kinds are disjoint,
and the admitters are owners.

The argument.  `TypedAndValid` (types, and validity of every record) is
inductive by itself, because every call validates first and the arithmetic of
each call stays within what validation allows.  The other properties are not
inductive: that a close waits for real work needs the counters to be the sets
they stand for, and that an accepted ticket never turns stale needs the order
of the tickets of a context.  The inductive invariant is therefore
`IInv == TypedAndValid /\ IdentitiesLast /\ CountsAreExact /\ TicketsInOrder`,
where `TicketsInOrder` says that every ticket handed out lies below the next
number and below a close ticket, that a context has not yet passed any ticket
that waits, and that the one that runs is its active ticket.  There is one lemma per action;
`Invariance` puts them together and each property follows from `IInv`.

The module ends with `PromiseKept`, `Spec => KeepsPromise`: the core implements
`OwnerLifecycle` under the mapping of counters to sets given by `Promise` in
`RuntimeLifecycle`.  Given `IInv`, each call is a step of the promise: "admitted
is zero" means that no operation is pending, "serving" is the oldest one.

`PagedKVCacheProofs` and the first part of `BatchSchedulerProofs` prove all that
the run `paged_kv` checks, for every number of slots and pages, page size, slot capacity, set of
keys and range of generations that `CacheConstants` allows, paged and contiguous:
`CacheSpec` implies `[]CacheTypeOK`, `[]PagesAccounted`, `[]ReservationsSettle`
and `ReadersUndisturbed`.  None of them is inductive.  The count of a page says
nothing of what a rollback gives back unless it is known why each page of a
reservation was taken, and an append is only safe because the pages that a
prefix lists are whole.  The inductive invariant is `Sound(cache)`, nine parts
of one record:

* `Counted`: a page's references are the slots that map it, the live prefixes
  that list it and the pending copies whose source it is; the rest are free.
* `SlotsBacked`, `PrefixesWhole`: a map names distinct pages, and one for every
  token; a prefix has no page but those, and ends where a page ends.
* `AppendsPrivate`: a mapped page with a row at or behind a slot's length has
  one reference, a page that an early stop left ahead of the length included.
* `ReservationsExplained`: a fresh page begins past the committed tokens, or
  replaces a page full of them, which stays held as its source; an empty slot
  has no pages but those its reservation took.
* `GraftsCounted`, `ReservedCounted`, `RecencyOrders` and the types.

`PagedKVCacheProofs` has one lemma per call of `paged_kv.c`, all of the form
"a sound cache, on which the call's guard holds, is sound after it", over
lemmas on what an allocation takes and what a release gives back.  They are
about the operators, so they hold for whoever calls them.  `BatchSchedulerProofs`
adds the steps of `PagedKV`: the holders of a page are counted kind by kind; any batch of open
reservations has its pages referenced and is part of `reserved_pages`; and an
evicted prefix is older than an idle one that stays because the pages freed only
grow with the set of prefixes that go (`MoreGoneMoreFree`, `OldestFirst`).

`BatchSchedulerProofs` then proves the six invariants of the scheduler, for every
workload, number of slots, pool, width, token budget, queue depth, size of the
ring of results and both policies that `SchedulerConstants` and `CacheConstants`
allow: `Spec` implies `[]TypeOK`, `[]SlotsFollowWork`, `[]InFlightIntact`,
`[]WorkAccounted`, `[]RoundsAreClosed` and `[]DispatchWithinBudget`.  They are
about the same thing, and only together inductive: that a slot's tokens are those
computed for its occupant needs that the dispatch that computed them still owns
the reservation, and that nobody released the slot under it needs that every open
reservation belongs to a dispatch.  The inductive invariant `IInv` says that there
is an assignment `F` of a flight to every work such that

* the cache is `Sound` and no list names a work twice;
* a slot's occupant knows its slot, and a slot without one is empty (`SlotFine`);
* for every work (`Good`): where it is listed follows from its state (`Listed`);
  what an admitted work has in the cache is what it has prefilled and generated,
  its reservation is open exactly while a dispatch carries it (`Owning`); what a
  dispatched work had when it took off it still has (`Travelling`);
* `F` is what the pending dispatches say of their members, each in one place
  (`Carried`), and every dispatch is as it was made (`Made`);
* no reservation of admission is left, a round is open exactly while a dispatch
  is pending, and between rounds nobody is terminal or to be cancelled.

The calls make many changes in an order in which this is false in between: a
work that is out of the queue and not yet published, tokens that are committed
and not yet counted.  `Flight` therefore has a value for each of those moments,
and the lemmas are about `Whole(q, F)`, the part about `F` that holds throughout.
`WholeElsewhere` is the frame: a change that leaves alone all works but those of a
set, and their slots, need only be looked at for those.  On it rest one lemma per
helper (`EndKeeps` for releasing and publishing, `AdmitStep`, `OpenStep`,
`FailStep`, `CommitKeeps`, `MemberMoves`, ...), one per loop by `Folding!InOrder`,
and one per call (`StepKeeps`, `SettleKeeps`, `CompleteKeeps`, `CancelKeeps`,
`CloseKeeps`, ...), which `NextSane` puts together.  What the scheduler relies on
in the cache is stated once, call by call (`ReserveSeen` to `PublishSeen`).

`DecodeCacheProofs` proves the invariants of the runs `decode_cache` and
`decode_generate`, for every number of slots and pages, page size, slot capacity, key set and
token set that `CacheConstants` and `DecodeConstants` allow: `Spec` implies
`[]TypeOK`, `[]RowsFollowInputs`, `[]TrackingAgrees` and `[]PagesAheadClear`.
That the rows follow the inputs between runs says nothing of the run in between,
so the inductive invariant `IInv` describes each phase:

* in "initializing", `Prompted`: the prepared pages are sound, hold the prompt's
  lengths, no page of theirs has two holders, and none is mapped ahead of the
  prompt (`NoneAhead`), so that what the prefill left in the tensors, other slots'
  rows included, can be seen in the page of a prompt's last token only;
* from then on `Serving`: the pages are `Sound` and agree with the context's
  lengths and the host's copies (`Lengths`); on the map that a rollback would
  restore, every row of a slot or of a prefix shows its token (`Shows`), and a page
  that begins past a slot's tokens is clear if the cache clears (`AheadZero`); and
  a page that waits to be cleared is on none of these maps (`ErasesUnused`);
* while a run is open its fresh pages are held by it alone and wait to be cleared
  (`TakenAlone`), which is why clearing, copying and writing them cannot be seen by
  anyone else; each reservation of a step ends at the position that is to be
  written (`Reserving`), and a generation is in the only slot, behind a token
  (`Generating`), wherever it stops.

A generation's rows are judged position by position: `GenerateShows` says that
after `done` tokens the old ones and the new ones stand in the pages and the rest of
what was reserved is clear; `Generates` and `Joined` name what it is about.

The loops over the slots (`BuiltFor`, `Reserved`) are folds of the community
modules.  No theorem of the library that takes an operator can be used by the
provers here, so `Folding` proves what is needed from scratch and without
induction: a fold unfolds to one recursive function on subsets (`Iteration`); the
equation has a solution, because a smallest subset without one could be given one
(`Solved`); and what holds of the base and is kept by each application holds of
the result (`Keeps`).  A module that folds instantiates it with its operation.
It asks that what is folded over be `Grounded`: every family of its parts has a
minimal member.  Ranges of integers, which all the loops run over, are
(`IntervalGrounded`, from the well-foundedness of strict inclusion, which is among
the library's theorems that can be used): that lemma stands in `PagedKVCacheProofs`,
`ApiModuleProofs` and `RuntimeRequestsLemmas` and not in `Folding`, because every
instance of `Folding` would carry a copy of the library's theorems.
`InOrder` is the same for a loop from 1 to n, with an invariant for each position.

`ApiModuleProofs` proves the three invariants of the run `api_module`, for every
number of ids, hash function, set of waits, commands and budgets, and the four
initial capacities that the assumptions of `HandleTable` and `ApiModule` name:
`Spec` implies `[]TypeOK`, `[]LookupExact` and `[]LeasesProtect`.

The first half is about the table alone.  `TableOK` says that no id is in two
slots, that a probe for a stored id reaches it before an empty slot, that `live`
and `occupied` are the numbers of slots with an id and of slots not empty, and
that at most half of the slots are occupied.  `InsertStores` shows that an insertion keeps it
and stores exactly one id more: doubling stops only when the new id fits
(`CapacityFits`), the rehash stores what the old slots held (`PlaceKeeps`,
`RehashKeeps`), and a probe finds an empty slot because probing as many times as
there are slots visits all of them (`FreeSlotFound`).  `RemoveTakes` shows it for a removal,
which leaves a tombstone because the probes of other ids pass over the slot.

The second half is the registry.  That an object outlives its leases is not
inductive: a count is exact only if it is known who holds a reference.  The
inductive invariant is
`IInv == RegistryOK /\ ListOK /\ HostOK /\ ClosingOK`:

* `TablesOK`, `Holding`: the tables are sound, and store an id exactly while its
  handle is held; `LookupExact` follows with `TableAnswers`.
* `Referenced`: the references of an object are its handle's, the coordinator's
  or the notifying worker's, and one for each call that leases it.
* `WorkerOK`: the waits a worker has still to notify are on the request it
  notifies, because it holds that request's lock and a wait leaves only under
  it.  Without it a notification could reach a freed request.
* `CommandsLease`: a command leases a debug session, which no coordinator refers to.
* `ListOK`: the list names each attached call once, and the cursor and the call
  that is polled are attached.
* `HostOK`, `ClosingOK`: a poll runs only in the poll stage of a turn; from the
  cleanup on nothing is attached and no turn is left, so what the cleanup thread
  releases has no user; and once it has swept, no object is held or unended.

There is one lemma per action; `Keeps` puts them together.

`RuntimeRequestsLemmas` and `RuntimeRequestsProofs` are about the coordinator.

The first section of the lemmas is the scheduler's policy.  For every aging
quantum, priority range and saturation bound (`PolicyConstants`), the
coordinator's order on requests is a strict total order at any moment
(`PrecedesIsStrictTotalOrder`), effective priorities stay in range and never fall
with time (`EffectiveBounded`, `PriorityNeverFalls`), and a request which has
waited `2 * PriorityMax + 1` quanta longer than another goes first whatever their
priorities and deadlines (`AgeBeatsPriority`): no stream of later, more important
requests passes it for ever.

The rest proves the properties of the runs `requests` and `requests_live`, for
all sets of requests and contexts, limits, batch rules, clocks and specs that
`RequestConstants`, `SpecsAreValid`, `BatchesAlike` and `PolicyConstants` allow.
None of the properties is inductive, and the run `requests_lane` shows that not
all of them hold in general, so the inductive invariant `IInv(b)` has two layers.

* `IInv(FALSE)` is inductive without any condition (`AccountsKept`).  `Accounts`
  says what a request holds at each place of its life, from "new" to its end
  (`Placed`); that a replaced request is in the hands of the one submission that
  names it, and is a frame of the same stream (`VictimsOK`); that the queue and
  the in-flight list hold exactly the admitted requests that wait and run
  (`QueueOK`, `ListsOK`); that a stream has one deliverable frame (`Streams`); and
  that requests, bytes and route claims are counted exactly and within their
  limits (`Counted`).  `BatchOK` says what the worker has in its hands.
* `IInv(TRUE)` adds `Reservations`: which requests hold a result ticket and a
  context token at each place (`TicketOK`, `TokenOK`), that whoever a context
  names will give it back (`HolderOK`), where each lane of the running batch stands
  (`LaneOK`), and the count of results (`Results`).  It is kept by every step from
  a state in which `LaneUnclaimed` holds: the context that the worker has given
  back and will settle in its next critical section has not been reserved in
  between.  That is precisely the race of `requests_lane`.

From the first layer follow, with no condition, `OneFrameOfAStream` (`Spec`
implies `[]OneFramePerStream`) and `TheFirstCauseDecides` (`Spec` implies
`FirstCauseDecides`).  From the second follow `RequestTypes`, `BudgetIsExact`,
`NoRequestIsLost` and `ContextsAreFollowed`, each of the form
`Spec /\ []LaneUnclaimed => []P`.  The condition is not idle: `UnsharedNeverClaimed`
proves it for every instance in which no two requests ask for a context that
takes part in batches (`Unshared`), with `Companions` as one invariant more
(only a batch of several is refused lane by lane, and its members may all be
batched), so that `AllIsAccountedFor` needs no condition there.  The instances of
`requests` and `requests_live` are of that kind, the one of `requests_lane` is not.

The argument goes from operators to steps.  For each operator on the coordinator
(retiring, withdrawing, expiring, superseding, finishing, completing, replacing,
dispatching, claiming, ...) a lemma says which requests, contexts and counts it
changes, in terms of a few relations between an old and a new coordinator
(`Goes`, `Decided`, `HaveLeft`, `Only`).  The operators that run over all requests
are folds, and instantiate `Folding` with what one application keeps; the sums of
bytes and the cardinalities move by one request at a time (`Bytes`, `Holding`).
There is one lemma per action, and `StepKeeps` and `InvariantKept` put them
together.  For `FirstCauseDecides`, `Decides` carries through each of those
operators why a request ended and when it was looked at.

## 6. Only model-checked, and not modelled

Only model-checked: the action properties of the batch scheduler (`NoOvertaking`,
about the order of its lists, which `IInv` does not follow, and
`RetiredWithResult`, which holds as long as the ring of results can take those of
one call); and liveness
(`CloseEnds`, `AcceptedWorkEnds`, `DrainEnds`, `AcceptedEnds`, `WaitsAnswered`),
which this prover does not do under fairness.  Of the coordinator, the four
properties that rest on `Reservations` are proved under `LaneUnclaimed` only.
Without it the code keeps neither `ContextsFollow` (`requests_lane`) nor the part
of `RequestsAccounted` about tokens.  `TypeOK` and `BudgetExact` survive the race: with either in the place of
`ContextsFollow` in `RequestsLane.cfg`, TLC finds no violation in 79,670 states.
The context loses its token and its result ticket together, so the request that
lost them is refused before it could return a result.

Not modelled: malloc failure where the code refuses the call and leaves the
state alone, telemetry, payloads and tensor data; in the scheduler, exhaustion
of its id counters, its synchronous form and a scheduler without a cache; in the
coordinator, the provider's batch path, builds without threads, and several
compiled routes; requests of one batch are assumed all with or all without a
context; the state in which the context of a lane of a failed batch ends when
it was cancelled meanwhile (SUCCEEDED in the code,
`public_api_runtime_requests.inc:1111-1114` and `1484-1487` with
`public_api_execution_driver.inc:115-120`; FAILED in `SettleLane` and
`RetireLane`: no property tells them apart); the records of the batch-queue API
between next and complete, the one hazard of the list that no property covers;
in the API module, what only builds without threads do
(completion-only observers, drain) and reaping of runtime roots; magic numbers
and integrity tags of lifecycle records, and copies of a
ticket, which the header forbids the host to make.  Components without a module
are listed in PROJECT.json with the reason.
