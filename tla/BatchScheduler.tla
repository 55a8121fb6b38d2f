--------------------------- MODULE BatchScheduler ---------------------------
(***************************************************************************)
(* The request scheduler of src/native/src/runtime/batch_scheduler.c in    *)
(* the deferred form the batch-queue API drives: submitters, cancellers    *)
(* and closers call in at any time, a worker asks for the next dispatch,   *)
(* runs it, and reports its completion.  The API holds the queue's mutex   *)
(* around every call, so a call is one step; it works on one record        *)
(* "sched", because a call makes many changes in an order that matters.    *)
(*                                                                         *)
(* Works are names.  The code numbers requests and never reuses a number;  *)
(* here a name is submitted again only once nothing remembers it, and      *)
(* "older" is the position in requests, the order of submission.           *)
(* Abstracted: payloads, values, telemetry, the clock (a fill-first group  *)
(* ages by an action), malloc failure and the id counters' exhaustion.     *)
(***************************************************************************)
EXTENDS PagedKVCache, SequencesExt

CONSTANTS
  Works, NoWork,
  Work,            \* [Works -> [kind, group, rows, prompt_tokens, max_tokens, prompt_key]]
  MaxQueueDepth, ResultCapacity,
  MaxSlots,        \* items in a dispatch
  TokenBudget,     \* token_budget_per_dispatch
  MultipleOf,      \* stateless batch divisibility
  FillFirst        \* VX_DISPATCH_FILL_FIRST, else work-conserving

ASSUME SchedulerConstants ==
  /\ IsFiniteSet(Works) /\ NoWork \notin Works
  /\ \A n \in {MaxQueueDepth, ResultCapacity, MaxSlots, TokenBudget, MultipleOf} :
       n \in Nat \ {0}
  /\ MultipleOf <= MaxSlots /\ FillFirst \in BOOLEAN
  /\ \A w \in Works :
       /\ Work[w].kind \in {"decode", "stateless"} /\ Work[w].rows \in Nat
       /\ Work[w].prompt_tokens \in Nat /\ Work[w].max_tokens \in Nat
       /\ Work[w].prompt_key \in Keys \cup {NoKey}

VARIABLE sched

(* A submission of vx_batch_scheduler_submit_llm and of _submit_stateless. *)
DecodeWork(group, prompt, max, key) ==
  [kind |-> "decode", group |-> group, rows |-> 1, prompt_tokens |-> prompt,
   max_tokens |-> max, prompt_key |-> key]
StatelessWork(group, rows) ==
  [kind |-> "stateless", group |-> group, rows |-> rows, prompt_tokens |-> 0,
   max_tokens |-> 0, prompt_key |-> NoKey]

NoSlot == -1
SlotOrder == [i \in 1 .. NumSlots |-> i - 1]
RequestCapacity == 2 * MaxQueueDepth + NumSlots

Live == {"queued", "prefill", "decoding"}
Terminal == {"completed", "cancelled", "failed"}
Record == [state: Live \cup Terminal \cup {"unknown"}, slot: Slots \cup {NoSlot},
           slot_generation: 0 .. MaxGeneration, prefilled: Nat, generated: Nat,
           cancel_requested: BOOLEAN, pending: BOOLEAN]
NoRecord == [state |-> "unknown", slot |-> NoSlot, slot_generation |-> 0,
             prefilled |-> 0, generated |-> 0, cancel_requested |-> FALSE,
             pending |-> FALSE]
Result == [work: Works, state: Terminal, generated: Nat]

Init ==
  sched = [cache |-> EmptyCache, rec |-> [w \in Works |-> NoRecord],
           requests |-> <<>>, queue |-> <<>>, results |-> <<>>, pending |-> <<>>,
           occupants |-> [s \in Slots |-> NoWork], aged |-> {},
           closed |-> FALSE, draining |-> FALSE, in_round |-> FALSE]

Stateless(w) == Work[w].kind = "stateless"
(* Fault: cancelled is not counted as an end. *)
IsTerminalNotCancelled(q, w) == q.rec[w].state \in {"completed", "failed"}
IsTerminal(q, w) == q.rec[w].state \in Terminal
IsOccupied(q, s) == q.occupants[s] # NoWork
Busy(q) == \E s \in Slots : IsOccupied(q, s)
Position(q, w) == SelectInSeq(q.requests, LAMBDA x : x = w)
ResultsFor(q, w) == {i \in DOMAIN q.results : q.results[i].work = w}

-----------------------------------------------------------------------------
(* Bookkeeping shared by the calls. *)

(* The entries of seq that are in S, in their order. *)
Keep(seq, S) == FoldLeft(LAMBDA kept, x : IF x \in S THEN Append(kept, x) ELSE kept,
                         <<>>, seq)
Without(seq, w) == Keep(seq, Works \ {w})

(* The ring of terminal results forgets its oldest entry when full. *)
ResultAppend(results, result) ==
  Append(IF Len(results) = ResultCapacity THEN Tail(results) ELSE results, result)

(* publish: a request becomes terminal once, and its result is recorded. *)
(* Fault: a cancelled request leaves no result. *)
PublishUnrecorded(q, w, state) ==
  IF IsTerminal(q, w) THEN q
  ELSE IF state = "cancelled" THEN [q EXCEPT !.rec[w].state = state]
  ELSE [q EXCEPT !.rec[w].state = state,
                 !.results = ResultAppend(@, [work |-> w, state |-> state,
                                              generated |-> q.rec[w].generated])]
PublishResult(q, w, state) ==
  IF IsTerminal(q, w) THEN q
  ELSE [q EXCEPT !.rec[w].state = state,
                 !.results = ResultAppend(@, [work |-> w, state |-> state,
                                              generated |-> q.rec[w].generated])]

(* rollback_pending_reservation: the reservation admission made. *)
RollbackPending(q, w) ==
  IF ~q.rec[w].pending THEN q
  ELSE [q EXCEPT !.rec[w].pending = FALSE,
                 !.cache = Rollback(@, {q.rec[w].slot})]

(* release_slot: refused, and nothing changed, while a dispatch still has *)
(* a reservation open on the slot.                                        *)
ReleaseRequest(q, w) ==
  IF q.rec[w].slot = NoSlot THEN q
  ELSE LET r == RollbackPending(q, w)
           s == q.rec[w].slot
       IN  IF ~ReleaseSlotOK(r.cache, s) THEN r
           ELSE [r EXCEPT !.cache = ReleaseSlot(@, s), !.occupants[s] = NoWork,
                          !.rec[w].slot = NoSlot]

ReleaseAndPublish(q, w, state) == PublishResult(ReleaseRequest(q, w), w, state)

(* retire_terminal_requests: terminal records leave the active pool. *)
Retire(q) ==
  LET gone == {w \in Works : IsTerminal(q, w)}
      held == {q.rec[w].slot : w \in {x \in gone : q.rec[x].pending}}
  IN  [q EXCEPT !.cache = IF held = {} THEN @ ELSE Rollback(@, held),
                !.requests = Keep(@, Works \ gone),
                !.aged = @ \ gone,
                !.rec = [w \in Works |-> IF w \in gone THEN NoRecord ELSE @[w]]]

(* batch_finish_round: cancelled occupants go, terminal records are *)
(* retired, and a drained scheduler stops draining.                 *)
TakeBackAt(q, s) ==
  IF IsOccupied(q, s) /\ q.rec[q.occupants[s]].cancel_requested
  THEN ReleaseAndPublish(q, q.occupants[s], "cancelled") ELSE q
TakeBackCancelled(q) == FoldLeft(TakeBackAt, q, SlotOrder)
(* Fault: a drain never ends by itself. *)
FinishRoundDraining(q) == Retire([TakeBackCancelled(q) EXCEPT !.in_round = FALSE])
FinishRound(q) ==
  LET done == Retire([TakeBackCancelled(q) EXCEPT !.in_round = FALSE])
  IN  [done EXCEPT !.draining = @ /\ Busy(done)]

-----------------------------------------------------------------------------
(* Submission, cancellation and the caller's end of a result. *)

(* vx_batch_scheduler_submit_stateless and _submit_llm accept the work. *)
Padded(count, kind) ==
  IF kind = "stateless" THEN ((count + MultipleOf - 1) \div MultipleOf) * MultipleOf
                        ELSE count
(* Fault: the budget is compared with the rows before padding. *)
FitsUnpadded(count, kind, rows) ==
  Padded(count, kind) <= MaxSlots /\ count <= TokenBudget \div rows
Fits(count, kind, rows) ==
  Padded(count, kind) <= MaxSlots /\ Padded(count, kind) <= TokenBudget \div rows

Acceptable(w) ==
  IF Stateless(w) THEN Work[w].rows > 0 /\ Fits(1, "stateless", Work[w].rows)
  ELSE /\ Work[w].prompt_tokens > 0 /\ Work[w].max_tokens > 0
       /\ Work[w].prompt_tokens + Work[w].max_tokens <= SlotTokenCapacity

Forgotten(q, w) == q.rec[w].state = "unknown" /\ ResultsFor(q, w) = {}

Submit(w) ==
  /\ Forgotten(sched, w) /\ Acceptable(w)
  /\ ~sched.closed
  /\ Len(sched.queue) < MaxQueueDepth
  /\ Len(sched.requests) < RequestCapacity
  /\ sched' = [sched EXCEPT !.rec[w] = [NoRecord EXCEPT !.state = "queued"],
                            !.requests = Append(@, w), !.queue = Append(@, w)]

(* vx_batch_scheduler_cancel: queued work at once; admitted work at once   *)
(* between rounds, and at the end of the round while one is in progress.   *)
(* Fault: admitted work is torn down at once, also inside a round. *)
CancelAtOnce(q, w) ==
  Retire(IF q.rec[w].state = "queued"
         THEN PublishResult([q EXCEPT !.queue = Without(@, w)], w, "cancelled")
         ELSE ReleaseAndPublish(q, w, "cancelled"))
CancelLocked(q, w) ==
  LET r == CASE q.rec[w].state = "queued" ->
                  PublishResult([q EXCEPT !.queue = Without(@, w)], w, "cancelled")
             [] q.rec[w].state # "queued" /\ ~q.in_round ->
                  ReleaseAndPublish(q, w, "cancelled")
             [] OTHER -> [q EXCEPT !.rec[w].cancel_requested = TRUE]
  IN  IF q.in_round THEN r ELSE Retire(r)

Cancel(w) == sched.rec[w].state \in Live /\ sched' = CancelLocked(sched, w)

(* vx_batch_scheduler_forget_result, once the caller took the result. *)
ForgetResult(w) ==
  /\ ResultsFor(sched, w) # {}
  /\ sched' = [sched EXCEPT !.results = Keep(@, {r \in Range(@) : r.work # w})]

-----------------------------------------------------------------------------
(* Admission. *)

(* admit_shared_prefix: graft the prompt's prefix unless it is longer. *)
AdmitSharedPrefix(c, s, w) ==
  LET k == Work[w].prompt_key
      shared == Acquire(c, k, s)
  IN  IF k = NoKey \/ ~AcquireOK(c, k, s) THEN c
      ELSE IF shared.kv_length[s] <= Work[w].prompt_tokens THEN shared
      ELSE ReleaseSlot(shared, s)

PagesFor(n) == (n + PageTokens - 1) \div PageTokens
Least(m, n) == IF m < n THEN m ELSE n

(* admit_stateful at one slot: the oldest queued decode work reserves its  *)
(* first prompt chunk, after one eviction if it must; admission stops when *)
(* there is none or it does not fit.                                       *)
(* Fault: the newest request is served first. *)
QueuedDecodeNewest(q) == Reverse(Keep(q.queue, {w \in Works : ~Stateless(w)}))
QueuedDecode(q) == Keep(q.queue, {w \in Works : ~Stateless(w)})
AdmitAt(turn, s) ==
  LET q == turn.q
      waiting == QueuedDecode(q)
      w == Head(waiting)
      grafted == AdmitSharedPrefix(q.cache, s, w)
      shared == grafted.kv_length[s]
      chunk == Least(Work[w].prompt_tokens - shared, TokenBudget)
      room(c) == chunk = 0 \/ ReserveOK(c, s, chunk)
      tried == IF room(grafted) THEN grafted ELSE Evict(grafted, PagesFor(chunk))
  IN  CASE turn.stop \/ IsOccupied(q, s) -> turn
        [] ~turn.stop /\ ~IsOccupied(q, s) /\ waiting = <<>> -> [turn EXCEPT !.stop = TRUE]
        [] ~turn.stop /\ ~IsOccupied(q, s) /\ waiting # <<>> /\ ~room(tried) ->
             [q |-> [q EXCEPT !.cache = IF shared > 0 THEN ReleaseSlot(tried, s) ELSE tried],
              stop |-> TRUE]
        [] OTHER ->
             [turn EXCEPT
               !.q.cache = IF chunk = 0 THEN tried ELSE Reserve(tried, s, chunk),
               !.q.queue = Without(@, w),
               !.q.occupants[s] = w,
               !.q.rec[w] = [@ EXCEPT !.state = "prefill", !.slot = s,
                                      !.slot_generation = tried.slot_generation[s],
                                      !.prefilled = shared, !.pending = chunk > 0]]

AdmitStateful(q) == FoldLeft(AdmitAt, [q |-> q, stop |-> FALSE], SlotOrder).q

-----------------------------------------------------------------------------
(* Dispatch.  A pending dispatch remembers the slot and generation of each *)
(* member; the reservation of a member's slot is open in the cache.        *)

(* fail_selected_batch *)
FailMember(q, w, kind) ==
  IF kind = "stateless"
  THEN PublishResult([q EXCEPT !.queue = Without(@, w)], w, "failed")
  ELSE ReleaseAndPublish(q, w, "failed")
FailSelected(q, members, kind) ==
  FoldLeft(LAMBDA r, w : FailMember(r, w, kind), q, members)

(* Open one reservation per member, or take over the one admission made, *)
(* until one does not fit.                                               *)
OpenFor(turn, w, tokens) ==
  LET s == turn.q.rec[w].slot
  IN  CASE ~turn.ok -> turn
        [] turn.ok /\ turn.q.rec[w].pending ->
             [turn EXCEPT !.q.rec[w].pending = FALSE, !.opened = @ \cup {s}]
        [] turn.ok /\ ~turn.q.rec[w].pending /\ ReserveOK(turn.q.cache, s, tokens) ->
             [turn EXCEPT !.q.cache = Reserve(@, s, tokens), !.opened = @ \cup {s}]
        [] OTHER -> [turn EXCEPT !.ok = FALSE]
ReserveEach(q, members, tokens) ==
  FoldLeft(LAMBDA turn, w : OpenFor(turn, w, tokens),
           [q |-> q, ok |-> TRUE, opened |-> {}], members)

NewDispatch(q, members, kind, rows) ==
  [kind |-> kind, members |-> members, rows |-> rows, started |-> FALSE,
   slot |-> [i \in DOMAIN members |-> q.rec[members[i]].slot],
   generation |-> [i \in DOMAIN members |-> q.rec[members[i]].slot_generation]]

(* A dispatched stateless request leaves the queue. *)
(* Fault: it stays there. *)
DequeueNothing(q, members, kind) == q
Dequeue(q, members, kind) ==
  IF kind # "stateless" THEN q
  ELSE [q EXCEPT !.queue = Keep(@, Works \ Range(members))]

(* dispatch_batch: queue one dispatch behind the pending ones, or fail all *)
(* of the selected requests.                                               *)
Dispatch(q, members, kind, rows) ==
  LET opened == IF kind = "stateless" THEN [q |-> q, ok |-> TRUE, opened |-> {}]
                ELSE ReserveEach(q, members, rows)
      ready == Dequeue(opened.q, members, kind)
  IN  CASE ~Fits(Len(members), kind, rows) -> FailSelected(q, members, kind)
        [] Fits(Len(members), kind, rows) /\ ~opened.ok ->
             FailSelected([opened.q EXCEPT !.cache = Rollback(@, opened.opened)],
                          members, kind)
        [] OTHER -> [ready EXCEPT !.pending =
                       Append(@, NewDispatch(q, members, kind, rows))]

(* One bounded prompt chunk per occupied slot in prefill. *)
(* Fault: a prompt that was shared in full waits for a chunk of its own. *)
PrefillAtWedged(q, s) ==
  LET w == q.occupants[s]
      rest == Work[w].prompt_tokens - q.rec[w].prefilled
  IN  IF ~IsOccupied(q, s) \/ q.rec[w].state # "prefill" \/ rest <= 0 THEN q
      ELSE Dispatch(q, <<w>>, "prefill", Least(rest, TokenBudget))
PrefillAt(q, s) ==
  LET w == q.occupants[s]
      rest == Work[w].prompt_tokens - q.rec[w].prefilled
  IN  IF ~IsOccupied(q, s) \/ q.rec[w].state # "prefill" THEN q
      ELSE IF rest <= 0 THEN [q EXCEPT !.rec[w].state = "decoding"]
      ELSE Dispatch(q, <<w>>, "prefill", Least(rest, TokenBudget))

(* collect_ready_groups: contributions that may share a dispatch, the group *)
(* of the oldest request first.  A slot that was in prefill waits a round.  *)
KeyOf(w) == [kind |-> IF Stateless(w) THEN "stateless" ELSE "decode",
             group |-> Work[w].group,
             rows |-> IF Stateless(w) THEN Work[w].rows ELSE 1]
ReadyGroups(q, admitted) ==
  LET decoding == Keep([i \in DOMAIN SlotOrder |-> q.occupants[SlotOrder[i]]],
                    {w \in Works : q.rec[w].state = "decoding" /\ w \notin admitted})
      ready == decoding \o Keep(q.queue, {w \in Works : Stateless(w)})
      leaders == Keep(q.requests, {w \in Range(ready) : \A v \in Range(ready) :
                        KeyOf(v) = KeyOf(w) => Position(q, w) <= Position(q, v)})
  IN  [i \in DOMAIN leaders |->
        [key |-> KeyOf(leaders[i]),
         members |-> Keep(ready, {w \in Works : KeyOf(w) = KeyOf(leaders[i])})]]

(* hold_for_fill: fill-first keeps a partial stateless group until its *)
(* oldest member has waited long enough.                               *)
HoldForFill(q, group) ==
  /\ FillFirst
  /\ group.key.kind = "stateless"
  /\ Len(group.members) < MaxSlots
  /\ Range(group.members) \cap q.aged = {}

(* How many members of a ready group one round dispatches. *)
TakeCount(group) ==
  LET byBudget == Max({1, TokenBudget \div group.key.rows})
      taken == Min({Len(group.members), MaxSlots, byBudget})
  IN  IF taken >= MultipleOf THEN (taken \div MultipleOf) * MultipleOf ELSE taken

DispatchGroup(q, group) ==
  IF HoldForFill(q, group) THEN q
  ELSE Dispatch(q, SubSeq(group.members, 1, TakeCount(group)), group.key.kind,
                group.key.rows)

(* vx_batch_scheduler_step: one round of admission, prompt chunks and ready *)
(* groups.  A round that dispatched nothing is over at once.                *)
Step(q) ==
  LET admitted == IF q.draining THEN q ELSE AdmitStateful(q)
      chunked == FoldLeft(PrefillAt, [admitted EXCEPT !.in_round = TRUE], SlotOrder)
      prefilling == {w \in Works : admitted.rec[w].state = "prefill"}
      round == FoldLeft(DispatchGroup, chunked, ReadyGroups(chunked, prefilling))
  IN  IF round.pending = <<>> THEN FinishRound(round) ELSE round

-----------------------------------------------------------------------------
(* The worker. *)

(* vx_batch_scheduler_next: a new round when nothing is pending; the head  *)
(* of the pending dispatches is then exposed, always the same until it is  *)
(* completed.                                                              *)
Expose(q) == IF q.pending = <<>> THEN q ELSE [q EXCEPT !.pending[1].started = TRUE]

NextDispatch ==
  \/ /\ sched.pending = <<>>
     /\ ~sched.closed \/ sched.draining
     /\ sched' = Expose(Step(sched))
  \/ /\ sched.pending # <<>> /\ ~Head(sched.pending).started
     /\ sched' = Expose(sched)

(* publish_prompt_prefix: the whole pages of a finished prompt. *)
PublishPromptPrefix(q, w) ==
  LET k == Work[w].prompt_key
      s == q.rec[w].slot
      n == (Work[w].prompt_tokens \div PageTokens) * PageTokens
  IN  IF k = NoKey \/ k \in LiveKeys(q.cache) \/ ~PublishOK(q.cache, k, s, n) THEN q
      ELSE [q EXCEPT !.cache = Publish(@, k, s, n)]

(* batch_settle_dispatch for one member of a dispatch that succeeded: a     *)
(* prompt chunk is done, a token is generated, or stateless work completes. *)
(* Fault: the chunks do not add up. *)
ChunkDoneReset(q, d, w) ==
  LET r == [q EXCEPT !.rec[w].prefilled = d.rows]
  IN  IF r.rec[w].prefilled # Work[w].prompt_tokens THEN r
      ELSE [PublishPromptPrefix(r, w) EXCEPT !.rec[w].state = "decoding"]
ChunkDone(q, d, w) ==
  LET r == [q EXCEPT !.rec[w].prefilled = @ + d.rows]
  IN  IF r.rec[w].prefilled # Work[w].prompt_tokens THEN r
      ELSE [PublishPromptPrefix(r, w) EXCEPT !.rec[w].state = "decoding"]

TokenDone(q, finished, w) ==
  LET r == [q EXCEPT !.rec[w].generated = @ + 1]
  IN  IF w \in finished \/ r.rec[w].generated >= Work[w].max_tokens
      THEN ReleaseAndPublish(r, w, "completed") ELSE r

SettleMember(q, d, finished, w) ==
  IF q.rec[w].cancel_requested \/ q.rec[w].state = "cancelled"
  THEN ReleaseAndPublish(q, w, "cancelled")
  ELSE CASE d.kind = "stateless" -> PublishResult(q, w, "completed")
         [] d.kind = "prefill" -> ChunkDone(q, d, w)
         [] d.kind = "decode" -> TokenDone(q, finished, w)

(* The checks of batch_settle_dispatch before it commits. *)
StillOwned(q, d, i) ==
  LET w == d.members[i]
  IN  /\ q.rec[w].state # "unknown"
      /\ d.kind # "stateless" =>
           /\ q.rec[w].slot # NoSlot /\ q.rec[w].slot = d.slot[i]
           /\ q.rec[w].slot_generation = d.generation[i]
           /\ q.cache.slot_generation[q.rec[w].slot] = d.generation[i]

(* A member of a dispatch that did not succeed. *)
GiveUp(q, w) ==
  IF q.rec[w].state = "unknown" THEN q
  ELSE ReleaseAndPublish(q, w, IF q.rec[w].cancel_requested THEN "cancelled" ELSE "failed")

(* batch_settle_dispatch: all members advance, or every one is released. *)
Settle(q, d, ok, finished) ==
  LET slots == IF d.kind = "stateless" THEN {} ELSE Range(d.slot)
      good == /\ ok
              /\ \A i \in DOMAIN d.members : StillOwned(q, d, i)
              /\ CommitOK(q.cache, slots)
  IN  IF good THEN FoldLeft(LAMBDA r, w : SettleMember(r, d, finished, w),
                            [q EXCEPT !.cache = Commit(@, slots)], d.members)
      ELSE FoldLeft(GiveUp, [q EXCEPT !.cache = IF RollbackOK(@, slots)
                                                THEN Rollback(@, slots) ELSE @], d.members)

(* vx_batch_scheduler_complete: only the exposed head; the round ends with *)
(* its last dispatch.                                                      *)
Complete(ok, finished) ==
  /\ sched.pending # <<>> /\ Head(sched.pending).started
  /\ finished \subseteq Range(Head(sched.pending).members)
  /\ LET settled == [Settle(sched, Head(sched.pending), ok, finished)
                       EXCEPT !.pending = Tail(@)]
     IN  sched' = IF settled.pending = <<>> THEN FinishRound(settled) ELSE settled

CompleteAny ==
  \/ \E finished \in SUBSET Works : Complete(TRUE, finished)
  \/ Complete(FALSE, {})

-----------------------------------------------------------------------------
(* vx_batch_scheduler_close_async: queued work is cancelled either way;    *)
(* draining lets the admitted work finish, closing outright takes it back. *)
CancelQueue(q) ==
  FoldLeft(LAMBDA r, w : PublishResult(r, w, "cancelled"), [q EXCEPT !.queue = <<>>],
           q.queue)

CloseLocked(q, drain) ==
  LET shut == CancelQueue([q EXCEPT !.closed = TRUE, !.draining = drain])
      doomed == [shut EXCEPT !.rec =
                   [w \in Works |-> IF @[w].state = "unknown" THEN @[w]
                                    ELSE [@[w] EXCEPT !.cancel_requested = TRUE]]]
      settled == FoldLeft(LAMBDA r, d : Settle(r, d, FALSE, {}),
                          [doomed EXCEPT !.pending = <<>>], doomed.pending)
  IN  CASE drain /\ q.pending # <<>> -> shut
        [] drain /\ q.pending = <<>> -> FinishRound(shut)
        [] OTHER -> FinishRound(settled)

CloseAsync(drain) == sched' = CloseLocked(sched, drain)

(* Time passes: the oldest stateless work in the queue reaches max_wait. *)
AgeOut ==
  \E w \in Range(sched.queue) \ sched.aged :
    /\ FillFirst /\ Stateless(w)
    /\ \A v \in Range(sched.queue) \ sched.aged :
         Stateless(v) => Position(sched, w) <= Position(sched, v)
    /\ sched' = [sched EXCEPT !.aged = @ \cup {w}]

Close == \E drain \in BOOLEAN : CloseAsync(drain)

Callers == Close \/ AgeOut \/ \E w \in Works : Submit(w) \/ Cancel(w) \/ ForgetResult(w)

Next == Callers \/ NextDispatch \/ CompleteAny

Spec == Init /\ [][Next]_sched

-----------------------------------------------------------------------------
(* Every record, queue and dispatch has its type. *)
Dispatches == [kind: {"stateless", "prefill", "decode"}, members: Seq(Works), rows: Nat,
               started: BOOLEAN, slot: Seq(Slots \cup {NoSlot}),
               generation: Seq(0 .. MaxGeneration)]
TypeOK ==
  /\ sched.cache \in CacheType
  /\ sched.rec \in [Works -> Record]
  /\ sched.occupants \in [Slots -> Works \cup {NoWork}]
  /\ sched.requests \in Seq(Works) /\ sched.queue \in Seq(Works)
  /\ sched.results \in Seq(Result) /\ sched.pending \in Seq(Dispatches)
  /\ sched.aged \subseteq Works
  /\ {sched.closed, sched.draining, sched.in_round} \subseteq BOOLEAN

Holder(s) == sched.occupants[s]
Members == UNION {Range(d.members) : d \in Range(sched.pending)}
InFlightSlots == (UNION {Range(d.slot) : d \in Range(sched.pending)}) \ {NoSlot}

(* Slot and occupant agree in both directions, under the generation the    *)
(* occupant was admitted with; a slot without occupant keeps no tokens, no *)
(* page, no prefix and no reservation, so nothing leaks when work ends.    *)
SlotOwnership ==
  /\ \A w \in Works : sched.rec[w].slot # NoSlot =>
       /\ Holder(sched.rec[w].slot) = w
       /\ sched.cache.slot_generation[sched.rec[w].slot] = sched.rec[w].slot_generation
  /\ \A s \in Slots :
       IF Holder(s) # NoWork THEN sched.rec[Holder(s)].slot = s
       ELSE /\ PagesOf(sched.cache.page_table[s]) = {}
            /\ sched.cache.kv_length[s] = 0
            /\ sched.cache.slot_prefix[s] = NoKey
            /\ ~Open(sched.cache, s)

(* A dispatched slot "cannot be reused underneath that work": until the    *)
(* dispatch settles its members keep slot, generation and the one open     *)
(* reservation made for it, and no member is in two dispatches.            *)
InFlightIntact ==
  /\ \A i \in DOMAIN sched.pending : \A m \in DOMAIN sched.pending[i].members :
       LET d == sched.pending[i]
       IN  /\ StillOwned(sched, d, m)
           /\ d.kind # "stateless" =>
                /\ Open(sched.cache, d.slot[m])
                /\ sched.cache.reservation[d.slot[m]].tokens = d.rows
           /\ \A j \in DOMAIN sched.pending : \A n \in DOMAIN sched.pending[j].members :
                sched.pending[j].members[n] = d.members[m] => i = j /\ m = n
  /\ \A s \in Slots : Open(sched.cache, s) <=>
       s \in InFlightSlots \/ (Holder(s) # NoWork /\ sched.rec[Holder(s)].pending)

(* What the cache holds for a request is what was computed for it: its     *)
(* shared prefix, its finished prompt chunks and its generated tokens.     *)
LengthIsProgress ==
  \A w \in Works : sched.rec[w].slot # NoSlot =>
    /\ sched.cache.kv_length[sched.rec[w].slot] =
         sched.rec[w].prefilled + sched.rec[w].generated
    /\ sched.rec[w].prefilled <= Work[w].prompt_tokens
    /\ sched.rec[w].generated <= Work[w].max_tokens

(* Slots follow the work that owns them, in both directions and down to    *)
(* the number of tokens, whatever was cancelled, closed or rolled back.    *)
SlotsFollowWork == SlotOwnership /\ LengthIsProgress

(* Accepted work is never lost and never in two places: it waits in the    *)
(* queue once, or travels in a dispatch, or owns a slot, until it is       *)
(* terminal; only then does it have a result, and then exactly one.        *)
WorkAccounted ==
  \A w \in Works :
    LET queued == Cardinality({i \in DOMAIN sched.queue : sched.queue[i] = w})
        live == sched.rec[w].state \in Live
    IN  /\ live <=> queued = 1 \/ sched.rec[w].slot # NoSlot
                      \/ (sched.rec[w].state = "queued" /\ w \in Members)
        /\ queued <= 1 /\ (queued = 1 => sched.rec[w].state = "queued" /\ w \notin Members)
        /\ Cardinality(ResultsFor(sched, w)) <= 1
        /\ live => ResultsFor(sched, w) = {}
        /\ w \in Range(sched.requests) <=> sched.rec[w].state # "unknown"

(* Between rounds nothing is half done: no dispatch, no open reservation,  *)
(* no terminal record and no deferred cancellation is left over.           *)
RoundsAreClosed ==
  /\ sched.in_round <=> sched.pending # <<>>
  /\ ~sched.in_round =>
       /\ \A s \in Slots : ~Open(sched.cache, s)
       /\ \A w \in Works :
            sched.rec[w].state \notin Terminal /\ ~sched.rec[w].cancel_requested

(* Every dispatch fits its width and token budget with its padding, and    *)
(* stacks only requests of one group.                                      *)
DispatchWithinBudget ==
  \A i \in DOMAIN sched.pending :
    LET d == sched.pending[i]
        useful == Len(d.members)
        padding == IF d.kind = "stateless" THEN (- useful) % MultipleOf ELSE 0
    IN  /\ useful > 0 /\ useful + padding <= MaxSlots
        /\ (useful + padding) * d.rows <= TokenBudget
        /\ \A v, w \in Range(d.members) : KeyOf(v) = KeyOf(w)

(* Work leaves the pool only with a result in the ring: an accepted        *)
(* request never ends silently, whoever ends it (a caller may take the     *)
(* result of a request that ended earlier in the round).                   *)
RetiredWithResult ==
  [][\A w \in Works :
       sched.rec[w].state \in Live /\ sched'.rec[w].state \notin Live
         => ResultsFor(sched', w) # {}]_sched

(* Admission is head first: a decode request never gets a slot while an    *)
(* older one stays in the queue.                                           *)
NoOvertaking ==
  [][\A v, w \in Works :
       /\ v \in Range(sched.queue) /\ ~Stateless(v) /\ v \in Range(sched'.queue)
       /\ w \in Range(sched.queue) /\ ~Stateless(w) /\ sched'.rec[w].slot # NoSlot
       => Position(sched, w) < Position(sched, v)]_sched
=============================================================================
