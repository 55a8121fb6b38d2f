----------------------------- MODULE DecodeCache -----------------------------
(***************************************************************************)
(* The decode cache of an execution context:                               *)
(* src/native/src/runtime/public_api_decode_cache.inc, driven by the run   *)
(* funnel (public_api_execute_result.inc) and the execution contract       *)
(* (public_api_execution_driver.inc).  It composes the page policy of      *)
(* PagedKVCache with what the pages stand for: the key/value rows in the   *)
(* tensors, the token inputs they were computed from, the host copies of   *)
(* published prefixes and the deferred page erasures.                      *)
(*                                                                         *)
(* vx_context_operation_begin lets one operation on a context run at a     *)
(* time, so an operation is one step; a run is two, because its admission  *)
(* reserves pages and may then be refused (preflight, result budget,       *)
(* deadline, cancellation) before anything is committed.  A generation     *)
(* (public_api_decode_feedback.inc) is one run of many tokens.             *)
(*                                                                         *)
(* Abstracted: every cached tensor is one array of rows, and the row of a  *)
(* token is the token it was computed from.  Input rows past a slot's      *)
(* active length are not kept: a step writes its input row before anything *)
(* reads it.  Slot positions are within the sequence (the geometry check). *)
(***************************************************************************)
EXTENDS PagedKVCache, Sequences, SequencesExt

CONSTANTS Tokens,         \* the values an input row may have
          Zero,           \* a row flush_erases cleared
          Leftover,       \* what the prefill computes past a prompt's tokens
          ClearOnRecycle  \* clear_on_recycle of the cache options

ASSUME DecodeConstants ==
  /\ IsFiniteSet(Tokens) /\ ClearOnRecycle \in BOOLEAN
  /\ MaxPages * PageTokens <= NumSlots * SlotTokenCapacity

VARIABLES
  phase,    \* fresh, initializing, ready, reserved (a step is open), generating
            \* (a generation is open) or closed (terminal, or not prefilled)
  prepared, \* execution_prepared_cache: a cache with the prompt's pages, or NoCache
  cache,    \* decode_cache->pages
  content,  \* per slot, the input tokens of its active rows (decode_active_lengths)
  rows,     \* the key/value tensors: what each physical row holds
  erase,    \* decode_cache->erase: the pages to clear before the next write
  saved     \* decode_cache->prefixes: the host copy of a published prefix

vars == <<phase, prepared, cache, content, rows, erase, saved>>

Sequence(n) == [1 .. n -> Tokens]
Contents == UNION {Sequence(n) : n \in 0 .. SlotTokenCapacity}
Prompts == [Slots -> Contents \ {<<>>}]
Blank == [s \in Slots |-> <<>>]
NotSaved == [k \in Keys |-> <<>>]
NoCache == EmptyCache
Rows == 0 .. MaxPages * PageTokens - 1
Length(s) == Len(content[s])

(* vx_paged_row_slot: where the paged binding finds token t of slot s. *)
RowAt(m, t) == m[t \div PageTokens] * PageTokens + (t % PageTokens)
Physical(c, s, t) == RowAt(c.page_table[s], t)
RowsOfPage(p) == p * PageTokens .. p * PageTokens + PageTokens - 1
Offset(r) == r % PageTokens

-----------------------------------------------------------------------------
Init ==
  /\ phase = "fresh" /\ prepared = NoCache /\ cache = EmptyCache
  /\ content = Blank /\ rows = [r \in Rows |-> Leftover] /\ erase = {} /\ saved = NotSaved

(* vx_context_clear_decode_tracking: both caches, their prefixes and the   *)
(* lengths go; nothing of the context can be decoded any more.             *)
ClearTracking ==
  /\ prepared' = NoCache /\ cache' = EmptyCache /\ content' = Blank
  /\ erase' = {} /\ saved' = NotSaved /\ UNCHANGED rows

(* vx_cache_configure_impl of a prompt: one append per slot, in slot order. *)
SlotOrder == [i \in 1 .. NumSlots |-> i - 1]
AppendPrompt(prompt, built, s) ==
  IF built.ok /\ AppendOK(built.cache, s, Len(prompt[s]))
  THEN [ok |-> TRUE, cache |-> AppendTokens(built.cache, s, Len(prompt[s]))]
  ELSE [ok |-> FALSE, cache |-> built.cache]
BuiltFor(prompt) ==
  FoldLeft(LAMBDA built, s : AppendPrompt(prompt, built, s),
           [ok |-> TRUE, cache |-> EmptyCache], SlotOrder)

(* Admission of the initializing run: the pool must hold the prompt.  A    *)
(* cache that is already prepared is kept as it is.                        *)
InitializeOpen ==
  /\ phase = "fresh"
  /\ \E prompt \in Prompts :
       /\ content' = prompt
       /\ prepared' = IF prepared # NoCache THEN prepared ELSE BuiltFor(prompt).cache
       /\ prepared = NoCache => BuiltFor(prompt).ok
  /\ phase' = "initializing"
  /\ UNCHANGED <<cache, rows, erase, saved>>

(* Refused before it committed: vx_execution_settle frees what it prepared, *)
(* and the context is READY for another prompt.                            *)
(* Fault: the prepared cache stays for the next prompt. *)
SettledPreparationKept == prepared
SettledPreparation == NoCache
InitializeRefused ==
  /\ phase = "initializing"
  /\ phase' = "fresh" /\ prepared' = SettledPreparation /\ content' = Blank
  /\ UNCHANGED <<cache, rows, erase, saved>>

(* The prefill computed the prompt's rows and vx_execution_apply_cache     *)
(* activates the prepared cache: the rows of the active tokens are copied  *)
(* from the prefill's layout, a full sequence per slot, to the pages that  *)
(* were appended for them.  Nothing clears the other rows.                 *)
Mapped(c, s, t) == c.page_table[s][t \div PageTokens] # Unmapped
PrefillRow(r) ==
  LET prompt == content[r \div SlotTokenCapacity]
      t == r % SlotTokenCapacity
  IN  IF t < Len(prompt) THEN prompt[t + 1] ELSE Leftover
Repacked(c) ==
  [r \in Rows |->
    IF \E s \in Slots : \E t \in 0 .. Length(s) - 1 : Physical(c, s, t) = r
    THEN CHOOSE v \in Tokens : \E s \in Slots : \E t \in 0 .. Length(s) - 1 :
           Physical(c, s, t) = r /\ content[s][t + 1] = v
    ELSE PrefillRow(r)]

InitializeCommit ==
  /\ phase = "initializing"
  /\ \A s \in Slots : \A t \in 0 .. Length(s) - 1 : Mapped(prepared, s, t)
  /\ phase' = "ready" /\ cache' = prepared /\ prepared' = NoCache
  /\ rows' = Repacked(prepared) /\ erase' = {} /\ saved' = NotSaved
  /\ UNCHANGED content

InitializeFail == phase = "initializing" /\ phase' = "closed" /\ ClearTracking

-----------------------------------------------------------------------------
(* A decode step.  Each slot is left out, advances by its next token, or   *)
(* recomputes its last one; vx_cache_transaction_reserve makes the page of *)
(* each position writable, in slot order, or refuses the whole call.       *)
StepActions(s) ==
  {"empty"} \cup (IF Length(s) < SlotTokenCapacity THEN {"advance"} ELSE {})
            \cup (IF Length(s) > 0 THEN {"recompute"} ELSE {})
StepTokens(c, s, action) ==
  (IF action = "advance" THEN Length(s) + 1 ELSE Length(s)) - c.kv_length[s]
StepPosition(s, action) == IF action = "advance" THEN Length(s) ELSE Length(s) - 1

ReserveSlot(actions, step, s) ==
  LET n == StepTokens(step.cache, s, actions[s])
      position == StepPosition(s, actions[s])
  IN  IF ~step.ok \/ actions[s] = "empty" THEN step
      ELSE IF n >= 0 /\ ReserveWriteOK(step.cache, s, n, position)
      THEN [ok |-> TRUE, cache |-> ReserveWrite(step.cache, s, n, position)]
      ELSE [ok |-> FALSE, cache |-> step.cache]
Reserved(actions) ==
  FoldLeft(LAMBDA step, s : ReserveSlot(actions, step, s),
           [ok |-> TRUE, cache |-> cache], SlotOrder)

(* recycle_page: allocating a page asks for its erasure. *)
Recycled(pages) == IF ClearOnRecycle THEN erase \cup pages ELSE erase

(* The run is admitted, or OVERLOADED: what was taken, every free page, is *)
(* given back.                                                             *)
Admitted(step, run) ==
  IF step.ok THEN /\ cache' = step.cache
                  /\ erase' = Recycled(cache.free \ step.cache.free)
                  /\ phase' = run
             ELSE erase' = Recycled(cache.free) /\ UNCHANGED <<cache, phase>>

StepOpen ==
  /\ phase = "ready"
  /\ \E actions \in [Slots -> {"empty", "advance", "recompute"}] :
       /\ \A s \in Slots : actions[s] \in StepActions(s)
       /\ \E s \in Slots : actions[s] # "empty"
       /\ Admitted(Reserved(actions), "reserved")
  /\ UNCHANGED <<prepared, content, rows, saved>>

InStep == {s \in Slots : Open(cache, s)}
Position(s) == cache.kv_length[s] + cache.reservation[s].tokens - 1

(* Refused after the reservation and before the bindings were committed.   *)
StepRefused ==
  /\ phase \in {"reserved", "generating"} /\ RollbackOK(cache, InStep)
  /\ cache' = Rollback(cache, InStep) /\ phase' = "ready"
  /\ UNCHANGED <<prepared, content, rows, erase, saved>>

(* vx_cache_transaction_prepare: clear the pages that were asked for, then *)
(* give every copy-on-write page its source's rows.                        *)
Flushed(data) == [r \in Rows |-> IF r \div PageTokens \in erase THEN Zero ELSE data[r]]
CopySource(p) ==
  {q \in Pages : \E s \in InStep : \E l \in Logical :
     /\ cache.page_table[s][l] = p /\ cache.reservation[s].prior[l] = q}
Copied(data) ==
  [r \in Rows |->
    LET source == CopySource(r \div PageTokens)
    IN  IF source = {} THEN data[r]
        ELSE data[(CHOOSE q \in source : TRUE) * PageTokens + Offset(r)]]
(* Fault: the pages are cleared after they were copied. *)
PreparedRowsCopyFirst == Flushed(Copied(rows))
(* Fault: the pages that were asked for are not cleared. *)
PreparedRowsUnflushed == Copied(rows)
PreparedRows == Copied(Flushed(rows))

(* The run committed: the pages are prepared, the engine writes the row at *)
(* each position from its new input, and the reservations are committed.   *)
StepCommit ==
  /\ phase = "reserved" /\ CommitOK(cache, InStep)
  /\ \E input \in [InStep -> Tokens] :
       /\ content' = [s \in Slots |->
            IF s \in InStep THEN SubSeq(content[s], 1, Position(s)) \o <<input[s]>>
            ELSE content[s]]
       /\ rows' = [r \in Rows |->
            IF \E s \in InStep : Physical(cache, s, Position(s)) = r
            THEN input[CHOOSE s \in InStep : Physical(cache, s, Position(s)) = r]
            ELSE PreparedRows[r]]
  /\ cache' = Commit(cache, InStep) /\ erase' = {} /\ phase' = "ready"
  /\ UNCHANGED <<prepared, saved>>

(* A failure after the bindings were committed ends the context as FAILED. *)
StepFail == phase \in {"reserved", "generating"} /\ phase' = "closed" /\ ClearTracking

-----------------------------------------------------------------------------
(* A generation: one run of up to n tokens, each fed back as the next      *)
(* input, in a context of one slot.  It reserves the rows of all of them   *)
(* (feedback->end) and makes the page of the first one writable.           *)
Only == 0
GenerateOpen ==
  /\ phase = "ready" /\ NumSlots = 1 /\ Length(Only) >= 1
  /\ \E n \in 1 .. SlotTokenCapacity - Length(Only) :
       LET tokens == Length(Only) + n - cache.kv_length[Only]
       IN  IF tokens >= 0 /\ ReserveWriteOK(cache, Only, tokens, Length(Only))
           THEN Admitted([ok |-> TRUE, cache |-> ReserveWrite(cache, Only, tokens, Length(Only))],
                         "generating")
           ELSE Admitted([ok |-> FALSE, cache |-> cache], "generating")
  /\ UNCHANGED <<prepared, content, rows, saved>>

(* A stop token, a cancellation or the deadline may end it after any       *)
(* number of tokens, none included; the reservation is lowered to what was *)
(* computed, and committed.                                                *)
Limit == cache.kv_length[Only] + cache.reservation[Only].tokens - Length(Only)
Computed(done) == Length(Only) + done - cache.kv_length[Only]
(* Fault: a generation that stopped early commits all it reserved. *)
CompletedUnlowered(done) == cache
Completed(done) ==
  IF Computed(done) >= 0 /\ Computed(done) < cache.reservation[Only].tokens
  THEN Shorten(cache, Only, Computed(done)) ELSE cache

GeneratedAt(r, done) ==
  {i \in 1 .. done : Physical(cache, Only, Length(Only) + i - 1) = r}
GenerateCommit ==
  /\ phase = "generating" /\ CommitOK(cache, InStep)
  /\ \E done \in 0 .. Limit : \E input \in Sequence(done) :
       /\ content' = [content EXCEPT ![Only] = @ \o input]
       /\ rows' = [r \in Rows |->
            IF GeneratedAt(r, done) # {} THEN input[CHOOSE i \in GeneratedAt(r, done) : TRUE]
            ELSE PreparedRows[r]]
       /\ cache' = Commit(Completed(done), InStep)
  /\ erase' = {} /\ phase' = "ready"
  /\ UNCHANGED <<prepared, saved>>

-----------------------------------------------------------------------------
(* PublishContextPrefix: the host keeps the input and output rows of a     *)
(* prefix it did not have; the pages are shared by reference.              *)
PublishPrefix(k, s) ==
  /\ phase = "ready"
  /\ \E n \in 1 .. Length(s) :
       /\ PublishOK(cache, k, s, n)
       /\ cache' = Publish(cache, k, s, n)
       /\ saved' = IF saved[k] # <<>> THEN saved
                   ELSE [saved EXCEPT ![k] = SubSeq(content[s], 1, n)]
  /\ UNCHANGED <<phase, prepared, content, rows, erase>>

(* ReuseContextPrefix: graft the prefix on an empty slot, then restore its *)
(* host rows.                                                              *)
Reuse(k, s) ==
  /\ phase = "ready" /\ content[s] = <<>>
  /\ saved[k] # <<>> /\ AcquireOK(cache, k, s)
  /\ cache' = Acquire(cache, k, s)
  /\ content' = [content EXCEPT ![s] = saved[k]]
  /\ UNCHANGED <<phase, prepared, rows, erase, saved>>

(* ReleaseContextSlot, and EvictContextPrefixes, which drops the host copy *)
(* of every prefix the pages no longer have.  Both flush the erasures.     *)
Release(s) ==
  /\ phase = "ready" /\ ReleaseSlotOK(cache, s)
  /\ cache' = ReleaseSlot(cache, s)
  /\ content' = [content EXCEPT ![s] = <<>>]
  /\ rows' = Flushed(rows) /\ erase' = {}
  /\ UNCHANGED <<phase, prepared, saved>>

Surviving(c) == LiveKeys(c)
EvictPrefixes ==
  /\ phase = "ready"
  /\ \E n \in 0 .. MaxPages :
       /\ cache' = Evict(cache, n)
       /\ saved' = [k \in Keys |-> IF k \in Surviving(Evict(cache, n)) THEN saved[k] ELSE <<>>]
  /\ rows' = Flushed(rows) /\ erase' = {}
  /\ UNCHANGED <<phase, prepared, content>>

(* A transfer of one of these commands fails after it changed something.   *)
CommandFail == phase = "ready" /\ phase' = "closed" /\ ClearTracking

Next ==
  \/ InitializeOpen \/ InitializeRefused \/ InitializeCommit \/ InitializeFail
  \/ StepOpen \/ StepRefused \/ StepCommit \/ StepFail
  \/ GenerateOpen \/ GenerateCommit
  \/ \E s \in Slots : Release(s) \/ \E k \in Keys : PublishPrefix(k, s) \/ Reuse(k, s)
  \/ EvictPrefixes \/ CommandFail

Spec == Init /\ [][Next]_vars

-----------------------------------------------------------------------------
TypeOK ==
  /\ phase \in {"fresh", "initializing", "ready", "reserved", "generating", "closed"}
  /\ prepared \in CacheType /\ cache \in CacheType
  /\ content \in [Slots -> Contents]
  /\ rows \in [Rows -> Tokens \cup {Zero, Leftover}]
  /\ erase \subseteq Pages /\ saved \in [Keys -> Contents]

(* What attention reads is what was decoded: the row of every active token *)
(* of every slot, through its page table, is the row computed from that    *)
(* slot's own input, and the pages of a published prefix hold the rows the *)
(* host saved with it ("Published pages remain immutable through COW").    *)
RowsFollowInputs ==
  phase \in {"ready", "reserved", "generating"} =>
    /\ phase = "ready" => \A s \in Slots : \A t \in 0 .. Length(s) - 1 :
         Mapped(cache, s, t) /\ rows[Physical(cache, s, t)] = content[s][t + 1]
    /\ \A k \in LiveKeys(cache) : \A t \in 0 .. Len(saved[k]) - 1 :
         rows[RowAt(cache.prefix[k].pages, t)] = saved[k][t + 1]

(* The three records of what is cached agree whenever no run is open: the  *)
(* page lengths with the context's active lengths, the host's prefixes     *)
(* with the pages', and no reservation is left over from a refused run; an *)
(* open run can always be settled, its callers do not look at the status.  *)
TrackingAgrees ==
  /\ phase \in {"reserved", "generating"} => InStep # {} /\ CommitOK(cache, InStep)
  /\ phase = "ready" =>
    /\ \A s \in Slots : cache.kv_length[s] = Length(s) /\ ~Open(cache, s)
    /\ cache.reserved_pages = 0
    /\ \A k \in Keys : Len(saved[k]) = (IF cache.prefix[k].live THEN cache.prefix[k].tokens ELSE 0)

(* With clear_on_recycle the pages a stopped generation left mapped ahead  *)
(* of its slot's tokens hold nothing of their former holder, however the   *)
(* erasures were delayed by refused runs ("Nonzero clears a page's bytes   *)
(* when it is recycled").  The page of the last token promises less: its   *)
(* other rows may be another slot's, from before the first repacking.      *)
PagesAheadClear ==
  ClearOnRecycle /\ phase = "ready" =>
    \A s \in Slots, l \in Logical : \A r \in RowsOfPage(cache.page_table[s][l]) :
      cache.page_table[s][l] # Unmapped /\ l * PageTokens >= Length(s) => rows[r] = Zero
=============================================================================
