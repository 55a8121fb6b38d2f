--------------------------- MODULE RuntimeRequests ---------------------------
(***************************************************************************)
(* The request coordinator of a SCHEDULED runtime                          *)
(* (src/native/src/runtime/public_api_runtime_requests.inc and             *)
(* public_api_scheduled_execution.inc): threads that submit requests, the  *)
(* one worker that runs them, clients that poll, cancel and take results,  *)
(* direct runs on the same route, and close.                               *)
(*                                                                         *)
(* What coordinator->mutex and the request mutexes inside it protect is    *)
(* one record "rt"; an operator on it is a function called with the locks  *)
(* held, and an action is what a thread does between taking and dropping   *)
(* them.  A submission, a step of the worker and a close drop the locks in *)
(* the middle: these are several actions, with the thread's place in       *)
(* submit, worker and closer.  A client's call first does Poll and then    *)
(* its own step.                                                           *)
(*                                                                         *)
(* Abstracted: one compiled route; payloads are a number of bytes; output  *)
(* tickets are counted, their bytes are not; reports; the coalescing delay *)
(* (the worker may stay in "pick" any time); reference counts of requests; *)
(* the lanes of a batch on the device arrive one by one.                   *)
(***************************************************************************)
EXTENDS Sequences, FiniteSets, FiniteSetsExt, SequencesExt, SchedulerPolicy, ContextReservation

CONSTANTS Requests,         \* 1 .. n: identities, in order of creation
          Contexts, NoContext,
          Specs,            \* what each may ask for when it is submitted
          MaxRequests, MaxInputBytes, MaxResults,   \* RuntimeBudget
          MinBatch, MaxBatch, MultipleOf,           \* batch contract of the route
          Closers, Callback,  \* threads in close; one of them may be the worker
          MaxTime

ASSUME RequestConstants ==
  /\ IsFiniteSet(Requests) /\ Requests = 1 .. Cardinality(Requests)
  /\ NoRequest \notin Requests /\ NoContext \notin Contexts
  /\ {MaxRequests, MaxInputBytes, MaxResults, MinBatch, MaxBatch, MultipleOf}
       \subseteq Nat \ {0}
  /\ MaxTime \in Nat

(* What vx_runtime_submit and vx_runtime_submit_execution validate: a      *)
(* LATEST request names its stream and DROP_IF_LATE its deadline.  A       *)
(* request without a context runs on the compiled route's own.             *)
Spec0 == [context: Contexts \cup {NoContext}, freshness: {"ALL", "LATEST", "DROP_IF_LATE"},
          stream: Nat, priority: Priorities, deadline: 0 .. MaxTime + 1,
          bytes: 0 .. MaxInputBytes, batch: BOOLEAN, async: BOOLEAN]
ASSUME SpecsAreValid ==
  /\ DOMAIN Specs = Requests
  /\ \A r \in Requests : \A s \in Specs[r] :
       /\ s \in Spec0
       /\ s.freshness = "LATEST" => s.stream # 0
       /\ s.freshness = "DROP_IF_LATE" => s.deadline # 0

(* Requests that may share a batch come from one of the two submissions:   *)
(* all of them have a context, or none has.                                *)
ASSUME BatchesAlike ==
  \A q, r \in Requests : \A s \in Specs[q], t \in Specs[r] :
    s.batch /\ t.batch => (s.context = NoContext) = (t.context = NoContext)

NoSpec == [context |-> NoContext, freshness |-> "ALL", stream |-> 0, priority |-> 0,
           deadline |-> 0, bytes |-> 0, batch |-> FALSE, async |-> FALSE]

VARIABLES rt,        \* the coordinator, its requests and their contexts
          submit,    \* each submitting thread: where it is, what it replaces
          worker,    \* the coordinator's worker thread and its batch
          closer,    \* the threads in vx_runtime_close
          life,      \* runtime->closed, coordinator creation, join
          direct,    \* a direct run: "none", "run" while it holds the route, "result"
          now

vars == <<rt, submit, worker, closer, life, direct, now>>

Terminal == {"SUCCEEDED", "CANCELLED", "FAILED", "SUPERSEDED"}
Unborn == [spec |-> NoSpec, submitted |-> 0, state |-> "NONE", cancel |-> FALSE,
           superseded |-> FALSE, budget |-> FALSE, counted |-> FALSE, bytes |-> 0,
           claim |-> FALSE, ticket |-> FALSE, token |-> FALSE, result |-> "none"]

(* batch: its lanes, in order; failed: the lane that stopped it, if any;   *)
(* lane: the next one to give up; staging: bytes of the stacked inputs;    *)
(* outcome and at: how and when the run ended.                             *)
Idle == [pc |-> "idle", batch |-> <<>>, failed |-> 0, lane |-> 0, staging |-> 0,
         outcome |-> "none", at |-> 0]

Init ==
  /\ rt = [req |-> [r \in Requests |-> Unborn], ctx |-> [x \in Contexts |-> FreshContext],
           queue |-> <<>>, inflight |-> {}, replacements |-> {},
           requests |-> 0, bytes |-> 0, waiters |-> 0, results |-> 0, stopping |-> FALSE]
  /\ submit = [r \in Requests |-> [pc |-> "new", victim |-> NoRequest]]
  /\ worker = Idle
  /\ closer = [k \in Closers |-> "open"]
  /\ life = [closed |-> FALSE, created |-> FALSE, joinStarted |-> FALSE, joined |-> FALSE]
  /\ direct = "none"
  /\ now = 0

-----------------------------------------------------------------------------
(* Reading the coordinator.                                                *)

Queued(c) == {c.queue[i] : i \in 1 .. Len(c.queue)}
Bound(c, r) == c.req[r].spec.context # NoContext
ContextOf(c, r) == c.ctx[c.req[r].spec.context]
Late(c, r, at) == DeadlineExpired(c.req[r].spec.deadline, at)
Hard(c, r) == c.req[r].spec.freshness = "DROP_IF_LATE"

(* LATEST requests of one route, stream and kind of execution. *)
SameStream(c, q, r) ==
  LET a == c.req[q].spec  b == c.req[r].spec
  IN  /\ a.freshness = "LATEST" /\ b.freshness = "LATEST"
      /\ a.stream = b.stream
      /\ (a.context = NoContext) = (b.context = NoContext)

(* The queued payload can be overwritten in place by the incoming one. *)
SameStorage(c, q, r) ==
  /\ SameStream(c, q, r)
  /\ c.req[q].spec.bytes = c.req[r].spec.bytes
  /\ c.req[q].budget /\ c.req[q].counted /\ c.req[q].claim

ReplacementConflict(c, r) == \E q \in c.replacements : SameStream(c, q, r)

Before(c, q, r) ==
  LET Key(i) == [priority |-> c.req[i].spec.priority, submitted |-> c.req[i].submitted,
                 deadline |-> c.req[i].spec.deadline, id |-> i]
  IN  Precedes(Key(q), Key(r), now)

Best(c, S) == CHOOSE r \in S : \A q \in S \ {r} : Before(c, r, q)

-----------------------------------------------------------------------------
(* Functions called with the locks held.                                   *)

SetReq(c, r, f, v) == [c EXCEPT !.req[r] = [@ EXCEPT ![f] = v]]
SetCtx(c, r, x) == [c EXCEPT !.ctx[c.req[r].spec.context] = x]
Without(queue, S) ==
  FoldLeft(LAMBDA kept, r : IF r \in S THEN kept ELSE Append(kept, r), <<>>, queue)
Release(b) == IF b THEN 1 ELSE 0

BudgetRelease(c, r) ==
  LET q == c.req[r]
  IN  IF ~q.budget THEN c
      ELSE [c EXCEPT !.requests = @ - Release(q.counted),
                     !.bytes = IF q.bytes <= @ THEN @ - q.bytes ELSE 0,
                     !.waiters = @ - Release(q.claim),
                     !.req[r] = [@ EXCEPT !.budget = FALSE, !.counted = FALSE,
                                          !.bytes = 0, !.claim = FALSE]]

(* Fault: the released ticket is still the request's. *)
TicketReleaseAgain(c, r) == [c EXCEPT !.results = @ - Release(c.req[r].ticket)]
TicketRelease(c, r) ==
  [c EXCEPT !.results = @ - Release(c.req[r].ticket), !.req[r] = [@ EXCEPT !.ticket = FALSE]]

(* vx_request_inputs_clear gives an unused context reservation back, and   *)
(* with it the output ticket the context keeps for the request.            *)
InputsClear(c, r) ==
  IF ~c.req[r].token THEN c
  ELSE LET x == ContextOf(c, r)
           d == SetReq(SetCtx(c, r, Unreserve(x, r)), r, "token", FALSE)
       IN  IF UnreserveOK(x, r) THEN TicketRelease(d, r) ELSE d

(* A request that will not run any more leaves in a terminal state. *)
Retired(c, r, state) ==
  LET d == InputsClear(BudgetRelease(c, r), r)
      e == IF Bound(c, r) THEN d ELSE TicketRelease(d, r)
  IN  SetReq([e EXCEPT !.queue = Without(@, {r})], r, "state", state)

Withdrawn(c, r, state) == Retired(SetReq(c, r, "cancel", TRUE), r, state)

RetireAll(c, S, state) == FoldSet(LAMBDA r, d : Retired(d, r, state), c, S)
WithdrawAll(c, S, state) == FoldSet(LAMBDA r, d : Withdrawn(d, r, state), c, S)

Expired(c) == {r \in Queued(c) : Hard(c, r) /\ Late(c, r, now)}
Expire(c) == RetireAll(c, Expired(c), "FAILED")

(* Fault: only the queue is superseded. *)
SupersedeInflightNone(c, r) == c
(* Running requests of the stream are marked and settle as superseded. *)
SupersedeInflight(c, r) ==
  LET S == {q \in c.inflight : /\ SameStream(c, q, r) /\ c.req[q].state = "RUNNING"
                               /\ ~c.req[q].cancel /\ ~c.req[q].superseded}
  IN  [c EXCEPT !.req = [q \in Requests |->
         IF q \in S THEN [c.req[q] EXCEPT !.superseded = TRUE] ELSE c.req[q]]]

SupersedeQueued(c, r) ==
  WithdrawAll(c, {q \in Queued(c) : SameStream(c, q, r)}, "SUPERSEDED")

(* Fault: a late answer is looked at before the marks. *)
FinishStateLateFirst(c, r, outcome, at) ==
  IF (Hard(c, r) /\ Late(c, r, at)) \/ outcome # "OK" THEN "FAILED"
  ELSE IF c.req[r].superseded THEN "SUPERSEDED"
  ELSE IF c.req[r].cancel THEN "CANCELLED"
  ELSE "SUCCEEDED"

(* vx_request_finish_locked: superseded comes before cancelled, cancelled  *)
(* before late, and only then the result counts.                           *)
FinishState(c, r, outcome, at) ==
  IF c.req[r].superseded THEN "SUPERSEDED"
  ELSE IF c.req[r].cancel THEN "CANCELLED"
  ELSE IF (Hard(c, r) /\ Late(c, r, at)) \/ outcome # "OK" THEN "FAILED"
  ELSE "SUCCEEDED"

Finish(c, r, outcome, at) ==
  LET state == FinishState(c, r, outcome, at)
      d == InputsClear(BudgetRelease(c, r), r)
      held == c.req[r].result # "none"
      kept == state = "SUCCEEDED"
      e == [d EXCEPT !.inflight = @ \ {r},
                     !.results = @ - Release(held /\ ~kept),
                     !.req[r] = [@ EXCEPT !.state = state,
                                          !.result = IF kept THEN "held" ELSE "none"]]
  IN  IF ~Bound(c, r) THEN TicketRelease(e, r)
      ELSE IF FinishReservedOK(ContextOf(e, r), r)
      THEN SetCtx(TicketRelease(e, r), r, FinishReserved(ContextOf(e, r), r)) ELSE e

(* A result still on the device: polled, and finished when it arrived.  A  *)
(* request that is dropped does not wait for it unless a context does.     *)
SettlePending(c, r) ==
  LET stop == c.stopping /\ Bound(c, r)
      d == IF stop THEN SetCtx(SetReq(c, r, "cancel", TRUE), r,
                               CancelReserved(ContextOf(c, r), r)) ELSE c
      arrived == d.req[r].result # "pending"
      outcome == IF d.req[r].result = "lost" THEN "FAIL" ELSE "OK"
      e == IF arrived /\ Bound(c, r) THEN SetCtx(d, r, Settle(ContextOf(d, r), outcome)) ELSE d
      drop == \/ c.stopping \/ d.req[r].cancel \/ d.req[r].superseded
              \/ Hard(c, r) /\ Late(c, r, now)
  IN  IF arrived \/ (drop /\ ~Bound(c, r))
      THEN Finish(IF c.stopping THEN SetReq(e, r, "cancel", TRUE) ELSE e, r, outcome, now)
      ELSE e

(* Fault: a result that was lost is not looked for. *)
OnDeviceFound(c) == {r \in c.inflight : c.req[r].result \in {"pending", "arrived"}}
OnDevice(c) == {r \in c.inflight : /\ c.req[r].state = "RUNNING"
                                   /\ c.req[r].result \in {"pending", "arrived", "lost"}}

(* vx_runtime_coordinator_complete: any thread that looks at a request     *)
(* first expires the queue and settles what the device has finished.       *)
Complete(c) ==
  LET d == Expire(c) IN FoldSet(LAMBDA r, e : SettlePending(e, r), d, OnDevice(d))

-----------------------------------------------------------------------------
(* Submission.                                                             *)

At(r, pc) == submit[r].pc = pc
Goto(r, pc, victim) == submit' = [submit EXCEPT ![r] = [pc |-> pc, victim |-> victim]]

(* vx_request_destroy of a request that was not accepted. *)
Destroyed(c, r) == [TicketRelease(InputsClear(c, r), r) EXCEPT !.req[r] = Unborn]

Reserves(s) == s.context # NoContext
TicketEarly(s) == Reserves(s) /\ s.freshness # "LATEST"

CreateOK(s) ==
  /\ ~life.closed
  /\ ~(s.freshness = "DROP_IF_LATE" /\ DeadlineExpired(s.deadline, now))
  /\ Reserves(s) => ReserveOK(rt.ctx[s.context])
  /\ TicketEarly(s) => rt.results < MaxResults

Created(c, r, s) ==
  LET d == [c EXCEPT !.req[r] = [@ EXCEPT !.spec = s, !.submitted = now, !.state = "QUEUED",
                                          !.token = Reserves(s), !.ticket = TicketEarly(s)],
                     !.results = @ + Release(TicketEarly(s))]
  IN  IF Reserves(s) THEN SetCtx(d, r, Reserve(ContextOf(d, r), r)) ELSE d

(* Up to the coordinator's lock: the request is created, its context       *)
(* reserved, and the coordinator started if this is the first submission.  *)
Create(r, s) ==
  /\ At(r, "new") /\ \A q \in Requests : q < r => ~At(q, "new")
  /\ IF CreateOK(s)
     THEN /\ rt' = Created(rt, r, s)
          /\ life' = [life EXCEPT !.created = TRUE]
          /\ Goto(r, "admit", NoRequest)
     ELSE Goto(r, "refused", NoRequest) /\ UNCHANGED <<rt, life>>
  /\ UNCHANGED <<worker, closer, direct, now>>

First(c, S) == c.queue[Min({i \in 1 .. Len(c.queue) : c.queue[i] \in S})]

(* The queued frame that the incoming one replaces, best one of its size. *)
Victim(c, r) ==
  LET same == {q \in Queued(c) : SameStream(c, q, r)}
      fits == {q \in same : SameStorage(c, q, r)}
  IN  IF fits # {} THEN First(c, fits) ELSE IF same # {} THEN First(c, same) ELSE NoRequest

(* vx_request_output_admit: a predecessor's ticket serves its successor. *)
NeedsTicket(c, r, v) == ~c.req[r].ticket /\ ~(v # NoRequest /\ c.req[v].ticket)
TicketTaken(c, r, v) ==
  IF ~NeedsTicket(c, r, v) THEN c
  ELSE [c EXCEPT !.results = @ + 1, !.req[r] = [@ EXCEPT !.ticket = TRUE]]

(* vx_request_output_replace *)
TicketMoved(c, r, v) ==
  IF c.req[r].ticket \/ ~c.req[v].ticket THEN c
  ELSE [c EXCEPT !.req[r] = [@ EXCEPT !.ticket = TRUE], !.req[v] = [@ EXCEPT !.ticket = FALSE]]

Charged(c, r, reuse) ==
  [c EXCEPT !.requests = @ + Release(~reuse), !.bytes = @ + c.req[r].spec.bytes,
            !.req[r] = [@ EXCEPT !.budget = TRUE, !.counted = ~reuse,
                                 !.bytes = c.req[r].spec.bytes]]

Replacing(c, r) ==
  IF c.req[r].spec.freshness = "LATEST" THEN [c EXCEPT !.replacements = @ \cup {r}] ELSE c
Replaced(c, r) == [c EXCEPT !.replacements = @ \ {r}]
Appended(c, r) == [c EXCEPT !.queue = Append(@, r)]

(* The predecessor's whole claim, and its storage, pass to the request;    *)
(* the copy happens outside the lock.                                      *)
Swapped(c, r, v) ==
  LET q == c.req[v]
      d == TicketMoved(TicketTaken(c, r, v), r, v)
      e == [d EXCEPT !.queue = Without(@, {v}),
                     !.req[r] = [@ EXCEPT !.budget = q.budget, !.counted = q.counted,
                                          !.bytes = q.bytes, !.claim = q.claim],
                     !.req[v] = [@ EXCEPT !.budget = FALSE, !.counted = FALSE, !.bytes = 0,
                                          !.claim = FALSE, !.cancel = TRUE,
                                          !.state = "SUPERSEDED"]]
  IN  Replacing(e, r)

AdmitBlocked(r) ==
  /\ rt.req[r].spec.freshness = "LATEST"
  /\ ReplacementConflict(rt, r) /\ ~rt.stopping

Admit(r) ==
  LET v == Victim(rt, r)
      reuse == v # NoRequest /\ rt.req[v].budget /\ rt.req[v].counted
      d == TicketTaken(rt, r, v)
  IN
  /\ At(r, "admit") /\ ~AdmitBlocked(r)
  /\ \/ /\ \/ rt.stopping
           \/ NeedsTicket(rt, r, v) /\ rt.results >= MaxResults
           \/ ~(v # NoRequest /\ SameStorage(rt, v, r)) /\
              ~BudgetAdmits(rt.requests, MaxRequests, rt.bytes, MaxInputBytes,
                            rt.req[r].spec.bytes, reuse)
        /\ rt' = Destroyed(rt, r) /\ Goto(r, "refused", NoRequest)
     \/ /\ ~rt.stopping /\ (NeedsTicket(rt, r, v) => rt.results < MaxResults)
        /\ v # NoRequest /\ SameStorage(rt, v, r)
        /\ rt' = Swapped(rt, r, v) /\ Goto(r, "swap", v)
     \/ /\ ~rt.stopping /\ (NeedsTicket(rt, r, v) => rt.results < MaxResults)
        /\ ~(v # NoRequest /\ SameStorage(rt, v, r))
        /\ BudgetAdmits(rt.requests, MaxRequests, rt.bytes, MaxInputBytes,
                        rt.req[r].spec.bytes, reuse)
        /\ rt' = Replacing([Charged(d, r, reuse) EXCEPT !.queue = Without(@, {v})], r)
        /\ Goto(r, "snapshot", v)
  /\ UNCHANGED <<worker, closer, life, direct, now>>

(* Fault: the predecessor keeps its context. *)
FinishSwapUnreleased(r) ==
  LET e == SupersedeQueued(SupersedeInflight(rt, r), r)
  IN
  /\ At(r, "swap")
  /\ rt' = Replaced(IF rt.stopping THEN Withdrawn(rt, r, "CANCELLED") ELSE Appended(e, r), r)
  /\ Goto(r, "accepted", NoRequest)
  /\ UNCHANGED <<worker, closer, life, direct, now>>

(* The payload was written over the predecessor's. *)
FinishSwap(r) ==
  LET d == InputsClear(rt, submit[r].victim)
      e == SupersedeQueued(SupersedeInflight(d, r), r)
  IN
  /\ At(r, "swap")
  /\ rt' = Replaced(IF rt.stopping THEN Withdrawn(d, r, "CANCELLED") ELSE Appended(e, r), r)
  /\ Goto(r, "accepted", NoRequest)
  /\ UNCHANGED <<worker, closer, life, direct, now>>

(* Fault: the replacement stays open. *)
AbandonSnapshotOpen(r) ==
  LET v == submit[r].victim
      d == Destroyed(BudgetRelease(rt, r), r)
  IN
  /\ At(r, "snapshot")
  /\ rt' = IF v = NoRequest THEN d ELSE Appended(d, v)
  /\ Goto(r, "refused", NoRequest)
  /\ UNCHANGED <<worker, closer, life, direct, now>>

(* The copy failed, or close came meanwhile: the predecessor goes back. *)
AbandonSnapshot(r) ==
  LET v == submit[r].victim
      d == Destroyed(BudgetRelease(rt, r), r)
  IN
  /\ At(r, "snapshot")
  /\ rt' = Replaced(IF v = NoRequest THEN d ELSE Appended(d, v), r)
  /\ Goto(r, "refused", NoRequest)
  /\ UNCHANGED <<worker, closer, life, direct, now>>

(* What the request inherits from the one it replaces, which leaves.  *)
Inherited(c, r, v) ==
  LET p == c.req[r]  q == c.req[v]
      count == ~p.counted /\ q.counted
      d == [c EXCEPT !.req[r] = [@ EXCEPT !.counted = p.counted \/ count,
                                          !.claim = p.claim \/ q.claim],
                     !.req[v] = [@ EXCEPT !.counted = q.counted /\ ~count, !.claim = FALSE]]
  IN  Withdrawn(TicketMoved(d, r, v), v, "SUPERSEDED")

(* The count and the route claim a committed request must hold. *)
Claimed(c, r) ==
  [c EXCEPT !.requests = @ + Release(~c.req[r].counted),
            !.waiters = @ + Release(~c.req[r].claim),
            !.req[r] = [@ EXCEPT !.counted = TRUE, !.claim = TRUE]]

Commit(r) ==
  LET v == submit[r].victim
      d == IF v = NoRequest THEN rt ELSE Inherited(rt, r, v)
      e == SupersedeQueued(SupersedeInflight(d, r), r)
  IN
  /\ At(r, "snapshot") /\ ~rt.stopping
  /\ rt' = Replaced(Appended(Claimed(e, r), r), r)
  /\ Goto(r, "accepted", NoRequest)
  /\ UNCHANGED <<worker, closer, life, direct, now>>

-----------------------------------------------------------------------------
(* The worker.                                                             *)

Step(pc) == worker' = [worker EXCEPT !.pc = pc]

(* The queue is looked at, then completions, each under its own lock. *)
WorkerWake ==
  /\ life.created /\ worker.pc = "idle" /\ rt.queue # <<>>
  /\ rt' = Complete(rt) /\ Step("pick")
  /\ UNCHANGED <<submit, closer, life, direct, now>>

WorkerExit ==
  /\ life.created /\ worker.pc = "idle" /\ rt.queue = <<>> /\ rt.stopping
  /\ Step("exited")
  /\ UNCHANGED <<rt, submit, closer, life, direct, now>>

Compatible(c, q, r) ==
  c.req[q].spec.batch /\ c.req[r].spec.batch /\ c.req[q].spec.bytes = c.req[r].spec.bytes
Staging(c, first, n) == n * c.req[first].spec.bytes

(* vx_coordinator_legal_batch: the largest size the contract allows and    *)
(* whose stacked inputs fit in the input budget as well.                   *)
LegalBatch(c, first) ==
  LET mates == {r \in Queued(c) : Compatible(c, first, r)}
      legal == {n \in 2 .. Cardinality(mates) :
                  /\ n <= MaxBatch /\ n <= MaxRequests /\ n >= MinBatch
                  /\ n % MultipleOf = 0
                  /\ Staging(c, first, n) <= MaxInputBytes - c.bytes}
  IN  IF c.req[first].spec.batch /\ legal # {} THEN Max(legal) ELSE 1

Rank(c, S, r) == Cardinality({q \in S : Before(c, q, r)})

(* The anchor, then the best compatible requests in order. *)
Lanes(c, first, n) ==
  LET mates == {r \in Queued(c) \ {first} : Compatible(c, first, r)}
  IN  [i \in 1 .. Min({n, Cardinality(mates) + 1}) |->
         IF i = 1 THEN first ELSE CHOOSE r \in mates : Rank(c, mates, r) = i - 2]

Dispatched(c, lanes, staging) ==
  LET S == {lanes[i] : i \in 1 .. Len(lanes)}
  IN  [c EXCEPT !.queue = Without(@, S), !.inflight = @ \cup S, !.bytes = @ + staging,
                !.req = [r \in Requests |->
                  IF r \in S THEN [c.req[r] EXCEPT !.state = "RUNNING"] ELSE c.req[r]]]

(* A batch whose arrays cannot be allocated is dispatched as one request. *)
WorkerPick ==
  /\ worker.pc = "pick"
  /\ \/ /\ rt.queue = <<>> \/ Expired(rt) # {}
        /\ rt' = Expire(rt) /\ Step("idle")
     \/ /\ rt.queue # <<>> /\ Expired(rt) = {}
        /\ LET first == Best(rt, Queued(rt))
           IN  \E n \in {1, LegalBatch(rt, first)} :
                 LET lanes == Lanes(rt, first, n)
                     staging == IF n = 1 THEN 0 ELSE Staging(rt, first, n)
                 IN  /\ rt' = Dispatched(rt, lanes, staging)
                     /\ worker' = [Idle EXCEPT !.pc = "route", !.batch = lanes,
                                               !.staging = staging]
  /\ UNCHANGED <<submit, closer, life, direct, now>>

Lane(i) == worker.batch[i]
LaneSet == {Lane(i) : i \in 1 .. Len(worker.batch)}
BoundBatch == Bound(rt, Lane(1))
Single == Len(worker.batch) = 1

ContextsOf(c, S) == {c.req[r].spec.context : r \in S}

(* The reservations are used up and the contexts run. *)
ClaimLanes(c, S) ==
  [c EXCEPT !.req = [r \in Requests |->
                      IF r \in S THEN [c.req[r] EXCEPT !.token = FALSE] ELSE c.req[r]],
            !.ctx = [x \in Contexts |->
                      IF x \in ContextsOf(c, S) THEN Claim(c.ctx[x]) ELSE c.ctx[x]]]

(* The reservation is given back without a run. *)
RefuseLane(c, r) == InputsClear(c, r)

(* The route's lock is taken; the contexts of the lanes are claimed. *)
EnterRoute ==
  /\ worker.pc = "route" /\ direct # "run"
  /\ BoundBatch => \A r \in LaneSet : ClaimOK(ContextOf(rt, r), r)
  /\ rt' = IF BoundBatch THEN ClaimLanes(rt, LaneSet) ELSE rt
  /\ Step("run")
  /\ UNCHANGED <<submit, closer, life, direct, now>>

(* A request alone whose context was cancelled in the queue is refused.    *)
RefuseSingle ==
  /\ worker.pc = "route" /\ direct # "run" /\ Single /\ BoundBatch
  /\ ~ClaimOK(ContextOf(rt, Lane(1)), Lane(1))
  /\ rt' = RefuseLane(rt, Lane(1))
  /\ worker' = [worker EXCEPT !.pc = "done", !.outcome = "REFUSED", !.at = now]
  /\ UNCHANGED <<submit, closer, life, direct, now>>

(* vx_execution_batch_begin refuses lane k: the lanes before it have       *)
(* committed, the ones after it are still reserved.                        *)
RefuseBatch(k) ==
  LET r == Lane(k)
      x == ContextOf(rt, r)
      d == ClaimLanes(rt, {Lane(i) : i \in 1 .. k - 1})
      e == SetReq(d, r, "token", FALSE)
  IN
  /\ worker.pc = "route" /\ direct # "run" /\ ~Single /\ BoundBatch
  /\ \A i \in 1 .. k - 1 : ClaimOK(ContextOf(rt, Lane(i)), Lane(i))
  /\ rt' = IF ClaimOK(x, r) THEN SetCtx(e, r, Settle(Claim(x), "REFUSED")) ELSE e
  /\ worker' = [worker EXCEPT !.pc = "settle", !.failed = k, !.lane = 1]
  /\ UNCHANGED <<submit, closer, life, direct, now>>

(* A lane that was not begun lets go of its context first; from then on    *)
(* the context may be reserved again.                                      *)
UnreserveLane ==
  /\ worker.pc = "settle" /\ worker.lane > worker.failed
  /\ rt' = RefuseLane(rt, Lane(worker.lane))
  /\ Step("unreserved")
  /\ UNCHANGED <<submit, closer, life, direct, now>>

(* vx_execution_batch_complete settles the context, whoever holds it, and  *)
(* drops the output ticket kept in it.                                     *)
SettleLane ==
  LET i == worker.lane
      r == Lane(i)
      x == ContextOf(rt, r)
      outcome == IF i < worker.failed /\ ~x.cancel THEN "FAIL" ELSE "REFUSED"
      d == SetCtx(rt, r, Settle(x, outcome))
      last == i = Len(worker.batch)
  IN
  /\ \/ worker.pc = "unreserved"
     \/ worker.pc = "settle" /\ i <= worker.failed
  /\ rt' = IF i > worker.failed /\ x.token # NoRequest THEN TicketRelease(d, x.token) ELSE d
  /\ worker' = [worker EXCEPT !.pc = IF last THEN "done" ELSE "settle", !.lane = i + 1,
                              !.outcome = "REFUSED", !.at = now]
  /\ UNCHANGED <<submit, closer, life, direct, now>>

(* The run is over.  A context settles now unless its result is still on   *)
(* the device; a batch fails as a whole, but a cancelled lane settles as   *)
(* cancelled.  A request alone that got no result drops its ticket, and,   *)
(* if it never ran, the context that was cancelled under it.               *)
SettleRun(c, outcome) ==
  LET end(x) == IF outcome = "FAIL" /\ ~Single /\ x.cancel THEN "REFUSED" ELSE outcome
      d == [c EXCEPT !.ctx = [x \in Contexts |->
             IF x \in ContextsOf(c, LaneSet) THEN Settle(c.ctx[x], end(c.ctx[x])) ELSE c.ctx[x]]]
      r == Lane(1)
      e == IF outcome = "REFUSED" THEN SetCtx(d, r, Unreserve(ContextOf(d, r), r)) ELSE d
  IN  IF Single /\ outcome # "OK" THEN TicketRelease(e, r) ELSE e

RunEnd(outcome) ==
  /\ worker.pc = "run"
  /\ Callback \in Closers => closer[Callback] \in {"open", "done", "refused"}
  /\ outcome = "PENDING" => rt.req[Lane(1)].spec.async
  /\ outcome = "REFUSED" => Single /\ BoundBatch
  /\ rt' = IF BoundBatch /\ outcome # "PENDING" THEN SettleRun(rt, outcome) ELSE rt
  /\ worker' = [worker EXCEPT !.pc = "done", !.outcome = outcome, !.at = now]
  /\ UNCHANGED <<submit, closer, life, direct, now>>

(* The output ticket becomes the result's. *)
Resulted(c, r, result) ==
  [c EXCEPT !.req[r] = [@ EXCEPT !.ticket = FALSE, !.result = result]]

RetireLane(c, r) ==
  CASE worker.outcome = "PENDING" -> Resulted(c, r, "pending")
    [] worker.outcome = "OK" -> Finish(Resulted(c, r, "ready"), r, "OK", worker.at)
    [] OTHER -> Finish(c, r, "FAIL", worker.at)

(* Fault: the bytes of the stacked inputs are not given back. *)
RetireStaged ==
  /\ worker.pc = "done"
  /\ rt' = FoldSet(LAMBDA r, c : RetireLane(c, r), rt, LaneSet)
  /\ worker' = Idle
  /\ UNCHANGED <<submit, closer, life, direct, now>>

Retire ==
  /\ worker.pc = "done"
  /\ rt' = [FoldSet(LAMBDA r, c : RetireLane(c, r), rt, LaneSet)
              EXCEPT !.bytes = @ - worker.staging]
  /\ worker' = Idle
  /\ UNCHANGED <<submit, closer, life, direct, now>>

-----------------------------------------------------------------------------
(* Device, clients, direct runs, clock.                                    *)

DeviceDone(r, result) ==
  /\ rt.req[r].result = "pending"
  /\ rt' = SetReq(rt, r, "result", result)
  /\ UNCHANGED <<submit, worker, closer, life, direct, now>>

Poll ==
  /\ life.created /\ rt' = Complete(rt)
  /\ UNCHANGED <<submit, worker, closer, life, direct, now>>

(* A queued request that is not in the queue, because a replacement holds  *)
(* it, is left alone (BUSY).                                               *)
Cancel(r) ==
  LET q == rt.req[r]
      d == IF q.superseded THEN rt ELSE SetReq(rt, r, "cancel", TRUE)
  IN
  /\ At(r, "accepted")
  /\ \/ /\ q.state = "QUEUED" /\ r \in Queued(rt)
        /\ rt' = Withdrawn(rt, r, "CANCELLED")
     \/ /\ q.state = "RUNNING"
        /\ rt' = IF Bound(d, r) /\ d.req[r].cancel
                 THEN SetCtx(d, r, CancelReserved(ContextOf(d, r), r)) ELSE d
  /\ UNCHANGED <<submit, worker, closer, life, direct, now>>

(* A result is taken and released, or its request is, with the result.     *)
Discard(r) ==
  /\ At(r, "accepted") /\ rt.req[r].result = "held"
  /\ rt' = [SetReq(rt, r, "result", "gone") EXCEPT !.results = @ - 1]
  /\ UNCHANGED <<submit, worker, closer, life, direct, now>>

CancelContext(x) ==
  /\ CancelExecutionOK(rt.ctx[x]) /\ ~rt.ctx[x].cancel
  /\ rt' = [rt EXCEPT !.ctx[x] = CancelExecution(@)]
  /\ UNCHANGED <<submit, worker, closer, life, direct, now>>

RouteFree == worker.pc \notin {"run", "settle", "unreserved"}

(* vx_runtime_run never waits for the route nor passes scheduled work. *)
DirectBegin ==
  /\ direct = "none" /\ ~life.closed /\ rt.results < MaxResults
  /\ rt.waiters = 0 /\ RouteFree
  /\ rt' = [rt EXCEPT !.results = @ + 1] /\ direct' = "run"
  /\ UNCHANGED <<submit, worker, closer, life, now>>

(* The result's ticket is the caller's until it releases it. *)
DirectEnd ==
  /\ direct = "run" /\ direct' \in {"result", "none"}
  /\ rt' = [rt EXCEPT !.results = @ - Release(direct' = "none")]
  /\ UNCHANGED <<submit, worker, closer, life, now>>

DirectRelease ==
  /\ direct = "result" /\ direct' = "none"
  /\ rt' = [rt EXCEPT !.results = @ - 1]
  /\ UNCHANGED <<submit, worker, closer, life, now>>

Tick ==
  /\ now < MaxTime /\ now' = now + 1
  /\ UNCHANGED <<rt, submit, worker, closer, life, direct>>

-----------------------------------------------------------------------------
(* vx_runtime_close, by several threads; Callback's calls it from inside a *)
(* run, which goes on when close has refused to wait for itself.           *)

Closing(k, from, to) == closer[k] = from /\ closer' = [closer EXCEPT ![k] = to]

CloseBegin(k) ==
  /\ k = Callback => worker.pc = "run"
  /\ Closing(k, "open", "direct")
  /\ life' = [life EXCEPT !.closed = TRUE]
  /\ UNCHANGED <<rt, submit, worker, direct, now>>

CloseStop(k) ==
  /\ direct # "run"
  /\ Closing(k, "direct", IF life.created THEN "drain" ELSE "done")
  /\ rt' = [rt EXCEPT !.stopping = life.created]
  /\ UNCHANGED <<submit, worker, life, direct, now>>

CloseDrain(k) ==
  /\ rt.replacements = {}
  /\ Closing(k, "drain", CASE k = Callback -> "refused"
                          [] life.joined -> "complete"
                          [] life.joinStarted -> "wait"
                          [] OTHER -> "join")
  /\ rt' = WithdrawAll(rt, Queued(rt), "CANCELLED")
  /\ life' = [life EXCEPT !.joinStarted = @ \/ k # Callback]
  /\ UNCHANGED <<submit, worker, direct, now>>

CloseJoin(k) ==
  /\ \/ closer[k] = "join" /\ worker.pc = "exited"
     \/ closer[k] = "wait" /\ life.joined
  /\ closer' = [closer EXCEPT ![k] = "complete"]
  /\ life' = [life EXCEPT !.joined = TRUE]
  /\ UNCHANGED <<rt, submit, worker, direct, now>>

CloseComplete(k) ==
  /\ Closing(k, "complete", "done")
  /\ rt' = Complete(rt)
  /\ UNCHANGED <<submit, worker, life, direct, now>>

-----------------------------------------------------------------------------
Submitting(r) == Admit(r) \/ FinishSwap(r) \/ AbandonSnapshot(r) \/ Commit(r)
Working ==
  \/ WorkerWake \/ WorkerExit \/ WorkerPick \/ EnterRoute \/ RefuseSingle
  \/ \E k \in 1 .. Len(worker.batch) : RefuseBatch(k)
  \/ UnreserveLane \/ SettleLane \/ Retire
  \/ \E outcome \in {"OK", "FAIL", "PENDING", "REFUSED"} : RunEnd(outcome)
ClosingStep(k) ==
  CloseBegin(k) \/ CloseStop(k) \/ CloseDrain(k) \/ CloseJoin(k) \/ CloseComplete(k)
Arriving(r) == \E result \in {"arrived", "lost"} : DeviceDone(r, result)

Next ==
  \/ \E r \in Requests : \E s \in Specs[r] : Create(r, s)
  \/ \E r \in Requests : Submitting(r) \/ Arriving(r) \/ Cancel(r) \/ Discard(r)
  \/ \E x \in Contexts : CancelContext(x)
  \/ \E k \in Closers : ClosingStep(k)
  \/ Working \/ Poll \/ DirectBegin \/ DirectEnd \/ DirectRelease \/ Tick

(* When each thread can go on. *)
CanSubmit(r) ==
  \/ At(r, "admit") /\ ~AdmitBlocked(r)
  \/ At(r, "swap") \/ At(r, "snapshot")
CanWork ==
  CASE worker.pc = "idle" -> life.created /\ (rt.queue # <<>> \/ rt.stopping)
    [] worker.pc = "route" -> direct # "run"
    [] worker.pc = "run" -> Callback \in Closers => closer[Callback] \in {"open", "done", "refused"}
    [] OTHER -> worker.pc # "exited"
CanClose(k) ==
  CASE closer[k] = "direct" -> direct # "run"
    [] closer[k] = "drain" -> rt.replacements = {}
    [] closer[k] = "join" -> worker.pc = "exited"
    [] closer[k] = "wait" -> life.joined
    [] OTHER -> closer[k] = "complete"

(* Threads inside a call are scheduled, a device call ends in a result or  *)
(* in a loss, and some client looks at its requests until they end.  No    *)
(* one has to submit, cancel, take or close.  (Each conjunct is the weak   *)
(* fairness of its action with the guard written out.)                     *)
Fairness ==
  /\ \A r \in Requests :
       /\ []<>~CanSubmit(r) \/ []<><<Submitting(r)>>_vars
       /\ []<>(rt.req[r].result # "pending") \/ []<><<Arriving(r)>>_vars
  /\ \A k \in Closers : []<>~CanClose(k) \/ []<><<ClosingStep(k)>>_vars
  /\ []<>~CanWork \/ []<><<Working>>_vars
  /\ []<>(life.created => Complete(rt) = rt) \/ []<><<Poll>>_vars
  /\ []<>(direct # "run") \/ []<><<DirectEnd>>_vars

Spec == Init /\ [][Next]_vars /\ Fairness

-----------------------------------------------------------------------------
(* Properties.                                                             *)

(* Every variable has its type. *)
TypeOK ==
  /\ \A r \in Requests :
       /\ rt.req[r].spec \in Specs[r] \cup {NoSpec}
       /\ rt.req[r].state \in Terminal \cup {"NONE", "QUEUED", "RUNNING"}
       /\ rt.req[r].result \in {"none", "pending", "arrived", "lost", "ready",
                                "held", "gone"}
       /\ submit[r].pc \in {"new", "admit", "swap", "snapshot", "accepted", "refused"}
       /\ submit[r].victim \in Requests \cup {NoRequest}
  /\ \A x \in Contexts : /\ rt.ctx[x].state \in ContextStates
                         /\ {rt.ctx[x].token, rt.ctx[x].call} \subseteq Requests \cup {NoRequest}
  /\ rt.queue \in Seq(Requests) /\ IsInjective(rt.queue)
  /\ {rt.requests, rt.bytes, rt.waiters, rt.results} \subseteq Nat
  /\ worker.pc \in {"idle", "pick", "route", "run", "settle", "unreserved", "done", "exited"}
  /\ direct \in {"none", "run", "result"}

Live == {r \in Requests : rt.req[r].state \in {"QUEUED", "RUNNING"}}
Holding(f) == {r \in Requests : rt.req[r][f]}
Victims(pc) == {submit[r].victim : r \in {q \in Requests : At(q, pc)}} \ {NoRequest}

(* The four counters of the runtime's budget are, in every state, the sums *)
(* of what requests, results, the running batch and a direct run hold, and *)
(* none exceeds its limit.  Replacement moves claims between requests in   *)
(* two lock sections, and every way out of admission gives them back.      *)
BudgetExact ==
  /\ rt.requests = Cardinality(Holding("counted")) /\ rt.requests <= MaxRequests
  /\ rt.bytes = worker.staging + MapThenSumSet(LAMBDA r : rt.req[r].bytes, Requests)
  /\ rt.bytes <= MaxInputBytes
  /\ rt.waiters = Cardinality(Holding("claim"))
  /\ rt.results = Cardinality(Holding("ticket")) + Release(direct # "none") +
       Cardinality({r \in Requests : rt.req[r].result \notin {"none", "gone"}})
  /\ rt.results <= MaxResults

(* An accepted request that has not ended is in exactly one place: the     *)
(* queue, the worker's hands, or those of the one submission that is       *)
(* replacing it.  It keeps its claim on the route all the time, so a       *)
(* direct run cannot pass it.                                              *)
NothingLost ==
  \A r \in Requests : At(r, "accepted") /\ r \in Live =>
    /\ rt.req[r].claim /\ rt.req[r].counted
    /\ IF rt.req[r].state = "RUNNING"
       THEN r \in rt.inflight /\ r \notin Queued(rt) \cup Victims("snapshot")
       ELSE /\ r \notin rt.inflight
            /\ r \in Queued(rt) <=> r \notin Victims("snapshot")
            /\ Cardinality({q \in Requests : At(q, "snapshot") /\ submit[q].victim = r}) <= 1

(* A request that ended holds nothing any more, but for its result and,    *)
(* while its successor copies into its storage, its context.               *)
EndedHoldsNothing ==
  \A r \in Requests : rt.req[r].state \in Terminal =>
    /\ r \notin Queued(rt) \cup rt.inflight
    /\ ~rt.req[r].budget /\ ~rt.req[r].counted /\ ~rt.req[r].claim
    /\ rt.req[r].bytes = 0
    /\ r \in Victims("swap") \/ (~rt.req[r].ticket /\ ~rt.req[r].token)

(* Every request is accounted for, before its end and after it. *)
RequestsAccounted == NothingLost /\ EndedHoldsNothing

(* A context is held by a request exactly as long as that request may      *)
(* still use it: no ended request keeps one, and a waiting one has its own. *)
ContextsFollow ==
  /\ \A x \in Contexts : rt.ctx[x].token # NoRequest =>
       /\ rt.ctx[x].token \in Live \cup Victims("swap")
       /\ rt.req[rt.ctx[x].token].spec.context = x
  /\ \A r \in Holding("token") : ContextOf(rt, r).token = r

(* Of a LATEST stream at most one admitted frame can still be delivered;   *)
(* all older ones are gone or marked.                                      *)
OneFramePerStream ==
  \A q, r \in {p \in Queued(rt) \cup rt.inflight :
                 ~rt.req[p].superseded /\ ~rt.req[p].cancel} :
    SameStream(rt, q, r) => q = r

(* How a request ends is final, and the first cause decides it: a mark set *)
(* while it ran, whatever the device answers later; a hard deadline that   *)
(* passed before the answer.                                               *)
FirstCauseDecides ==
  [][\A r \in Requests :
       LET old == rt.req[r]  new == rt'.req[r]
       IN  /\ old.state \in Terminal => new.state = old.state
           /\ old.state = "RUNNING" =>
                /\ old.superseded => new.state \in {"RUNNING", "SUPERSEDED"}
                /\ old.cancel /\ ~old.superseded => new.state \in {"RUNNING", "CANCELLED"}
                /\ old.superseded => new.superseded
                /\ old.cancel => new.cancel
           /\ new.result = "held" => new.state = "SUCCEEDED"
           /\ old.state = "RUNNING" /\ new.state = "SUCCEEDED" /\ Hard(rt, r) =>
                ~Late(rt, r, IF r \in LaneSet THEN worker.at ELSE now)
    ]_vars

(* Every accepted request ends. *)
AcceptedEnds ==
  \A r \in Requests : At(r, "accepted") ~> rt.req[r].state \in Terminal

(* Every thread in close comes out of it: the callback's refused, and none *)
(* of the others before the worker has ended.                              *)
CloseEnds ==
  \A k \in Closers : closer[k] # "open" ~> closer[k] \in {"done", "refused"}
=============================================================================
