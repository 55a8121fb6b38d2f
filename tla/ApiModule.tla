------------------------------ MODULE ApiModule ------------------------------
(* The module instance behind the C API of a threaded native build            *)
(* (vx_api.c, vx_api_handles.c, and the asynchronous calls of                 *)
(* vx_api_scheduler.c and vx_api_debug.c).                                    *)
(*                                                                            *)
(* One host thread enters the module. A turn (poll) runs a bounded number of  *)
(* call callbacks and of polls of the retained calls: WaitRequest calls,      *)
(* which watch a request, and debug commands, which run one node per poll.    *)
(* Engine workers end requests at any moment and only set a call's ready flag *)
(* and post a wakeup. The host sleeps when the module says it has no work.    *)
(* Destroying the module cancels its calls, then a cleanup thread closes the  *)
(* runtimes and releases every handle.                                        *)
(*                                                                            *)
(* Not here: the call runtime itself (third_party/synurang: which callback it *)
(* runs next is any), the completion-only observers (only threadless builds   *)
(* produce pending results), reaping of runtime roots, and the payloads.      *)
EXTENDS HandleTable

CONSTANTS Waits,        \* WaitRequest calls
          Commands,     \* StepDebugSession and ContinueDebugSession calls
          NoCall,
          Budgets       \* the budgets a host gives to poll

ASSUME BudgetsAssumption == Budgets \subseteq Nat \ {0} /\ Budgets # {}

ASSUME CallsAssumption ==
  /\ IsFiniteSet(Waits) /\ IsFiniteSet(Commands)
  /\ Waits \cap Commands = {} /\ NoCall \notin Waits \cup Commands

Calls == Waits \cup Commands
Kinds == {"request", "session"}
NoId == 0

VARIABLES
  tables,     \* one handle table per kind
  nextId,     \* the issuer, shared by all kinds
  object,     \* what an id was issued for, and the references to it
  on,         \* the object a retained call leases, or NoId
  pending,    \* the registry's list of retained calls, newest first
  scan,       \* the call the next poll of the registry continues with
  ready,      \* calls whose ready flag is set
  polled,     \* the call whose poll function is running
  watching,   \* calls on the watch list of their request
  notifying,  \* the worker inside vx_request_notify_locked, holding the lock
  turn,       \* the rest of this turn
  waitsFirst, \* poll_pending_next
  host,       \* "idle", "turn", "asleep" or "gone"
  notified,   \* a wakeup the host has not consumed
  phase       \* of the module: "open", "closing", "cleanup", "swept", "cleaned", "freed"

registry == <<tables, nextId, object>>
list == <<on, pending, scan, ready, polled, watching>>
hosting == <<turn, waitsFirst, host, phase>>
vars == <<registry, list, notifying, hosting, notified>>

Unissued == [kind |-> "none", held |-> FALSE, ended |-> FALSE, refs |-> 0]
NoWorker == [id |-> NoId, left |-> {}]
NoTurn == [plan |-> <<>>, quota |-> 0, left |-> 0, single |-> FALSE]

Attached == {c \in Calls : on[c] # NoId}

Init ==
  /\ tables = [k \in Kinds |-> NewTable]
  /\ nextId = 1
  /\ object = [i \in Ids |-> Unissued]
  /\ on = [c \in Calls |-> NoId]
  /\ pending = <<>> /\ scan = NoCall /\ ready = {} /\ polled = NoCall
  /\ watching = {} /\ notifying = NoWorker
  /\ turn = NoTurn /\ waitsFirst = FALSE /\ host = "idle"
  /\ notified = FALSE
  /\ phase = "open"

-----------------------------------------------------------------------------
(* The list of retained calls and the references to objects.                  *)

At(c) == CHOOSE i \in DOMAIN pending : pending[i] = c
After(c) == IF At(c) = Len(pending) THEN NoCall ELSE pending[At(c) + 1]
Unlisted(c) == RemoveAt(pending, At(c))

Dropped(objects, id) == [objects EXCEPT ![id].refs = @ - 1]

\* Fault for WaitsAnswered: neither announces the new call, so the end of a
\* request that ended before goes unseen.
AttachUnannounced(c, id) ==
  /\ object' = [object EXCEPT ![id].refs = @ + 1]
  /\ on' = [on EXCEPT ![c] = id]
  /\ pending' = <<c>> \o pending
  /\ watching' = watching \cup ({c} \cap Waits)
  /\ UNCHANGED <<ready, notified, scan>>

\* vx_api_handle_acquire, vx_api_pending_add and, for a wait, vx_request_watch:
\* both of the last two notify at once.
Attach(c, id) ==
  /\ object' = [object EXCEPT ![id].refs = @ + 1]
  /\ on' = [on EXCEPT ![c] = id]
  /\ pending' = <<c>> \o pending
  /\ watching' = watching \cup ({c} \cap Waits)
  /\ ready' = ready \cup {c}
  /\ notified' = TRUE
  /\ scan' = scan

\* Fault for LeasesProtect: a call leaves the list and the cursor stays on it.
DetachUnderCursor(c) ==
  /\ watching' = watching \ {c}
  /\ pending' = Unlisted(c)
  /\ scan' = scan
  /\ object' = Dropped(object, on[c])
  /\ on' = [on EXCEPT ![c] = NoId]
  /\ notified' = TRUE

\* vx_request_unwatch, vx_api_pending_remove, the release of the lease and of
\* the stream, in this order; the cursor moves past a call that leaves the list
\* and the call runtime posts a wakeup for the stream it retires.
Detach(c) ==
  /\ watching' = watching \ {c}
  /\ pending' = Unlisted(c)
  /\ scan' = IF scan = c THEN After(c) ELSE scan
  /\ object' = Dropped(object, on[c])
  /\ on' = [on EXCEPT ![c] = NoId]
  /\ notified' = TRUE

\* No worker holds the mutex of this request.
Unlocked(id) == notifying.id # id

-----------------------------------------------------------------------------
(* A turn: a plan of stages, the callbacks or polls the current stage may     *)
(* still make, and what is left of the budget.                                *)

InStage(stage) ==
  /\ host = "turn"
  /\ turn.plan # <<>>
  /\ Head(turn.plan) = stage

\* The first poll of the registry after a finished scan starts at the head.
Enter(plan) ==
  scan' = IF /\ plan # <<>> /\ Head(plan) = "waits"
             /\ scan = NoCall /\ pending # <<>>
          THEN Head(pending) ELSE scan

StageOver ==
  LET rest == IF turn.left = 0 THEN <<>> ELSE Tail(turn.plan)
  IN  /\ turn' = [turn EXCEPT !.plan = rest, !.quota = turn.left]
      /\ Enter(rest)

\* With a budget of one, callbacks and polls go first in alternate turns.
TurnPlan(budget) ==
  CASE phase = "closing" -> <<"calls">>
    [] phase = "open" /\ budget > 1 -> <<"calls", "waits", "calls">>
    [] phase = "open" /\ budget = 1 /\ waitsFirst -> <<"waits", "calls">>
    [] phase = "open" /\ budget = 1 /\ ~waitsFirst -> <<"calls", "waits">>

StartTurn(budget) ==
  /\ host = "idle" /\ phase = "open"
  /\ host' = "turn"
  /\ turn' = [plan |-> TurnPlan(budget), quota |-> (budget \div 2) + (budget % 2),
              left |-> budget, single |-> (budget = 1)]
  /\ Enter(TurnPlan(budget))
  /\ UNCHANGED <<registry, on, pending, ready, polled, watching, notifying,
                 waitsFirst, phase, notified>>

\* Fault for TypeOK: the stage does not stop at its share of the budget.
StepOverQuota ==
  turn' = [turn EXCEPT !.quota = @ - 1, !.left = @ - 1]

Step ==
  /\ turn.quota > 0
  /\ turn' = [turn EXCEPT !.quota = @ - 1, !.left = @ - 1]

\* The client sent nothing more, or the stage has used its share. In closing
\* every call that is still attached has a cancel callback to run.
CallsOver ==
  /\ InStage("calls")
  /\ turn.quota = 0 \/ phase = "open" \/ Attached = {}
  /\ StageOver
  /\ waitsFirst' = (waitsFirst \/ (turn.single /\ Len(turn.plan) = 2))
  /\ UNCHANGED <<registry, on, pending, ready, polled, watching, notifying,
                 host, phase, notified>>

WaitsOver ==
  /\ InStage("waits") /\ polled = NoCall
  /\ turn.quota = 0 \/ scan = NoCall
  /\ StageOver
  /\ waitsFirst' = (waitsFirst /\ ~turn.single)
  /\ UNCHANGED <<registry, on, pending, ready, polled, watching, notifying,
                 host, phase, notified>>

\* vx_api_module_has_work, and what vx_call_turn does with the answer. In the
\* open phase the client may have more calls for the module at any time.
HasWork ==
  CASE phase \in {"open", "closing"} ->
         \/ scan # NoCall
         \/ \E c \in Attached : c \in ready \/ phase = "closing"
    [] phase \in {"cleanup", "swept"} -> FALSE
    [] phase = "cleaned" -> TRUE

EndTurn ==
  /\ host = "turn" /\ turn.plan = <<>>
  /\ turn' = NoTurn
  /\ \/ /\ HasWork \/ phase = "open"
        /\ host' = "idle"
     \/ /\ ~HasWork
        /\ host' = "asleep"
  /\ UNCHANGED <<registry, list, notifying, waitsFirst, phase, notified>>

Wake ==
  /\ host = "asleep" /\ notified
  /\ host' = "idle"
  /\ notified' = FALSE
  /\ UNCHANGED <<registry, list, notifying, turn, waitsFirst, phase>>

\* The client enters the module again, or the host's own deadline passes.
ClientEnters ==
  /\ host = "asleep" /\ phase = "open"
  /\ host' = "idle"
  /\ UNCHANGED <<registry, list, notifying, turn, waitsFirst, phase, notified>>

-----------------------------------------------------------------------------
(* The callbacks of a calls stage.                                            *)

Callback == InStage("calls") /\ Step

\* A call that answers at once and changes nothing here: metadata, a lookup
\* of an id that is unknown, released or of another kind.
AnswerAtOnce ==
  /\ Callback /\ phase = "open"
  /\ UNCHANGED <<registry, list, notifying, waitsFirst, host, phase, notified>>

\* Submit or CreateDebugSession: the object's reference passes to the registry
\* unless the namespace is used up or the table cannot grow; an id that was
\* issued and could not be stored is lost. A request is also held by its
\* coordinator until it has ended.
Create(kind, memory) ==
  /\ Callback /\ phase = "open"
  /\ nextId <= LastId
  /\ nextId' = nextId + 1
  /\ IF memory \/ ~NeedsRehash(tables[kind])
     THEN /\ tables' = [tables EXCEPT ![kind] = Inserted(@, nextId)]
          /\ object' = [object EXCEPT ![nextId] =
                          [kind |-> kind, held |-> TRUE, ended |-> FALSE,
                           refs |-> IF kind = "request" THEN 2 ELSE 1]]
     ELSE UNCHANGED <<tables, object>>
  /\ UNCHANGED <<list, notifying, waitsFirst, host, phase, notified>>

\* The call is new: one structure stands for the calls that reuse its memory.
DispatchWait(w, id) ==
  /\ Callback /\ phase = "open"
  /\ on[w] = NoId /\ Found(tables["request"], id) # {} /\ Unlocked(id)
  /\ Attach(w, id)
  /\ UNCHANGED <<tables, nextId, polled, notifying, waitsFirst, host, phase>>

\* vx_debug_start refuses a session that is running or has finished.
DispatchCommand(c, id) ==
  /\ Callback /\ phase = "open"
  /\ on[c] = NoId /\ Found(tables["session"], id) # {}
  /\ ~object[id].ended /\ \A d \in Commands : on[d] # id
  /\ Attach(c, id)
  /\ UNCHANGED <<tables, nextId, polled, notifying, waitsFirst, host, phase>>

\* The transport cancelled the call: a wait only retires itself.
CancelWait(w) ==
  /\ Callback /\ on[w] # NoId /\ Unlocked(on[w])
  /\ Detach(w)
  /\ UNCHANGED <<tables, nextId, ready, polled, notifying, waitsFirst, host, phase>>

\* A command takes its session's execution with it.
CancelCommand(c) ==
  /\ Callback /\ on[c] # NoId
  /\ object' = [Dropped(object, on[c]) EXCEPT ![on[c]].ended = TRUE]
  /\ pending' = Unlisted(c)
  /\ scan' = IF scan = c THEN After(c) ELSE scan
  /\ on' = [on EXCEPT ![c] = NoId]
  /\ notified' = TRUE
  /\ UNCHANGED <<tables, nextId, ready, watching, polled, notifying, waitsFirst,
                 host, phase>>

\* vx_request_cancel: a queued request ends here, its watchers are notified
\* and the coordinator drops it; a running one is only marked.
CancelEffect(objects, id, queued) ==
  IF queued
  THEN /\ object' = [Dropped(objects, id) EXCEPT ![id].ended = TRUE]
       /\ ready' = ready \cup {w \in watching : on[w] = id}
       /\ notified' = (notified \/ \E w \in watching : on[w] = id)
  ELSE /\ object' = objects
       /\ UNCHANGED <<ready, notified>>

CancelRequest(id, queued) ==
  /\ Callback /\ phase = "open"
  /\ Found(tables["request"], id) # {} /\ Unlocked(id)
  /\ queued => ~object[id].ended
  /\ CancelEffect(object, id, queued)
  /\ UNCHANGED <<tables, nextId, on, pending, scan, polled, watching, notifying,
                 waitsFirst, host, phase>>

Released(id) == [Dropped(object, id) EXCEPT ![id].held = FALSE]

\* ReleaseRequest cancels the request and retires its id.
ReleaseRequest(id, queued) ==
  /\ Callback /\ phase = "open"
  /\ Found(tables["request"], id) # {} /\ Unlocked(id)
  /\ queued => ~object[id].ended
  /\ tables' = [tables EXCEPT !["request"] = Removed(@, id)]
  /\ CancelEffect(Released(id), id, queued)
  /\ UNCHANGED <<nextId, on, pending, scan, polled, watching, notifying,
                 waitsFirst, host, phase>>

\* Fault for LookupExact: the slot of the released id becomes Empty, so a probe
\* for an id placed behind it stops early.
ReleaseSessionToEmpty(id) ==
  /\ Callback /\ phase = "open"
  /\ Found(tables["session"], id) # {}
  /\ tables' = [tables EXCEPT !["session"] =
                  [Removed(@, id) EXCEPT !.slots = [p \in DOMAIN @ |->
                     IF p \in Found(tables["session"], id) THEN Empty ELSE @[p]]]]
  /\ object' = [Released(id) EXCEPT ![id].ended = TRUE]
  /\ UNCHANGED <<nextId, list, notifying, waitsFirst, host, phase, notified>>

\* ReleaseDebugSession detaches, which cancels, and retires the id.
ReleaseSession(id) ==
  /\ Callback /\ phase = "open"
  /\ Found(tables["session"], id) # {}
  /\ tables' = [tables EXCEPT !["session"] = Removed(@, id)]
  /\ object' = [Released(id) EXCEPT ![id].ended = TRUE]
  /\ UNCHANGED <<nextId, list, notifying, waitsFirst, host, phase, notified>>

-----------------------------------------------------------------------------
(* The polls of a waits stage: the flag is cleared, then the call is polled.  *)

PollNext ==
  /\ InStage("waits") /\ polled = NoCall
  /\ turn.quota > 0 /\ scan # NoCall
  /\ polled' = scan
  /\ scan' = After(scan)
  /\ ready' = ready \ {scan}
  /\ UNCHANGED <<registry, on, pending, watching, notifying, hosting, notified>>

\* vx_api_wait_request_poll: an ended request is answered and the call is over.
PollWait(w) ==
  /\ InStage("waits") /\ polled = w /\ Unlocked(on[w])
  /\ IF object[on[w]].ended
     THEN Detach(w)
     ELSE UNCHANGED <<object, on, pending, scan, watching, notified>>
  /\ polled' = NoCall
  /\ Step
  /\ UNCHANGED <<tables, nextId, ready, notifying, waitsFirst, host, phase>>

\* vx_api_debug_poll: one node ran and the command asks for another poll, or
\* the command stopped, or its session was cancelled under it.
PollCommand(c, stops) ==
  /\ InStage("waits") /\ polled = c
  /\ IF stops \/ object[on[c]].ended
     THEN Detach(c) /\ ready' = ready
     ELSE /\ ready' = ready \cup {c}
          /\ notified' = TRUE
          /\ UNCHANGED <<object, on, pending, scan, watching>>
  /\ polled' = NoCall
  /\ Step
  /\ UNCHANGED <<tables, nextId, notifying, waitsFirst, host, phase>>

-----------------------------------------------------------------------------
(* Engine workers.                                                            *)

Unended(id) == object[id].kind = "request" /\ ~object[id].ended

\* The state changes under the request's mutex, which the worker keeps for its
\* notifications.
WorkerEnds(id) ==
  /\ Unended(id) /\ notifying = NoWorker
  /\ object' = [object EXCEPT ![id].ended = TRUE]
  /\ notifying' = [id |-> id, left |-> {w \in watching : on[w] = id}]
  /\ UNCHANGED <<tables, nextId, list, hosting, notified>>

WorkerNotifies(w) ==
  /\ w \in notifying.left
  /\ ready' = ready \cup {w}
  /\ notified' = TRUE
  /\ notifying' = [notifying EXCEPT !.left = @ \ {w}]
  /\ UNCHANGED <<registry, on, pending, scan, polled, watching, hosting>>

\* The mutex is released, then the coordinator's reference.
WorkerLeaves ==
  /\ notifying.id # NoId /\ notifying.left = {}
  /\ notifying' = NoWorker
  /\ object' = Dropped(object, notifying.id)
  /\ UNCHANGED <<tables, nextId, list, hosting, notified>>

-----------------------------------------------------------------------------
(* Destruction (vx_api_module_destroy, retried by the host between turns).    *)

\* The call runtime is idle only when no call is retained. Then the cleanup
\* thread owns the registry; when it cannot be created the host does its work.
Destroy ==
  /\ host = "idle" /\ phase \in {"open", "closing", "cleanup", "swept"}
  /\ host' = "turn"
  /\ phase' = CASE phase \in {"cleanup", "swept"} -> phase
                [] Attached # {} -> "closing"
                [] OTHER -> "cleanup"
  /\ turn' = IF phase \in {"open", "closing"} /\ Attached # {}
             THEN [NoTurn EXCEPT !.plan = <<"calls">>, !.quota = 2, !.left = 2]
             ELSE NoTurn
  /\ UNCHANGED <<registry, list, notifying, waitsFirst, notified>>

\* vx_api_registry_destroy cancels the requests it still lists; those queued,
\* any of the unended, end at once.
CleanupCancels(queued) ==
  /\ phase = "cleanup" /\ notifying = NoWorker
  /\ phase' = "swept"
  /\ object' = [i \in Ids |->
                  IF i \in queued
                  THEN [object[i] EXCEPT !.ended = TRUE, !.refs = @ - 1]
                  ELSE object[i]]
  /\ UNCHANGED <<tables, nextId, list, notifying, turn, waitsFirst, host, notified>>

Listed == {i \in Ids : \E k \in Kinds : Found(tables[k], i) # {}}

\* Fault for CloseEnds: cleanup_done is set and nobody is told.
CleanupReleasesUnheard ==
  /\ phase = "swept" /\ notifying = NoWorker /\ \A i \in Ids : ~Unended(i)
  /\ phase' = "cleaned"
  /\ object' = [i \in Ids |-> IF i \in Listed
                              THEN [object[i] EXCEPT !.held = FALSE, !.refs = @ - 1]
                              ELSE object[i]]
  /\ tables' = [k \in Kinds |-> NewTable]
  /\ UNCHANGED <<nextId, list, notifying, turn, waitsFirst, host, notified>>

\* Every runtime is closed, which waits for its accepted requests, before the
\* handles are released; then cleanup_done is set and the host is woken.
CleanupReleases ==
  /\ phase = "swept" /\ notifying = NoWorker /\ \A i \in Ids : ~Unended(i)
  /\ phase' = "cleaned"
  /\ object' = [i \in Ids |-> IF i \in Listed
                              THEN [object[i] EXCEPT !.held = FALSE, !.refs = @ - 1]
                              ELSE object[i]]
  /\ tables' = [k \in Kinds |-> NewTable]
  /\ notified' = TRUE
  /\ UNCHANGED <<nextId, list, notifying, turn, waitsFirst, host>>

Freed ==
  /\ host = "idle" /\ phase = "cleaned"
  /\ host' = "gone" /\ phase' = "freed"
  /\ UNCHANGED <<registry, list, notifying, turn, waitsFirst, notified>>

-----------------------------------------------------------------------------
HostStep ==
  \/ \E b \in Budgets : StartTurn(b)
  \/ CallsOver \/ WaitsOver \/ EndTurn \/ Wake
  \/ AnswerAtOnce
  \/ \E k \in Kinds, memory \in BOOLEAN : Create(k, memory)
  \/ \E w \in Waits, i \in Ids : DispatchWait(w, i)
  \/ \E c \in Commands, i \in Ids : DispatchCommand(c, i)
  \/ \E w \in Waits : CancelWait(w)
  \/ \E c \in Commands : CancelCommand(c)
  \/ \E i \in Ids, q \in BOOLEAN : CancelRequest(i, q) \/ ReleaseRequest(i, q)
  \/ \E i \in Ids : ReleaseSession(i)
  \/ PollNext
  \/ \E w \in Waits : PollWait(w)
  \/ \E c \in Commands, s \in BOOLEAN : PollCommand(c, s)
  \/ phase # "open" /\ Destroy
  \/ Freed

WorkerStep ==
  \/ \E w \in Waits : WorkerNotifies(w)
  \/ WorkerLeaves

CleanupStep ==
  \/ \E q \in SUBSET {i \in Listed : Unended(i)} : CleanupCancels(q)
  \/ CleanupReleases

Next ==
  \/ HostStep
  \/ ClientEnters
  \/ Destroy
  \/ \E i \in Ids : WorkerEnds(i)
  \/ WorkerStep
  \/ CleanupStep

Spec == Init /\ [][Next]_vars

\* The host keeps its side of the module contract, workers leave their locks,
\* the cleanup thread runs, and the runtimes end what they accepted.
LiveSpec ==
  /\ Spec
  /\ WF_vars(HostStep) /\ WF_vars(WorkerStep) /\ WF_vars(CleanupStep)
  /\ WF_vars(\E i \in Ids : WorkerEnds(i))

-----------------------------------------------------------------------------
Stages == {"calls", "waits"}

\* Every variable keeps its type; in particular no stage makes more callbacks
\* or polls than its share of the budget.
TypeOK ==
  /\ \A k \in Kinds : /\ tables[k].slots \in Seq({Empty, Tombstone} \cup Ids)
                      /\ tables[k].live \in Nat /\ tables[k].occupied \in Nat
  /\ nextId \in 1..(LastId + 1)
  /\ object \in [Ids -> [kind : Kinds \cup {"none"}, held : BOOLEAN,
                         ended : BOOLEAN, refs : Nat]]
  /\ on \in [Calls -> Ids \cup {NoId}]
  /\ pending \in Seq(Calls) /\ scan \in Calls \cup {NoCall}
  /\ ready \subseteq Calls /\ polled \in Calls \cup {NoCall}
  /\ watching \subseteq Waits
  /\ notifying \in [id : Ids \cup {NoId}, left : SUBSET Waits]
  /\ turn \in [plan : Seq(Stages), quota : Nat, left : Nat, single : BOOLEAN]
  /\ waitsFirst \in BOOLEAN /\ notified \in BOOLEAN
  /\ host \in {"idle", "turn", "asleep", "gone"}
  /\ phase \in {"open", "closing", "cleanup", "swept", "cleaned", "freed"}

\* A table answers exactly for the ids that were issued, stored for its kind
\* and not released since, whatever collided, was removed or was rehashed, and
\* keeps an empty slot so that every probe ends (vx_api_find, insert, remove).
LookupExact ==
  \A k \in Kinds :
    /\ \A i \in Ids : (Found(tables[k], i) # {}) <=> (object[i].held /\ object[i].kind = k)
    /\ tables[k].slots # <<>> => \E p \in DOMAIN tables[k].slots : tables[k].slots[p] = Empty
    /\ tables[k].live = Cardinality({i \in Ids : Found(tables[k], i) # {}})

\* An object lives as long as anybody can reach it: the handle, the coordinator
\* or notifying worker, and every retained call hold one reference each; only
\* attached calls are listed, scanned, polled, watched or notified; and when the
\* module is freed nothing is left (leases, pending_remove, unwatch, destroy).
LeasesProtect ==
  /\ \A i \in Ids :
       object[i].refs = (IF object[i].held THEN 1 ELSE 0)
                        + (IF Unended(i) \/ notifying.id = i THEN 1 ELSE 0)
                        + Cardinality({c \in Calls : on[c] = i})
  /\ ToSet(pending) = Attached /\ Len(pending) = Cardinality(Attached)
  /\ {scan, polled} \subseteq Attached \cup {NoCall}
  /\ watching = Attached \cap Waits
  /\ notifying.left \subseteq Attached
  /\ phase = "freed" => \A i \in Ids : object[i].refs = 0

\* A wait whose request has ended is answered or retired, however much other
\* traffic the module has, however small the budget, and although the host
\* sleeps whenever the module says it has no work (poll, notify, has_work).
WaitsAnswered ==
  \A w \in Waits :
    (on[w] # NoId /\ object[on[w]].ended) ~> (on[w] = NoId)

\* A module that began to close is freed (destroy, cleanup thread, has_work).
CloseEnds == (phase = "closing" \/ phase = "cleanup") ~> (phase = "freed")
=============================================================================
