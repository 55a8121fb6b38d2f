----------------------- MODULE RuntimeRequestsProofs -----------------------
(***************************************************************************)
(* What RuntimeRequests promises, for every value of its constants.  The   *)
(* invariant and what it rests on are in RuntimeRequestsLemmas.            *)
(***************************************************************************)
EXTENDS RuntimeRequestsLemmas

-----------------------------------------------------------------------------
(* The invariant and the actions.                                          *)

Held(b) == Sound(b, rt, submit, worker, LaneSet, worker.staging, direct # "none")
Kept(b) ==
  /\ Sound(b, rt', submit', worker', LaneSet', worker'.staging, direct' # "none")
  /\ Decided(rt, rt')

(* The invariant in the form in which the actions are shown to keep it. *)
LEMMA HeldByInvariant ==
  ASSUME NEW b, IInv(b)
  PROVE  /\ Held(b) /\ rt \in CoordinatorType /\ submit \in SubmitType /\ LaneSet \in SUBSET Requests
         /\ BatchOK(rt, worker) /\ SwapsOver(submit) /\ now \in Nat
         /\ \A r \in Requests : Placed(rt.req[r], submit[r].pc, submit[r].victim, r \in LaneSet)
BY DEF IInv, Held, Sound, Accounts

(* What becomes of a thread that goes on. *)
LEMMA GoesOn ==
  ASSUME submit \in SubmitType, NEW r \in Requests, NEW pc, NEW v, Goto(r, pc, v),
         pc \in {"new", "admit", "swap", "snapshot", "accepted", "refused"},
         v \in Requests \cup {NoRequest}
  PROVE  /\ Moves(submit, submit', r, pc, v)
         /\ SwapsOver(submit) /\ (pc = "swap" => v \in Requests) => SwapsOver(submit')
BY DEF Goto, Moves, SubmitType, SwapsOver

(* The frame whose payload is in place is the one that joins. *)
LEMMA JoinerSame ==
  ASSUME NEW b, NEW c, NEW s, NEW w, NEW L, NEW staging, NEW running,
         Sound(b, c, s, w, L, staging, running), NEW r \in Requests,
         s[r].pc \in {"swap", "snapshot"}, s[r].pc = "snapshot" => s[r].victim = NoRequest
  PROVE  LET e == SupersedeQueued(SupersedeInflight(c, r), r)
         IN  e \in CoordinatorType /\ e.req[r] = c.req[r]
<1> DEFINE e == SupersedeQueued(SupersedeInflight(c, r), r)
<1>1. Accounts(c, s, L, staging)
  BY DEF Sound
<1>2. /\ e \in CoordinatorType
      /\ \A q \in Requests : c.req[q].state # "RUNNING" /\ q \notin Queued(c) => e.req[q] = c.req[q]
  BY OlderFramesGo
<1> HIDE DEF e
<1>3. Placed(c.req[r], s[r].pc, s[r].victim, r \in L)
  BY <1>1, Parts
<1>4. c.req[r].state = "QUEUED" /\ r \notin Queued(c)
  BY <1>1, <1>3, QueuedClaims DEF Placed
<1> QED
  BY <1>2, <1>4 DEF e

(* Commit: the copy is complete and the frame takes its place. *)
LEMMA CommitSound ==
  ASSUME NEW b, IInv(b), NEW r \in Requests, Commit(r)
  PROVE  Kept(b) /\ SwapsOver(submit')
<1> DEFINE v == submit[r].victim
           w == worker
           L == LaneSet
           staging == worker.staging
           running == direct # "none"
           join(d) == Replaced(Appended(Claimed(SupersedeQueued(SupersedeInflight(d, r), r), r), r), r)
<1>1. /\ Sound(b, rt, submit, w, L, staging, running) /\ rt \in CoordinatorType
      /\ submit \in SubmitType /\ SwapsOver(submit)
      /\ Placed(rt.req[r], submit[r].pc, v, r \in L)
  BY HeldByInvariant DEF Held
<1>2. /\ submit[r].pc = "snapshot" /\ Goto(r, "accepted", NoRequest)
      /\ worker' = worker /\ direct' = direct
      /\ rt' = join(IF v = NoRequest THEN rt ELSE Inherited(rt, r, v))
  BY DEF Commit, At
<1>3. Moves(submit, submit', r, "accepted", NoRequest) /\ SwapsOver(submit')
  BY <1>1, <1>2, GoesOn
<1>4. L' = L /\ w' = w /\ staging' = staging /\ running' = running
  BY <1>2 DEF LaneSet, Lane
<1>5. v \in Requests \cup {NoRequest}
  BY <1>1 DEF SubmitType
<1>6. (rt.req[r].counted <=> v = NoRequest) /\ ~rt.req[r].claim
  BY <1>1, <1>2 DEF Placed
<1> HIDE DEF w, L, staging, running
<1>7. Sound(b, rt', submit', w, L, staging, running) /\ Decided(rt, rt')
  <2>1. CASE v = NoRequest
    <3> DEFINE e == SupersedeQueued(SupersedeInflight(rt, r), r)
    <3>1. e \in CoordinatorType /\ e.req[r] = rt.req[r]
      BY <1>1, <1>2, <2>1, JoinerSame
    <3>2. rt' = Replaced(Appended(Claimed(e, r), r), r)
      BY <1>2, <2>1
    <3>3. Enqueues(e, rt', r)
      <4> HIDE DEF e
      <4> QED
        BY <1>6, <2>1, <3>1, <3>2, ClaimedEffect
    <3> QED
      BY <1>1, <1>2, <1>3, <2>1, <3>3, JoinSound
  <2>2. CASE v \in Requests
    <3> DEFINE a == Inherited(rt, r, v)
               t == [submit EXCEPT ![r] = [pc |-> "swap", victim |-> v]]
               e == SupersedeQueued(SupersedeInflight(a, r), r)
    <3>1. Accounts(rt, submit, L, staging)
      BY <1>1 DEF Sound
    <3>2. /\ NoRequest \notin Requests /\ VictimsOK(rt, submit) /\ Counted(rt, staging) /\ staging \in Nat
          /\ Placed(rt.req[v], submit[v].pc, submit[v].victim, v \in L)
      BY <2>2, <3>1, Parts
    <3>3. submit[v].pc = "accepted" /\ rt.req[v].state = "QUEUED" /\ v # r
      BY <1>2, <2>2, <3>2 DEF VictimsOK
    <3>4. Claims(rt.req[v]) /\ rt.req[v].bytes <= rt.bytes
      BY <1>1, <2>2, <3>2, <3>3, BytesIncluded DEF Placed, Terminal
    <3>5. Inherits(rt, a, r, v)
      BY <1>1, <1>6, <2>2, <3>2, <3>3, <3>4, InheritedEffect
    <3>6. rt' = Replaced(Appended(Claimed(e, r), r), r)
      BY <1>2, <2>2, <3>2
    <3> HIDE DEF a
    <3>7. Moves(submit, t, r, "swap", v) /\ Moves(t, submit', r, "accepted", NoRequest)
          /\ t[r].pc = "swap" /\ t[r].victim = v
      BY <1>1, <1>3, <2>2 DEF Moves, SubmitType
    <3> HIDE DEF t
    <3>8. Copies(submit, r, v)
      BY <1>2 DEF Copies
    <3>9. Sound(b, a, t, w, L, staging, running) /\ Decided(rt, a)
      BY <1>1, <2>2, <3>5, <3>7, <3>8, InheritSound
    <3>10. a.req[r].counted
      BY <3>5 DEF Inherits
    <3>11. b => ~a.req[v].token
      <4> HAVE b
      <4>1. Reservations(rt, submit, w, L, running)
        BY <1>1 DEF Sound
      <4>2. L \in SUBSET Requests
        BY <3>1, Parts
      <4>3. HasReservation(rt, v)
        BY <1>1, <2>2, <3>3, <4>1, WaitingHolds
      <4>4. TicketOK(rt.req[v], submit[v].pc, submit[v].victim, v \in L)
            /\ TicketOK(rt.req[r], submit[r].pc, submit[r].victim, r \in L)
        BY <2>2, <4>1 DEF Reservations
      <4>5. rt.req[v].ticket /\ ~rt.req[r].ticket
        BY <1>2, <2>2, <3>2, <3>3, <4>4 DEF TicketOK
      <4> QED
        BY <3>5, <4>3, <4>5 DEF Inherits
    <3>12. e \in CoordinatorType /\ e.req[r] = a.req[r]
      BY <3>7, <3>9, JoinerSame
    <3>13. Enqueues(e, rt', r)
      <4> HIDE DEF e
      <4> QED
        BY <3>6, <3>10, <3>12, ClaimedEffect
    <3>14. Sound(b, rt', submit', w, L, staging, running) /\ Decided(a, rt')
      BY <3>7, <3>9, <3>11, <3>13, JoinSound
    <3> QED
      BY <3>9, <3>14, DecidedIsTransitive
  <2> QED
    BY <1>5, <2>1, <2>2
<1> QED
  BY <1>3, <1>4, <1>7 DEF Kept, w, L, staging, running

(* The swap is complete: the predecessor's context is given back, and the  *)
(* frame joins the queue, unless the runtime is stopping.                  *)
LEMMA FinishSwapSound ==
  ASSUME NEW b, IInv(b), NEW r \in Requests, FinishSwap(r)
  PROVE  Kept(b) /\ SwapsOver(submit')
<1> DEFINE v == submit[r].victim
           w == worker
           L == LaneSet
           staging == worker.staging
           running == direct # "none"
           d == InputsClear(rt, v)
           e == SupersedeQueued(SupersedeInflight(d, r), r)
<1>1. /\ Sound(b, rt, submit, w, L, staging, running) /\ rt \in CoordinatorType
      /\ submit \in SubmitType /\ SwapsOver(submit)
      /\ Placed(rt.req[r], submit[r].pc, v, r \in L)
  BY HeldByInvariant DEF Held
<1>2. /\ submit[r].pc = "swap" /\ Goto(r, "accepted", NoRequest)
      /\ worker' = worker /\ direct' = direct
      /\ rt' = Replaced(IF rt.stopping THEN Withdrawn(d, r, "CANCELLED") ELSE Appended(e, r), r)
  BY DEF FinishSwap, At
<1>3. Moves(submit, submit', r, "accepted", NoRequest) /\ SwapsOver(submit')
  BY <1>1, <1>2, GoesOn
<1>4. L' = L /\ w' = w /\ staging' = staging /\ running' = running
  BY <1>2 DEF LaneSet, Lane
<1>5. v \in Requests
  BY <1>1, <1>2 DEF SwapsOver
<1>6. rt.req[r].counted /\ rt.req[r].claim
  BY <1>1, <1>2 DEF Placed, Claims
<1> HIDE DEF w, L, staging, running
<1>7. Sound(b, d, submit, w, L, staging, running) /\ Decided(rt, d) /\ Frees(rt, d, r, v)
  BY <1>1, <1>2, <1>5, FreedSound
<1> HIDE DEF d
<1>8. ~d.req[v].token /\ d.req[r] = rt.req[r]
  BY <1>7 DEF Frees
<1>9. Sound(b, rt', submit', w, L, staging, running) /\ Decided(d, rt')
  <2>1. CASE rt.stopping
    <3>1. rt' = Replaced(Withdrawn(d, r, "CANCELLED"), r)
      BY <1>2, <2>1
    <3> QED
      BY <1>2, <1>3, <1>7, <1>8, <3>1, StoppedSound
  <2>2. CASE ~rt.stopping
    <3>1. rt' = Replaced(Appended(e, r), r)
      BY <1>2, <2>2
    <3>2. e \in CoordinatorType /\ e.req[r] = d.req[r]
      BY <1>2, <1>7, JoinerSame
    <3>3. Enqueues(e, rt', r)
      <4> HIDE DEF e
      <4> QED
        BY <1>6, <1>8, <3>1, <3>2, EnqueuedEffect
    <3> QED
      BY <1>2, <1>3, <1>7, <1>8, <3>3, JoinSound
  <2> QED
    BY <2>1, <2>2
<1>10. Decided(rt, rt')
  BY <1>7, <1>9, DecidedIsTransitive
<1> QED
  BY <1>3, <1>4, <1>9, <1>10 DEF Kept, w, L, staging, running

(* The copy failed: the predecessor goes back into the queue. *)
LEMMA AbandonSnapshotSound ==
  ASSUME NEW b, IInv(b), NEW r \in Requests, AbandonSnapshot(r)
  PROVE  Kept(b) /\ SwapsOver(submit')
<1> DEFINE v == submit[r].victim
           w == worker
           L == LaneSet
           staging == worker.staging
           running == direct # "none"
<1>1. /\ Sound(b, rt, submit, w, L, staging, running) /\ rt \in CoordinatorType
      /\ submit \in SubmitType /\ SwapsOver(submit)
      /\ Placed(rt.req[r], submit[r].pc, v, r \in L)
  BY HeldByInvariant DEF Held
<1>2. /\ submit[r].pc = "snapshot" /\ Goto(r, "refused", NoRequest)
      /\ worker' = worker /\ direct' = direct
      /\ rt' = LET d == Destroyed(BudgetRelease(rt, r), r)
               IN  Replaced(IF v = NoRequest THEN d ELSE Appended(d, v), r)
  BY DEF AbandonSnapshot, At
<1>3. Moves(submit, submit', r, "refused", NoRequest) /\ SwapsOver(submit')
  BY <1>1, <1>2, GoesOn
<1>4. L' = L /\ w' = w /\ staging' = staging /\ running' = running
  BY <1>2 DEF LaneSet, Lane
<1>5. v \in Requests \cup {NoRequest}
  BY <1>1 DEF SubmitType
<1> HIDE DEF w, L, staging, running
<1>6. Accounts(rt, submit, L, staging)
  BY <1>1 DEF Sound
<1>7. rt.req[r].budget /\ rt.req[r].bytes <= rt.bytes
  <2>1. Counted(rt, staging) /\ staging \in Nat
    BY <1>6, Parts
  <2> QED
    BY <1>1, <1>2, <2>1, BytesIncluded DEF Placed
<1>8. Abandons(rt, rt', r, v)
  BY <1>1, <1>2, <1>5, <1>7, AbandonedEffect
<1>9. Sound(b, rt', submit', w, L, staging, running) /\ Decided(rt, rt')
  BY <1>1, <1>2, <1>3, <1>8, AbandonSound
<1> QED
  BY <1>3, <1>4, <1>9 DEF Kept, w, L, staging, running

(* A request is created, or refused at once. *)
LEMMA CreateSound ==
  ASSUME NEW b, IInv(b), NEW r \in Requests, NEW spec \in Specs[r], Create(r, spec)
  PROVE  Kept(b) /\ SwapsOver(submit')
<1> DEFINE w == worker
           L == LaneSet
           staging == worker.staging
           running == direct # "none"
<1>1. /\ Sound(b, rt, submit, w, L, staging, running) /\ rt \in CoordinatorType
      /\ submit \in SubmitType /\ SwapsOver(submit) /\ now \in Nat /\ L \in SUBSET Requests
      /\ Placed(rt.req[r], submit[r].pc, submit[r].victim, r \in L)
  BY HeldByInvariant DEF Held
<1>2. submit[r].pc = "new" /\ worker' = worker /\ direct' = direct
  BY DEF Create, At
<1>3. L' = L /\ w' = w /\ staging' = staging /\ running' = running
  BY <1>2 DEF LaneSet, Lane
<1>4. spec \in Spec0
  BY SpecsAreValid
<1>5. NoRequest \in Requests \cup {NoRequest}
  OBVIOUS
<1> HIDE DEF w, L, staging, running
<1>6. CASE CreateOK(spec)
  <2>1. rt' = Created(rt, r, spec) /\ Goto(r, "admit", NoRequest)
    BY <1>6 DEF Create
  <2>2. Moves(submit, submit', r, "admit", NoRequest) /\ SwapsOver(submit')
    BY <1>1, <2>1, GoesOn
  <2>3. Appears(rt, rt', r, spec)
    BY <1>1, <1>4, <2>1, CreatedEffect
  <2>4. /\ Reserves(spec) => ReserveOK(rt.ctx[spec.context])
        /\ TicketEarly(spec) => rt.results < MaxResults
    BY <1>6 DEF CreateOK
  <2>5. Sound(b, rt', submit', w, L, staging, running) /\ Decided(rt, rt')
    BY <1>1, <1>2, <1>4, <2>2, <2>3, <2>4, AppearsSound
  <2> QED
    BY <1>3, <2>2, <2>5 DEF Kept, w, L, staging, running
<1>7. CASE ~CreateOK(spec)
  <2>1. rt' = rt /\ Goto(r, "refused", NoRequest)
    BY <1>7 DEF Create
  <2>2. Moves(submit, submit', r, "refused", NoRequest) /\ SwapsOver(submit')
    BY <1>1, <2>1, GoesOn
  <2>3. Absent(rt.req[r]) /\ r \notin L
    BY <1>1, <1>2 DEF Placed
  <2>4. Accounts(rt, submit, L, staging)
    BY <1>1 DEF Sound
  <2>5. Accounts(rt, submit', L, staging)
    <3>1. Placed(rt.req[r], "refused", NoRequest, FALSE)
      BY <2>3 DEF Placed, Absent, Clear, Terminal
    <3>2. rt.req[r].state # "NONE" => rt.req[r].spec \in Specs[r]
      BY <2>3 DEF Absent
    <3>3. /\ \A q \in Requests : q # r => SameCore(rt.req[q], rt.req[q])
          /\ SameLists(rt, rt) /\ SameCounters(rt, rt)
      BY DEF SameCore, SameClaims, SameCourse, SameLists, SameCounters
    <3>4. NotAdmitted(submit, r)
      BY <1>2 DEF NotAdmitted
    <3>5. "refused" \in {"admit", "refused"}
      OBVIOUS
    <3> QED
      BY <1>1, <2>2, <2>4, <3>1, <3>2, <3>3, <3>4, <3>5, BeforeAdmissionKeeps
  <2>6. Decided(rt, rt)
    <3>1. Light(rt, rt)
      BY <1>1 DEF Light, SameCore, SameClaims, SameCourse, SameLists, SameCounters
    <3> QED
      BY <3>1, LightEases, EasesDecided
  <2>7. ASSUME b PROVE Reservations(rt, submit', w, L, running)
    <3>1. Reservations(rt, submit, w, L, running)
      BY <1>1, <2>7 DEF Sound
    <3>2. Elsewhere(rt, rt, {r}) /\ {r} \in SUBSET Requests
      BY DEF Elsewhere, SameStay, SameHold
    <3>3. Aside(rt, submit, submit', L, L, {r})
      <4>1. r \in {r}
        OBVIOUS
      <4>2. submit[r].pc = "swap" => submit[r].victim = NoRequest \/ ~rt.req[submit[r].victim].token
        BY <1>2
      <4> QED
        BY <2>2, <4>1, <4>2, MovesAside
    <3>4. TicketOK(rt.req[r], submit[r].pc, submit[r].victim, r \in L) /\ TokenOK(rt, r, LeftBy(submit, r), r \in L)
      BY <3>1 DEF Reservations
    <3>5. rt.req[r].state = "NONE" /\ rt.req[r].spec = NoSpec
      BY <2>3 DEF Absent
    <3>6. submit'[r].pc = "refused"
      BY <2>2 DEF Moves
    <3>7. TicketOK(rt.req[r], submit'[r].pc, submit'[r].victim, FALSE)
      BY <3>4, <3>5, <3>6 DEF TicketOK, Terminal
    <3>8. TokenOK(rt, r, LeftBy(submit', r), FALSE)
      BY <3>4, <3>5 DEF TokenOK, Terminal
    <3>9. \A q \in {r} : /\ q \notin L /\ TicketOK(rt.req[q], submit'[q].pc, submit'[q].victim, FALSE)
                         /\ TokenOK(rt, q, LeftBy(submit', q), FALSE)
      BY <2>3, <3>7, <3>8
    <3>10. \A x \in Contexts : rt.ctx[x] # rt.ctx[x] \/ rt.ctx[x].token \in {r} => HolderOK(rt, x)
      BY <3>1 DEF Reservations
    <3>11. Results(rt, running)
      BY <3>1 DEF Reservations
    <3> QED
      BY <1>1, <3>1, <3>2, <3>3, <3>9, <3>10, <3>11, AwayKeeps
  <2>8. Sound(b, rt', submit', w, L, staging, running) /\ Decided(rt, rt')
    BY <2>1, <2>5, <2>6, <2>7 DEF Sound
  <2> QED
    BY <1>3, <2>2, <2>8 DEF Kept, w, L, staging, running
<1> QED
  BY <1>6, <1>7

(* Admission: refused, or by a swap, or with a copy. *)
LEMMA AdmitSound ==
  ASSUME NEW b, IInv(b), NEW r \in Requests, Admit(r)
  PROVE  Kept(b) /\ SwapsOver(submit')
<1> DEFINE w == worker
           L == LaneSet
           staging == worker.staging
           running == direct # "none"
           v == Victim(rt, r)
           reuse == v # NoRequest /\ rt.req[v].budget /\ rt.req[v].counted
           copy == Replacing([Charged(TicketTaken(rt, r, v), r, reuse)
                                EXCEPT !.queue = Without(@, {v})], r)
<1>1. /\ Sound(b, rt, submit, w, L, staging, running) /\ rt \in CoordinatorType
      /\ submit \in SubmitType /\ SwapsOver(submit)
  BY HeldByInvariant DEF Held
<1>2. submit[r].pc = "admit" /\ worker' = worker /\ direct' = direct /\ ~AdmitBlocked(r)
  BY DEF Admit, At
<1>3. L' = L /\ w' = w /\ staging' = staging /\ running' = running
  BY <1>2 DEF LaneSet, Lane
<1>4. /\ v # NoRequest => v \in Queued(rt) /\ v \in Requests /\ SameStream(rt, v, r)
      /\ v \in Requests \cup {NoRequest}
  BY <1>1, VictimFound
<1>5. \/ rt' = Destroyed(rt, r) /\ Goto(r, "refused", NoRequest)
      \/ /\ ~rt.stopping /\ (NeedsTicket(rt, r, v) => rt.results < MaxResults)
         /\ v # NoRequest /\ SameStorage(rt, v, r)
         /\ rt' = Swapped(rt, r, v) /\ Goto(r, "swap", v)
      \/ /\ ~rt.stopping /\ (NeedsTicket(rt, r, v) => rt.results < MaxResults)
         /\ BudgetAdmits(rt.requests, MaxRequests, rt.bytes, MaxInputBytes,
                         rt.req[r].spec.bytes, reuse)
         /\ rt' = copy /\ Goto(r, "snapshot", v)
  BY DEF Admit
<1>6. /\ rt.requests \in Int /\ rt.bytes \in Int /\ rt.req[r].spec.bytes \in Int
      /\ MaxInputBytes \in Int /\ MaxRequests \in Int
  BY <1>1, Typed, RequestConstants DEF CoordinatorType, RequestType, Spec0
<1> HIDE DEF w, L, staging, running, v, copy
<1>7. Accounts(rt, submit, L, staging)
  BY <1>1 DEF Sound
<1>8. v # NoRequest => Claims(rt.req[v]) /\ v # r
  BY <1>2, <1>4, <1>7, QueuedClaims
<1>9. ~rt.stopping /\ rt.req[r].spec.freshness = "LATEST" =>
        \A q \in rt.replacements : ~SameStream(rt, q, r)
  BY <1>2 DEF AdmitBlocked, ReplacementConflict
<1>10. CASE rt' = Destroyed(rt, r) /\ Goto(r, "refused", NoRequest)
  <2>1. Moves(submit, submit', r, "refused", NoRequest) /\ SwapsOver(submit')
    BY <1>1, <1>10, GoesOn
  <2>2. Vanishes(rt, rt', r)
    BY <1>1, <1>10, DestroyedEffect
  <2>3. Sound(b, rt', submit', w, L, staging, running) /\ Decided(rt, rt')
    BY <1>1, <1>2, <2>1, <2>2, VanishesSound
  <2> QED
    BY <1>3, <2>1, <2>3 DEF Kept, w, L, staging, running
<1>11. CASE /\ ~rt.stopping /\ v # NoRequest /\ SameStorage(rt, v, r)
            /\ rt' = Swapped(rt, r, v) /\ Goto(r, "swap", v)
  <2>1. Moves(submit, submit', r, "swap", v) /\ SwapsOver(submit')
    BY <1>1, <1>4, <1>11, GoesOn
  <2>2. rt.req[r].spec.freshness = "LATEST"
    BY <1>11 DEF SameStorage, SameStream
  <2>3. Swaps(rt, rt', r, v)
    BY <1>1, <1>4, <1>8, <1>11, <2>2, SwappedEffect
  <2>4. \A q \in rt.replacements : ~SameStream(rt, q, r)
    BY <1>9, <1>11, <2>2
  <2>5. Sound(b, rt', submit', w, L, staging, running) /\ Decided(rt, rt')
    BY <1>1, <1>2, <1>4, <1>11, <2>1, <2>3, <2>4, SwapSound
  <2> QED
    BY <1>3, <2>1, <2>5 DEF Kept, w, L, staging, running
<1>12. CASE /\ ~rt.stopping /\ (NeedsTicket(rt, r, v) => rt.results < MaxResults)
            /\ BudgetAdmits(rt.requests, MaxRequests, rt.bytes, MaxInputBytes,
                            rt.req[r].spec.bytes, reuse)
            /\ rt' = copy /\ Goto(r, "snapshot", v)
  <2>1. Moves(submit, submit', r, "snapshot", v) /\ SwapsOver(submit')
    BY <1>1, <1>4, <1>12, GoesOn
  <2>2. reuse \in BOOLEAN /\ (reuse <=> v # NoRequest)
    BY <1>8 DEF Claims
  <2>3. /\ v = NoRequest => rt.requests < MaxRequests
        /\ rt.bytes + rt.req[r].spec.bytes <= MaxInputBytes
    BY <1>6, <1>12, <2>2 DEF BudgetAdmits
  <2> HIDE DEF reuse
  <2>4. Copying(rt, rt', r, v)
    BY <1>1, <1>12, <2>2, CopyingEffect DEF copy
  <2>5. rt.req[r].spec.freshness = "LATEST" => \A q \in rt.replacements : ~SameStream(rt, q, r)
    BY <1>9, <1>12
  <2>6. v # NoRequest => v \in Queued(rt) /\ SameStream(rt, v, r)
    BY <1>4
  <2>7. NeedsTicket(rt, r, v) => rt.results < MaxResults
    BY <1>12
  <2>8. Sound(b, rt', submit', w, L, staging, running) /\ Decided(rt, rt')
    BY <1>1, <1>2, <1>4, <2>1, <2>3, <2>4, <2>5, <2>6, <2>7, SnapshotSound
  <2> QED
    BY <1>3, <2>1, <2>8 DEF Kept, w, L, staging, running
<1> QED
  BY <1>5, <1>10, <1>11, <1>12
-----------------------------------------------------------------------------
(* Clients, direct runs and close.                                         *)

(* Neither the batch nor a submission moves. *)
LEMMA KeptInPlace ==
  ASSUME NEW b, worker' = worker, submit' = submit, NEW running,
         Sound(b, rt', submit, worker, LaneSet, worker.staging, running),
         running <=> direct' # "none", running \in BOOLEAN, Decided(rt, rt')
  PROVE  Kept(b)
<1>1. LaneSet' = LaneSet
  BY DEF LaneSet, Lane
<1>2. running = (direct' # "none")
  OBVIOUS
<1> QED
  BY <1>1, <1>2 DEF Kept

(* The lanes of the batch are running, and stay what they are. *)
LEMMA BatchStays ==
  ASSUME NEW c, NEW s, NEW staging, Accounts(c, s, LaneSet, staging), BatchOK(c, worker),
         NEW d, Decided(c, d)
  PROVE  BatchOK(d, worker)
<1>1. \A r \in Requests : Placed(c.req[r], s[r].pc, s[r].victim, r \in LaneSet)
  BY Parts
<1>2. ASSUME NEW i \in 1 .. Len(worker.batch) PROVE Bound(d, worker.batch[i]) = Bound(c, worker.batch[i])
  <2>1. worker.batch \in Seq(Requests)
    BY DEF BatchOK, WorkerType
  <2>2. worker.batch[i] \in LaneSet /\ worker.batch[i] \in Requests
    BY <2>1 DEF LaneSet, Lane
  <2>3. c.req[worker.batch[i]].state = "RUNNING"
    BY <1>1, <2>2 DEF Placed
  <2>4. d.req[worker.batch[i]].spec = c.req[worker.batch[i]].spec
    BY <2>2, <2>3 DEF Decided, Decides
  <2> QED
    BY <2>4 DEF Bound
<1>3. \A i, j \in 1 .. Len(worker.batch) : Bound(d, worker.batch[i]) = Bound(d, worker.batch[j])
  BY <1>2 DEF BatchOK
<1>4. worker.pc \in {"settle", "unreserved"} => Bound(d, worker.batch[1])
  <2> HAVE worker.pc \in {"settle", "unreserved"}
  <2>1. Bound(c, worker.batch[1]) /\ worker.failed \in 1 .. Len(worker.batch) /\ worker.batch \in Seq(Requests)
    BY DEF BatchOK, WorkerType
  <2>2. 1 \in 1 .. Len(worker.batch)
    BY <2>1
  <2> QED
    BY <1>2, <2>1, <2>2
<1> QED
  BY <1>3, <1>4 DEF BatchOK

PutStopping(c, e) == [c EXCEPT !.stopping = e]

(* That the runtime stops changes no account. *)
LEMMA StoppingSound ==
  ASSUME NEW b, NEW c, NEW s, NEW w, NEW L, NEW staging, NEW running,
         Sound(b, c, s, w, L, staging, running), NEW e \in BOOLEAN
  PROVE  LET d == PutStopping(c, e)
         IN  Sound(b, d, s, w, L, staging, running) /\ Decided(c, d)
<1> DEFINE d == PutStopping(c, e)
<1>1. /\ Accounts(c, s, L, staging) /\ c \in CoordinatorType /\ L \in SUBSET Requests
      /\ \A q \in Requests : s[q].victim \in Requests \cup {NoRequest}
  <2>1. Accounts(c, s, L, staging)
    BY DEF Sound
  <2> QED
    BY <2>1, Parts
<1>2. /\ d \in CoordinatorType /\ d.req = c.req /\ d.ctx = c.ctx /\ d.results = c.results
      /\ d.queue = c.queue /\ d.inflight = c.inflight /\ d.replacements = c.replacements
      /\ SameCounters(c, d)
  BY <1>1 DEF CoordinatorType, PutStopping, SameCounters
<1> HIDE DEF d
<1>3. \A p, q \in Requests : SameStream(d, p, q) <=> SameStream(c, p, q)
  BY <1>2, StreamsOfSpecs
<1>4. Accounts(d, s, L, staging)
  <2>1. /\ VictimsOK(c, s) /\ QueueOK(c, s) /\ ListsOK(c, s) /\ Streams(c, s) /\ Counted(c, staging)
        /\ s \in SubmitType /\ staging \in Nat
        /\ \A r \in Requests : Placed(c.req[r], s[r].pc, s[r].victim, r \in L)
        /\ \A r \in Requests : c.req[r].state # "NONE" => c.req[r].spec \in Specs[r]
    BY <1>1 DEF Accounts
  <2>2. VictimsOK(d, s)
    BY <1>1, <1>2, <1>3, <2>1 DEF VictimsOK
  <2>3. QueueOK(d, s)
    BY <1>2, <2>1 DEF QueueOK, Queued
  <2>4. ListsOK(d, s)
    <3>1. c.replacements \subseteq Requests
      BY <1>1 DEF CoordinatorType
    <3> QED
      BY <1>2, <1>3, <2>1, <3>1 DEF ListsOK
  <2>5. Streams(d, s)
    BY <1>2, <1>3, <2>1 DEF Streams, Deliverable
  <2>6. Counted(d, staging)
    <3>1. Bytes(d) = Bytes(c)
      BY <1>2 DEF Bytes
    <3> QED
      BY <1>2, <2>1, <3>1 DEF Counted, SameCounters
  <2> QED
    BY <1>1, <1>2, <2>1, <2>2, <2>3, <2>4, <2>5, <2>6 DEF Accounts
<1>5. Decided(c, d)
  <2>1. Decided(c, c)
    <3>1. Light(c, c)
      BY <1>1 DEF Light, SameCore, SameClaims, SameCourse, SameLists, SameCounters
    <3> QED
      BY <3>1, LightEases, EasesDecided
  <2> QED
    BY <1>2, <2>1 DEF Decided
<1>6. ASSUME b PROVE Reservations(d, s, w, L, running)
  <2>1. Reservations(c, s, w, L, running)
    BY <1>6 DEF Sound
  <2>2. \A q \in Requests : SameStay(c.req[q], d.req[q]) /\ (Delivers(d.req[q]) <=> Delivers(c.req[q]))
    BY <1>2 DEF SameStay, SameHold
  <2> QED
    BY <1>1, <1>2, <2>1, <2>2, HoldsSame
<1> QED
  BY <1>4, <1>5, <1>6 DEF Sound, d

PutResults(c, k) == [c EXCEPT !.results = k]
(* k is the number of results after a direct run has begun or ended. *)
Recounts(b, c, before, after, k) ==
  /\ k \in Int /\ k = c.results - Release(before) + Release(after)
  /\ b /\ c.results <= MaxResults => k <= MaxResults

(* A direct run takes a ticket, or gives it back. *)
LEMMA RecountedSound ==
  ASSUME NEW b, NEW c, NEW s, NEW w, NEW L, NEW staging, NEW before, NEW after,
         Sound(b, c, s, w, L, staging, before), NEW k, Recounts(b, c, before, after, k)
  PROVE  LET d == PutResults(c, k)
         IN  Sound(b, d, s, w, L, staging, after) /\ Decided(c, d)
<1>0. /\ k \in Int /\ k = c.results - Release(before) + Release(after)
      /\ b /\ c.results <= MaxResults => k <= MaxResults
  BY DEF Recounts
<1> DEFINE d == PutResults(c, k)
<1>1. Accounts(c, s, L, staging) /\ c \in CoordinatorType /\ L \in SUBSET Requests
  <2>1. Accounts(c, s, L, staging)
    BY DEF Sound
  <2> QED
    BY <2>1, Parts
<1>2. /\ d \in CoordinatorType /\ d.req = c.req /\ d.ctx = c.ctx /\ d.results = k
      /\ SameLists(c, d) /\ SameCounters(c, d)
  BY <1>0, <1>1 DEF CoordinatorType, PutResults, SameCounters, SameLists
<1> HIDE DEF d
<1>3. Light(c, d)
  BY <1>2 DEF Light, SameCore, SameClaims, SameCourse
<1>4. Accounts(d, s, L, staging) /\ Decided(c, d)
  BY <1>1, <1>3, LightEases, EaseKeeps, EasesDecided
<1>5. ASSUME b PROVE Reservations(d, s, w, L, after)
  <2>1. Reservations(c, s, w, L, before)
    BY <1>5 DEF Sound
  <2>2. Results(c, before)
    BY <2>1 DEF Reservations
  <2>3. Results(d, after)
    <3> DEFINE T == {q \in Requests : c.req[q].ticket}
               D == {q \in Requests : c.req[q].result \notin {"none", "gone"}}
    <3>1. T \in SUBSET Requests /\ D \in SUBSET Requests
      OBVIOUS
    <3>2. c.results = Cardinality(T) + Release(before) + Cardinality(D) /\ c.results <= MaxResults
      BY <2>2 DEF Results
    <3>3. /\ T = {q \in Requests : d.req[q].ticket}
          /\ D = {q \in Requests : d.req[q].result \notin {"none", "gone"}}
      BY <1>2
    <3> HIDE DEF T, D
    <3>4. Cardinality(T) \in Nat /\ Cardinality(D) \in Nat
      BY <3>1, RequestsGrounded
    <3>5. d.results = Cardinality(T) + Release(after) + Cardinality(D)
      BY <1>0, <1>2, <3>2, <3>4, ReleaseCounts
    <3> QED
      BY <1>0, <1>2, <1>5, <3>2, <3>3, <3>5 DEF Results
  <2>4. \A q \in Requests : SameStay(c.req[q], d.req[q])
    BY <1>2 DEF SameStay, SameHold
  <2> QED
    BY <1>1, <1>2, <2>1, <2>3, <2>4, HoldsCounted
<1> QED
  BY <1>4, <1>5 DEF Sound, d

(* Completions are looked at by a client or by close. *)
LEMMA CompletesSound ==
  ASSUME NEW b, IInv(b), rt' = Complete(rt), UNCHANGED <<submit, worker, direct>>
  PROVE  Kept(b)
<1>1. Sound(b, rt, submit, worker, LaneSet, worker.staging, direct # "none")
  BY HeldByInvariant DEF Held
<1> DEFINE running == direct # "none"
<1>2. running \in BOOLEAN /\ (running <=> direct' # "none")
  OBVIOUS
<1> HIDE DEF running
<1>3. Sound(b, rt, submit, worker, LaneSet, worker.staging, running)
  BY <1>1 DEF running
<1>4. Sound(b, rt', submit, worker, LaneSet, worker.staging, running) /\ Decided(rt, rt')
  BY <1>3, CompleteSound
<1> QED
  BY <1>2, <1>4, KeptInPlace

(* Nothing is done to the coordinator. *)
LEMMA NothingSound ==
  ASSUME NEW b, IInv(b), UNCHANGED <<rt, submit, worker, direct>>
  PROVE  Kept(b)
<1>1. Sound(b, rt, submit, worker, LaneSet, worker.staging, direct # "none") /\ rt \in CoordinatorType
  BY HeldByInvariant DEF Held
<1>2. Light(rt, rt)
  BY <1>1 DEF Light, SameCore, SameClaims, SameCourse, SameLists, SameCounters
<1>3. Decided(rt, rt')
  BY <1>2, LightEases, EasesDecided
<1> DEFINE running == direct # "none"
<1>4. running \in BOOLEAN /\ (running <=> direct' # "none")
  OBVIOUS
<1> HIDE DEF running
<1>5. Sound(b, rt', submit, worker, LaneSet, worker.staging, running)
  BY <1>1 DEF running
<1> QED
  BY <1>3, <1>4, <1>5, KeptInPlace

(* A request is cancelled by its client. *)
LEMMA CancelSound ==
  ASSUME NEW b, IInv(b), NEW r \in Requests, Cancel(r)
  PROVE  Kept(b)
<1> DEFINE w == worker
           L == LaneSet
           staging == worker.staging
           running == direct # "none"
           d == IF rt.req[r].superseded THEN rt ELSE SetReq(rt, r, "cancel", TRUE)
<1>1. Sound(b, rt, submit, w, L, staging, running) /\ rt \in CoordinatorType
  BY HeldByInvariant DEF Held
<1>2. /\ submit' = submit /\ worker' = worker /\ running \in BOOLEAN /\ (running <=> direct' # "none")
      /\ \/ /\ rt.req[r].state = "QUEUED" /\ r \in Queued(rt)
            /\ rt' = Withdrawn(rt, r, "CANCELLED")
         \/ /\ rt.req[r].state = "RUNNING"
            /\ rt' = IF Bound(d, r) /\ d.req[r].cancel
                     THEN SetCtx(d, r, CancelReserved(ContextOf(d, r), r)) ELSE d
  BY DEF Cancel
<1> HIDE DEF running, d
<1>3. Accounts(rt, submit, L, staging)
  BY <1>1 DEF Sound
<1>4. CASE r \in Queued(rt) /\ rt' = Withdrawn(rt, r, "CANCELLED")
  <2>1. rt.req[r].budget /\ rt.req[r].bytes <= rt.bytes
    BY <1>3, <1>4, QueuedClaims DEF Claims
  <2>2. "CANCELLED" \in States /\ "CANCELLED" \in Terminal \ {"SUCCEEDED"}
    BY DEF States, Terminal
  <2>3. Leaves(rt, rt', r, "CANCELLED")
    BY <1>1, <1>4, <2>1, <2>2, WithdrawnEffect DEF Leaves
  <2>4. Sound(b, rt', submit, w, L, staging, running) /\ Decided(rt, rt')
    <3> HIDE DEF w, L, staging
    <3> QED
      BY <1>1, <1>4, <2>2, <2>3, LeaveSound
  <2> QED
    BY <1>2, <2>4, KeptInPlace
<1>5. CASE /\ rt.req[r].state = "RUNNING"
           /\ rt' = IF Bound(d, r) /\ d.req[r].cancel
                    THEN SetCtx(d, r, CancelReserved(ContextOf(d, r), r)) ELSE d
  <2>1. Sound(b, d, submit, w, L, staging, running) /\ Decided(rt, d)
    <3>1. CASE rt.req[r].superseded
      <4>1. d = rt
        BY <3>1 DEF d
      <4>2. Light(rt, rt)
        BY <1>1 DEF Light, SameCore, SameClaims, SameCourse, SameLists, SameCounters
      <4>3. Decided(rt, rt)
        BY <4>2, LightEases, EasesDecided
      <4> QED
        BY <1>1, <4>1, <4>3
    <3>2. CASE ~rt.req[r].superseded
      <4>1. d = SetReq(rt, r, "cancel", TRUE)
        BY <3>2 DEF d
      <4> HIDE DEF w, L, staging
      <4> QED
        BY <1>1, <1>5, <4>1, MarkSound
    <3> QED
      BY <3>1, <3>2
  <2> DEFINE e == SetCtx(d, r, CancelReserved(ContextOf(d, r), r))
  <2>2. Sound(b, e, submit, w, L, staging, running) /\ Decided(d, e)
    <3> HIDE DEF w, L, staging
    <3> QED
      BY <2>1, ContextCancelSound
  <2>3. rt' = d \/ rt' = e
    BY <1>5
  <2> HIDE DEF e
  <2>4. Sound(b, rt', submit, w, L, staging, running) /\ Decided(rt, rt')
    <3>1. Decided(rt, e)
      BY <2>1, <2>2, DecidedIsTransitive
    <3> QED
      BY <2>1, <2>2, <2>3, <3>1
  <2> QED
    BY <1>2, <2>4, KeptInPlace
<1> QED
  BY <1>2, <1>4, <1>5

PutResult(q, result) == [q EXCEPT !.result = result]

(* The result of a request is set. *)
LEMMA ResultField ==
  ASSUME NEW q \in RequestType, NEW result \in {"none", "pending", "arrived", "lost", "ready", "held", "gone"}
  PROVE  LET p == PutResult(q, result)
         IN  /\ p \in RequestType /\ p.result = result /\ SameHold(q, p) /\ SameClaims(q, p)
             /\ p.spec = q.spec /\ p.submitted = q.submitted /\ p.state = q.state
             /\ p.cancel = q.cancel /\ p.superseded = q.superseded
BY DEF RequestType, SameHold, SameClaims, PutResult

(* A result on the device arrives, or is lost. *)
LEMMA DeviceDoneSound ==
  ASSUME NEW b, IInv(b), NEW r \in Requests, NEW result \in {"arrived", "lost"}, DeviceDone(r, result)
  PROVE  Kept(b)
<1> DEFINE w == worker
           L == LaneSet
           staging == worker.staging
           running == direct # "none"
           q == PutResult(rt.req[r], result)
<1>1. Sound(b, rt, submit, w, L, staging, running) /\ rt \in CoordinatorType /\ L \in SUBSET Requests
  BY HeldByInvariant DEF Held
<1>2. /\ submit' = submit /\ worker' = worker /\ running \in BOOLEAN /\ (running <=> direct' # "none")
      /\ rt.req[r].result = "pending" /\ rt' = SetReq(rt, r, "result", result)
  BY DEF DeviceDone
<1>3. rt' = PutReq(rt, r, q)
  BY <1>2 DEF SetReq, PutReq, PutResult
<1> HIDE DEF running
<1>4. rt.req[r] \in RequestType
  BY <1>1, Typed
<1>5. /\ q \in RequestType /\ q.result = result /\ SameHold(rt.req[r], q) /\ SameClaims(rt.req[r], q)
      /\ q.spec = rt.req[r].spec /\ q.submitted = rt.req[r].submitted /\ q.state = rt.req[r].state
      /\ q.cancel = rt.req[r].cancel /\ q.superseded = rt.req[r].superseded
  BY <1>4, ResultField
<1> HIDE DEF q
<1>6. /\ rt' \in CoordinatorType /\ rt'.req[r] = q /\ Only(rt, rt', r)
      /\ rt'.ctx = rt.ctx /\ rt'.results = rt.results /\ SameLists(rt, rt') /\ SameCounters(rt, rt')
  BY <1>1, <1>3, <1>5, ReplacedRecord
<1>7. Eases(rt, rt')
  <2>1. \A p \in Requests : Eased(rt.req[p], rt'.req[p])
    BY <1>2, <1>5, <1>6 DEF Eased, Only, SameClaims
  <2> QED
    BY <1>6, <2>1 DEF Eases
<1>8. Accounts(rt', submit, L, staging) /\ Decided(rt, rt')
  <2>1. Accounts(rt, submit, L, staging)
    BY <1>1 DEF Sound
  <2> QED
    BY <1>7, <2>1, EaseKeeps, EasesDecided
<1>9. ASSUME b PROVE Reservations(rt', submit, w, L, running)
  <2>1. Reservations(rt, submit, w, L, running)
    BY <1>1, <1>9 DEF Sound
  <2>2. \A p \in Requests : SameStay(rt.req[p], rt'.req[p]) /\ (Delivers(rt'.req[p]) <=> Delivers(rt.req[p]))
    BY <1>2, <1>5, <1>6 DEF SameStay, SameHold, Only, Delivers
  <2> HIDE DEF w, L
  <2> QED
    BY <1>1, <1>6, <2>1, <2>2, HoldsSame
<1>10. Sound(b, rt', submit, w, L, staging, running)
  BY <1>8, <1>9 DEF Sound
<1> QED
  BY <1>2, <1>8, <1>10, KeptInPlace

(* A result is taken and released. *)
LEMMA DiscardSound ==
  ASSUME NEW b, IInv(b), NEW r \in Requests, Discard(r)
  PROVE  Kept(b)
<1> DEFINE w == worker
           L == LaneSet
           staging == worker.staging
           running == direct # "none"
           q == PutResult(rt.req[r], "gone")
           k == rt.results - 1
<1>1. Sound(b, rt, submit, w, L, staging, running) /\ rt \in CoordinatorType /\ L \in SUBSET Requests
  BY HeldByInvariant DEF Held
<1>2. /\ submit' = submit /\ worker' = worker /\ running \in BOOLEAN /\ (running <=> direct' # "none")
      /\ rt.req[r].result = "held" /\ rt' = [SetReq(rt, r, "result", "gone") EXCEPT !.results = @ - 1]
  BY DEF Discard
<1>3. rt' = PutTicket(rt, r, q, k) /\ k \in Int
  <2>1. k \in Int
    BY <1>1 DEF CoordinatorType
  <2>2. rt' = PutTicket(rt, r, q, k)
    BY <1>2 DEF SetReq, PutTicket, PutResult
  <2> QED
    BY <2>1, <2>2
<1> HIDE DEF running
<1>4. rt.req[r] \in RequestType /\ rt.results \in Int /\ k = rt.results - 1
  BY <1>1, Typed DEF CoordinatorType
<1>5. /\ q \in RequestType /\ q.result = "gone" /\ SameHold(rt.req[r], q) /\ SameClaims(rt.req[r], q)
      /\ q.spec = rt.req[r].spec /\ q.submitted = rt.req[r].submitted /\ q.state = rt.req[r].state
      /\ q.cancel = rt.req[r].cancel /\ q.superseded = rt.req[r].superseded
  BY <1>4, ResultField
<1> HIDE DEF q, k
<1>6. /\ rt' \in CoordinatorType /\ rt'.req[r] = q /\ Only(rt, rt', r)
      /\ rt'.ctx = rt.ctx /\ rt'.results = k /\ SameLists(rt, rt') /\ SameCounters(rt, rt')
  BY <1>1, <1>3, <1>5, ReplacedRecordTicket
<1>7. Eases(rt, rt')
  <2>1. \A p \in Requests : Eased(rt.req[p], rt'.req[p])
    BY <1>2, <1>5, <1>6 DEF Eased, Only, SameClaims
  <2> QED
    BY <1>6, <2>1 DEF Eases
<1>8. Accounts(rt', submit, L, staging) /\ Decided(rt, rt')
  <2>1. Accounts(rt, submit, L, staging)
    BY <1>1 DEF Sound
  <2> QED
    BY <1>7, <2>1, EaseKeeps, EasesDecided
<1>9. ASSUME b PROVE Reservations(rt', submit, w, L, running)
  <2>1. Reservations(rt, submit, w, L, running)
    BY <1>1, <1>9 DEF Sound
  <2>2. \A p \in Requests : SameStay(rt.req[p], rt'.req[p])
    BY <1>5, <1>6 DEF SameStay, SameHold, Only
  <2>3. Results(rt, running)
    BY <2>1 DEF Reservations
  <2>4. Results(rt', running)
    <3>1. Delivers(rt.req[r]) /\ ~Delivers(rt'.req[r]) /\ rt'.req[r].ticket = rt.req[r].ticket
      BY <1>2, <1>5, <1>6 DEF Delivers, SameHold
    <3>2. Release(Delivers(rt.req[r])) = 1 /\ Release(Delivers(rt'.req[r])) = 0
      BY <3>1 DEF Release
    <3>3. rt'.results = rt.results - Release(rt.req[r].ticket) + Release(rt'.req[r].ticket)
                        - Release(Delivers(rt.req[r])) + Release(Delivers(rt'.req[r]))
                        - Release(running) + Release(running)
      <4>1. Release(rt'.req[r].ticket) = Release(rt.req[r].ticket)
        BY <3>1
      <4>2. Release(rt.req[r].ticket) \in Int /\ Release(running) \in Int
        BY ReleaseCounts
      <4> QED
        BY <1>4, <1>6, <3>2, <4>1, <4>2
    <3>4. rt'.results <= MaxResults
      BY <1>4, <1>6, <2>3, RequestConstants DEF Results
    <3>5. \A p \in Requests : p # r => rt'.req[p].ticket = rt.req[p].ticket
                                       /\ (Delivers(rt'.req[p]) <=> Delivers(rt.req[p]))
      BY <1>6 DEF Only
    <3> QED
      BY <1>1, <1>6, <2>3, <3>3, <3>4, <3>5, ResultsOne
  <2> HIDE DEF w, L
  <2> QED
    BY <1>1, <1>6, <2>1, <2>2, <2>4, HoldsCounted
<1>10. Sound(b, rt', submit, w, L, staging, running)
  BY <1>8, <1>9 DEF Sound
<1> QED
  BY <1>2, <1>8, <1>10, KeptInPlace

(* The whole job of a context is cancelled. *)
LEMMA CancelContextSound ==
  ASSUME NEW b, IInv(b), NEW x \in Contexts, CancelContext(x)
  PROVE  Kept(b)
<1> DEFINE w == worker
           L == LaneSet
           staging == worker.staging
           running == direct # "none"
           y == CancelExecution(rt.ctx[x])
<1>1. Sound(b, rt, submit, w, L, staging, running) /\ rt \in CoordinatorType /\ L \in SUBSET Requests
  BY HeldByInvariant DEF Held
<1>2. /\ submit' = submit /\ worker' = worker /\ running \in BOOLEAN /\ (running <=> direct' # "none")
      /\ rt' = [rt EXCEPT !.ctx[x] = y]
  BY DEF CancelContext
<1> HIDE DEF running
<1>3. rt.ctx[x] \in ContextType
  BY <1>1, Typed
<1>4. /\ y \in ContextType /\ y.token = rt.ctx[x].token /\ y.call = rt.ctx[x].call
      /\ y.state = IF rt.ctx[x].state = "RUNNING" THEN "RUNNING" ELSE "CANCELLED"
  BY <1>3 DEF CancelExecution, ContextType, ContextStates
<1> HIDE DEF y
<1>5. /\ rt' \in CoordinatorType /\ rt'.req = rt.req /\ rt'.results = rt.results
      /\ SameLists(rt, rt') /\ SameCounters(rt, rt')
      /\ rt'.ctx[x] = y /\ \A z \in Contexts : z # x => rt'.ctx[z] = rt.ctx[z]
  BY <1>1, <1>2, <1>4 DEF CoordinatorType, SameLists, SameCounters
<1>6. Light(rt, rt')
  BY <1>5 DEF Light, SameCore, SameClaims, SameCourse
<1>7. Accounts(rt', submit, L, staging) /\ Decided(rt, rt')
  <2>1. Accounts(rt, submit, L, staging)
    BY <1>1 DEF Sound
  <2> QED
    BY <1>6, <2>1, LightEases, EaseKeeps, EasesDecided
<1>8. ASSUME b PROVE Reservations(rt', submit, w, L, running)
  <2>1. Reservations(rt, submit, w, L, running)
    BY <1>1, <1>8 DEF Sound
  <2>2. \A q \in Requests : SameStay(rt.req[q], rt'.req[q]) /\ (Delivers(rt'.req[q]) <=> Delivers(rt.req[q]))
    BY <1>5 DEF SameStay, SameHold
  <2>3. x \in Contexts =>
          /\ rt'.ctx[x].token = rt.ctx[x].token /\ rt'.ctx[x].call = rt.ctx[x].call
          /\ rt'.ctx[x].state = IF rt.ctx[x].state = "RUNNING" THEN "RUNNING" ELSE "CANCELLED"
    BY <1>4, <1>5
  <2> HIDE DEF w, L
  <2> QED
    BY <1>1, <1>5, <2>1, <2>2, <2>3, CancelledKeeps
<1>9. Sound(b, rt', submit, w, L, staging, running)
  BY <1>7, <1>8 DEF Sound
<1> QED
  BY <1>2, <1>7, <1>9, KeptInPlace

(* Direct runs take one result ticket and give it back. *)
LEMMA DirectSound ==
  ASSUME NEW b, IInv(b), DirectBegin \/ DirectEnd \/ DirectRelease
  PROVE  Kept(b)
<1> DEFINE w == worker
           L == LaneSet
           staging == worker.staging
           before == direct # "none"
           after == direct' # "none"
           k == rt.results - Release(before) + Release(after)
<1>1. Sound(b, rt, submit, w, L, staging, before) /\ rt \in CoordinatorType
  BY HeldByInvariant DEF Held
<1>2. rt.results \in Int /\ MaxResults \in Int
  BY <1>1, RequestConstants DEF CoordinatorType
<1>3. submit' = submit /\ worker' = worker
  BY DEF DirectBegin, DirectEnd, DirectRelease
<1>4. rt' = PutResults(rt, k)
  BY <1>2 DEF DirectBegin, DirectEnd, DirectRelease, PutResults, Release
<1>5. /\ k \in Int /\ k = rt.results - Release(before) + Release(after)
      /\ b /\ rt.results <= MaxResults => k <= MaxResults
  BY <1>2 DEF DirectBegin, DirectEnd, DirectRelease, Release
<1>6. after \in BOOLEAN /\ (after <=> direct' # "none")
  OBVIOUS
<1> HIDE DEF before, after, k
<1>7. Sound(b, rt', submit, w, L, staging, after) /\ Decided(rt, rt')
  <2> HIDE DEF w, L, staging
  <2> QED
    <3>1. Recounts(b, rt, before, after, k)
      BY <1>5 DEF Recounts
    <3> QED
      BY <1>1, <1>4, <3>1, RecountedSound
<1> QED
  BY <1>3, <1>6, <1>7, KeptInPlace

(* Close stops the coordinator. *)
LEMMA CloseStopSound ==
  ASSUME NEW b, IInv(b), NEW k \in Closers, CloseStop(k)
  PROVE  Kept(b)
<1> DEFINE w == worker
           L == LaneSet
           staging == worker.staging
           running == direct # "none"
<1>1. Sound(b, rt, submit, w, L, staging, running)
  BY HeldByInvariant DEF Held
<1>2. life.created \in BOOLEAN
  BY DEF IInv, LifeType
<1>3. /\ submit' = submit /\ worker' = worker /\ running \in BOOLEAN /\ (running <=> direct' # "none")
      /\ rt' = PutStopping(rt, life.created)
  BY DEF CloseStop, PutStopping
<1> HIDE DEF running
<1>4. Sound(b, rt', submit, w, L, staging, running) /\ Decided(rt, rt')
  <2> HIDE DEF w, L, staging
  <2> QED
    BY <1>1, <1>2, <1>3, StoppingSound
<1> QED
  BY <1>3, <1>4, KeptInPlace

(* Close empties the queue. *)
LEMMA CloseDrainSound ==
  ASSUME NEW b, IInv(b), NEW k \in Closers, CloseDrain(k)
  PROVE  Kept(b)
<1> DEFINE w == worker
           L == LaneSet
           staging == worker.staging
           running == direct # "none"
           S == Queued(rt)
<1>1. Sound(b, rt, submit, w, L, staging, running)
  BY HeldByInvariant DEF Held
<1>2. /\ submit' = submit /\ worker' = worker /\ running \in BOOLEAN /\ (running <=> direct' # "none")
      /\ rt' = WithdrawAll(rt, S, "CANCELLED")
  BY DEF CloseDrain
<1>3. S \subseteq Queued(rt) /\ "CANCELLED" \in Terminal \ {"SUCCEEDED"}
  BY DEF Terminal
<1> HIDE DEF running, S
<1>4. Sound(b, rt', submit, w, L, staging, running) /\ Decided(rt, rt')
  <2> HIDE DEF w, L, staging
  <2> QED
    BY <1>1, <1>2, <1>3, WithdrawAllSound
<1> QED
  BY <1>2, <1>4, KeptInPlace
-----------------------------------------------------------------------------
(* The worker.                                                             *)

(* Without lanes the worker's place does not matter. *)
LEMMA NoLanes ==
  ASSUME NEW b, NEW c, NEW s, NEW w, NEW staging, NEW running, Sound(b, c, s, w, {}, staging, running), NEW v
  PROVE  Sound(b, c, s, v, {}, staging, running)
BY DEF Sound, Reservations

(* An idle worker wakes, exits, or finds late requests. *)
LEMMA IdleSound ==
  ASSUME NEW b, IInv(b), submit' = submit, direct' = direct,
         worker.pc \in {"idle", "pick"}, NEW pc \in {"idle", "pick", "exited"}, Step(pc),
         rt' = rt \/ rt' = Complete(rt) \/ rt' = Expire(rt)
  PROVE  Kept(b) /\ BatchOK(rt', worker')
<1> DEFINE w == worker
           L == LaneSet
           staging == worker.staging
           running == direct # "none"
<1>1. /\ Sound(b, rt, submit, w, L, staging, running) /\ rt \in CoordinatorType /\ BatchOK(rt, worker)
  BY HeldByInvariant DEF Held
<1>2. /\ worker \in WorkerType /\ worker.batch = <<>> /\ worker.staging = 0
  BY <1>1 DEF BatchOK
<1>3. /\ worker' \in WorkerType /\ worker'.batch = <<>> /\ worker'.staging = 0 /\ worker'.pc = pc
  BY <1>2 DEF Step, WorkerType
<1>4. LaneSet = {} /\ LaneSet' = {}
  BY <1>2, <1>3 DEF LaneSet, Lane
<1>5. BatchOK(rt', worker')
  BY <1>3 DEF BatchOK, IsInjective
<1>6. Sound(b, rt', submit, w, L, staging, running) /\ Decided(rt, rt')
  <2>1. CASE rt' = rt
    <3>1. Light(rt, rt)
      BY <1>1 DEF Light, SameCore, SameClaims, SameCourse, SameLists, SameCounters
    <3>2. Decided(rt, rt)
      BY <3>1, LightEases, EasesDecided
    <3> QED
      BY <1>1, <2>1, <3>2
  <2>2. CASE rt' = Complete(rt)
    <3> HIDE DEF w, staging, running
    <3> QED
      BY <1>1, <2>2, CompleteSound
  <2>3. CASE rt' = Expire(rt)
    <3> HIDE DEF w, L, staging, running
    <3> QED
      BY <1>1, <2>3, ExpireSound
  <2> QED
    BY <2>1, <2>2, <2>3
<1>7. Sound(b, rt', submit, worker, {}, 0, direct # "none")
  BY <1>2, <1>4, <1>6
<1>8. Sound(b, rt', submit, worker', {}, 0, direct # "none")
  <2> DEFINE r == direct # "none"
  <2> HIDE DEF r
  <2>1. Sound(b, rt', submit, worker, {}, 0, r)
    BY <1>7 DEF r
  <2>2. Sound(b, rt', submit, worker', {}, 0, r)
    BY <2>1, NoLanes
  <2> QED
    BY <2>2 DEF r
<1> QED
  BY <1>3, <1>4, <1>5, <1>6, <1>8 DEF Kept

(* Some of the queue become the lanes of a batch. *)
Dispatches(c, d, S, staging) ==
  /\ d \in CoordinatorType /\ d.ctx = c.ctx /\ d.results = c.results
  /\ \A q \in Requests : /\ SameClaims(c.req[q], d.req[q]) /\ SameHold(c.req[q], d.req[q])
                         /\ d.req[q].spec = c.req[q].spec /\ d.req[q].cancel = c.req[q].cancel
                         /\ d.req[q].superseded = c.req[q].superseded
                         /\ d.req[q].result = c.req[q].result
                         /\ d.req[q].state = IF q \in S THEN "RUNNING" ELSE c.req[q].state
  /\ \A q \in Requests : q \notin S => d.req[q] = c.req[q]
  /\ d.queue = Without(c.queue, S) /\ d.inflight = c.inflight \cup S
  /\ d.replacements = c.replacements
  /\ d.requests = c.requests /\ d.bytes = c.bytes + staging /\ d.waiters = c.waiters

(* That is what Dispatched does. *)
LEMMA DispatchedEffect ==
  ASSUME NEW c \in CoordinatorType, NEW lanes, NEW staging \in Nat,
         NEW S \in SUBSET Requests, S = {lanes[i] : i \in 1 .. Len(lanes)}
  PROVE  Dispatches(c, Dispatched(c, lanes, staging), S, staging)
<1> DEFINE Run(q) == [c.req[q] EXCEPT !.state = "RUNNING"]
           f == [q \in Requests |-> IF q \in S THEN Run(q) ELSE c.req[q]]
           queue == Without(c.queue, S)
           inflight == c.inflight \cup S
           bytes == c.bytes + staging
           d == [c EXCEPT !.queue = queue, !.inflight = inflight, !.bytes = bytes, !.req = f]
<1>1. Dispatched(c, lanes, staging) = d
  BY DEF Dispatched
<1>2. \A q \in Requests : c.req[q] \in RequestType
  BY Typed
<1>3. \A q \in Requests :
        /\ Run(q) \in RequestType /\ Run(q).state = "RUNNING" /\ SameHold(c.req[q], Run(q))
        /\ SameClaims(c.req[q], Run(q))
        /\ Run(q).spec = c.req[q].spec /\ Run(q).cancel = c.req[q].cancel
        /\ Run(q).superseded = c.req[q].superseded /\ Run(q).result = c.req[q].result
  <2>1. "RUNNING" \in States
    BY DEF States
  <2> QED
    BY <1>2, <2>1, StateField
<1> HIDE DEF Run
<1>4. \A q \in Requests : f[q] = IF q \in S THEN Run(q) ELSE c.req[q]
  OBVIOUS
<1>5. f \in [Requests -> RequestType]
  BY <1>2, <1>3
<1> HIDE DEF f
<1>6. queue \in Seq(Requests) /\ inflight \in SUBSET Requests /\ bytes \in Int
  BY WithoutMembers DEF CoordinatorType
<1>7. bytes = c.bytes + staging
  OBVIOUS
<1> HIDE DEF bytes
<1>8. /\ d \in CoordinatorType /\ d.req = f /\ d.ctx = c.ctx /\ d.results = c.results
      /\ d.queue = queue /\ d.inflight = inflight /\ d.replacements = c.replacements
      /\ d.requests = c.requests /\ d.bytes = bytes /\ d.waiters = c.waiters
  <2> HIDE DEF queue, inflight
  <2> QED
    BY <1>5, <1>6 DEF CoordinatorType
<1> HIDE DEF d
<1>9. \A q \in Requests :
        /\ SameClaims(c.req[q], f[q]) /\ SameHold(c.req[q], f[q])
        /\ f[q].spec = c.req[q].spec /\ f[q].cancel = c.req[q].cancel
        /\ f[q].superseded = c.req[q].superseded /\ f[q].result = c.req[q].result
        /\ f[q].state = IF q \in S THEN "RUNNING" ELSE c.req[q].state
  <2> TAKE q \in Requests
  <2>1. CASE q \in S
    <3>1. f[q] = Run(q)
      BY <1>4, <2>1
    <3> QED
      BY <1>3, <2>1, <3>1
  <2>2. CASE q \notin S
    <3>1. f[q] = c.req[q]
      BY <1>4, <2>2
    <3> QED
      BY <2>2, <3>1 DEF SameClaims, SameHold
  <2> QED
    BY <2>1, <2>2
<1>10. \A q \in Requests : q \notin S => f[q] = c.req[q]
  BY <1>4
<1> QED
  BY <1>1, <1>7, <1>8, <1>9, <1>10 DEF Dispatches

(* A dispatched batch keeps the invariant. *)
LEMMA DispatchesSound ==
  ASSUME NEW b, NEW c, NEW s, NEW w, NEW running, Sound(b, c, s, w, {}, 0, running),
         NEW S \in SUBSET Queued(c), NEW staging \in Nat, c.bytes + staging <= MaxInputBytes,
         NEW d, Dispatches(c, d, S, staging), NEW v, v.pc = "route"
  PROVE  Sound(b, d, s, v, S, staging, running) /\ Decided(c, d)
<1>1. Accounts(c, s, {}, 0)
  BY DEF Sound
<1>2. c \in CoordinatorType /\ Queued(c) \subseteq Requests
  BY <1>1, Parts
<1>3. /\ d \in CoordinatorType /\ d.ctx = c.ctx /\ d.results = c.results
      /\ \A q \in Requests : /\ SameClaims(c.req[q], d.req[q]) /\ SameHold(c.req[q], d.req[q])
                             /\ d.req[q].spec = c.req[q].spec /\ d.req[q].cancel = c.req[q].cancel
                             /\ d.req[q].superseded = c.req[q].superseded
                             /\ d.req[q].result = c.req[q].result
                             /\ d.req[q].state = IF q \in S THEN "RUNNING" ELSE c.req[q].state
      /\ \A q \in Requests : q \notin S => d.req[q] = c.req[q]
      /\ d.queue = Without(c.queue, S) /\ d.inflight = c.inflight \cup S
      /\ d.replacements = c.replacements
      /\ d.requests = c.requests /\ d.bytes = c.bytes + staging /\ d.waiters = c.waiters
  BY DEF Dispatches
<1>4. \A q \in S : q \in Requests /\ s[q].pc = "accepted" /\ c.req[q].state = "QUEUED"
  BY <1>1, QueuedClaims
<1>5. Accounts(d, s, S, staging)
  <2>1. \A q \in Requests : /\ SameClaims(c.req[q], d.req[q])
                             /\ d.req[q].spec = c.req[q].spec /\ d.req[q].cancel = c.req[q].cancel
                             /\ d.req[q].superseded = c.req[q].superseded
                             /\ d.req[q].result = c.req[q].result
                             /\ d.req[q].state = IF q \in S THEN "RUNNING" ELSE c.req[q].state
    BY <1>3
  <2> QED
    BY <1>1, <1>3, <2>1, DispatchKeeps
<1>6. Decided(c, d)
  <2>1. \A q \in Requests : q \in S => c.req[q].state \in {"NONE", "QUEUED"}
    BY <1>4
  <2>2. \A q \in Requests : q \notin S => SameCore(c.req[q], d.req[q])
    BY <1>3 DEF SameCore, SameClaims, SameCourse
  <2> QED
    BY <2>1, <2>2, OthersDecided
<1>7. ASSUME b PROVE Reservations(d, s, v, S, running)
  <2>1. Reservations(c, s, w, {}, running)
    BY <1>7 DEF Sound
  <2>2. S \in SUBSET Requests
    BY <1>4
  <2>3. Elsewhere(c, d, S)
    BY <1>3 DEF Elsewhere, SameStay, SameHold
  <2>4. Aside(c, s, s, {}, S, S)
    BY DEF Aside
  <2>5. /\ \A q \in Requests \ S : /\ TicketOK(d.req[q], s[q].pc, s[q].victim, q \in S)
                                   /\ TokenOK(d, q, LeftBy(s, q), q \in S)
        /\ \A x \in Contexts : d.ctx[x] = c.ctx[x] /\ c.ctx[x].token \notin S => HolderOK(d, x)
    BY <1>2, <1>3, <2>1, <2>2, <2>3, <2>4, ElsewhereKeeps
  <2>6. \A q \in S : /\ TicketOK(c.req[q], "accepted", s[q].victim, FALSE)
                     /\ TokenOK(c, q, LeftBy(s, q), FALSE)
    <3> TAKE q \in S
    <3>1. TicketOK(c.req[q], s[q].pc, s[q].victim, q \in {}) /\ TokenOK(c, q, LeftBy(s, q), q \in {})
      BY <1>4, <2>1 DEF Reservations
    <3>2. (q \in {}) = FALSE
      OBVIOUS
    <3> QED
      BY <1>4, <3>1, <3>2
  <2>7. \A q \in S : /\ d.req[q].ticket /\ d.req[q].state = "RUNNING" /\ d.req[q].spec = c.req[q].spec
                     /\ d.req[q].token = c.req[q].token
                     /\ Bound(c, q) => d.req[q].token
    BY <1>3, <1>4, <2>6 DEF TicketOK, TokenOK, SameHold
  <2>8. \A q \in S : TicketOK(d.req[q], s[q].pc, s[q].victim, TRUE)
    BY <1>4, <2>7 DEF TicketOK, Terminal
  <2>9. \A q \in S : TokenOK(d, q, LeftBy(s, q), TRUE)
    <3> TAKE q \in S
    <3>1. ContextOf(d, q) = ContextOf(c, q) /\ (Bound(d, q) <=> Bound(c, q))
      BY <1>3, <2>7 DEF Bound, ContextOf
    <3>2. TokenOK(c, q, LeftBy(s, q), FALSE) /\ d.req[q].state = "RUNNING" /\ d.req[q].token = c.req[q].token
      BY <2>6, <2>7
    <3> QED
      BY <3>1, <3>2 DEF TokenOK, Terminal
  <2>10. \A q \in Requests : /\ TicketOK(d.req[q], s[q].pc, s[q].victim, q \in S)
                             /\ TokenOK(d, q, LeftBy(s, q), q \in S)
    <3> TAKE q \in Requests
    <3>1. CASE q \in S
      <4>1. (q \in S) = TRUE
        BY <3>1
      <4> QED
        BY <2>8, <2>9, <3>1, <4>1
    <3>2. CASE q \notin S
      BY <2>5, <3>2
    <3> QED
      BY <3>1, <3>2
  <2>11. \A x \in Contexts : HolderOK(d, x)
    <3> TAKE x \in Contexts
    <3>1. CASE c.ctx[x].token \notin S
      BY <1>3, <2>5, <3>1
    <3>2. CASE c.ctx[x].token \in S
      <4>1. HolderOK(c, x)
        BY <2>1 DEF Reservations
      <4>2. c.ctx[x].token # NoRequest
        BY <2>2, <3>2, RequestsAreNumbers
      <4> QED
        BY <1>3, <2>7, <3>2, <4>1, <4>2 DEF HolderOK
    <3> QED
      BY <3>1, <3>2
  <2>12. ASSUME NEW i \in 1 .. Len(v.batch), v.batch[i] \in S PROVE LaneOK(d, v, i, v.batch[i])
    <3>1. Bound(d, v.batch[i]) = Bound(c, v.batch[i])
      BY <2>7, <2>12 DEF Bound
    <3> QED
      BY <2>7, <2>12, <3>1 DEF LaneOK, LaneBound, Reserved
  <2>13. Results(d, running)
    <3>1. Results(c, running)
      BY <2>1 DEF Reservations
    <3>2. \A q \in Requests : d.req[q].ticket = c.req[q].ticket
                              /\ (Delivers(d.req[q]) <=> Delivers(c.req[q]))
      BY <1>3 DEF Delivers, SameHold
    <3> QED
      BY <1>3, <3>1, <3>2, ResultsSame
  <2> QED
    BY <2>10, <2>11, <2>12, <2>13 DEF Reservations
<1> QED
  BY <1>5, <1>6, <1>7 DEF Sound

PutBatch(lanes, staging) == [Idle EXCEPT !.pc = "route", !.batch = lanes, !.staging = staging]
(* A worker that takes up a batch. *)
LEMMA BatchPut ==
  ASSUME NEW lanes \in Seq(Requests), NEW staging \in Nat
  PROVE  LET w == PutBatch(lanes, staging)
         IN  w \in WorkerType /\ w.pc = "route" /\ w.batch = lanes /\ w.staging = staging
BY DEF PutBatch, Idle, WorkerType

(* All lanes of a batch have a context, or none has. *)
LEMMA LanesAlike ==
  ASSUME NEW c \in CoordinatorType, \A q \in Requests : c.req[q].state # "NONE" => c.req[q].spec \in Specs[q],
         NEW lanes, NEW first \in Requests, c.req[first].state # "NONE",
         \A i \in 1 .. Len(lanes) : /\ lanes[i] \in Requests /\ c.req[lanes[i]].state # "NONE"
                                    /\ lanes[i] = first \/ Compatible(c, first, lanes[i])
  PROVE  \A i, j \in 1 .. Len(lanes) : Bound(c, lanes[i]) = Bound(c, lanes[j])
<1>1. ASSUME NEW i \in 1 .. Len(lanes) PROVE Bound(c, lanes[i]) = Bound(c, first)
  <2>1. lanes[i] \in Requests /\ c.req[lanes[i]].spec \in Specs[lanes[i]]
    OBVIOUS
  <2>2. c.req[first].spec \in Specs[first]
    OBVIOUS
  <2>3. CASE lanes[i] = first
    BY <2>3
  <2>4. CASE Compatible(c, first, lanes[i])
    <3>1. c.req[first].spec.batch /\ c.req[lanes[i]].spec.batch
      BY <2>4 DEF Compatible
    <3>2. (c.req[first].spec.context = NoContext) = (c.req[lanes[i]].spec.context = NoContext)
      BY <2>1, <2>2, <3>1, BatchesAlike
    <3> QED
      BY <3>2 DEF Bound
  <2> QED
    BY <2>3, <2>4
<1> QED
  BY <1>1

(* The worker takes up a batch, or finds late requests. *)
LEMMA WorkerPickSound ==
  ASSUME NEW b, IInv(b), WorkerPick
  PROVE  Kept(b) /\ BatchOK(rt', worker')
<1> DEFINE running == direct # "none"
<1>1. /\ Held(b) /\ rt \in CoordinatorType /\ submit \in SubmitType /\ BatchOK(rt, worker) /\ now \in Nat
      /\ worker.pc = "pick" /\ submit' = submit /\ direct' = direct
  BY HeldByInvariant DEF WorkerPick
<1>2. CASE (rt.queue = <<>> \/ Expired(rt) # {}) /\ rt' = Expire(rt) /\ Step("idle")
  BY <1>1, <1>2, IdleSound
<1>3. ASSUME rt.queue # <<>>, NEW n \in {1, LegalBatch(rt, Best(rt, Queued(rt)))},
             rt' = Dispatched(rt, Lanes(rt, Best(rt, Queued(rt)), n),
                              IF n = 1 THEN 0 ELSE Staging(rt, Best(rt, Queued(rt)), n)),
             worker' = PutBatch(Lanes(rt, Best(rt, Queued(rt)), n),
                                IF n = 1 THEN 0 ELSE Staging(rt, Best(rt, Queued(rt)), n))
      PROVE  Kept(b) /\ BatchOK(rt', worker')
  <2> DEFINE first == Best(rt, Queued(rt))
             lanes == Lanes(rt, first, n)
             staging == IF n = 1 THEN 0 ELSE Staging(rt, first, n)
             S == {lanes[i] : i \in 1 .. Len(lanes)}
  <2>1. worker.batch = <<>> /\ worker.staging = 0
    BY <1>1 DEF BatchOK
  <2>2. LaneSet = {}
    BY <2>1 DEF LaneSet, Lane
  <2>3. Sound(b, rt, submit, worker, {}, 0, running)
    BY <1>1, <2>1, <2>2 DEF Held
  <2>4. Accounts(rt, submit, {}, 0)
    BY <2>3 DEF Sound
  <2>5. /\ Queued(rt) \in SUBSET Requests /\ Counted(rt, 0)
        /\ \A q \in Requests : rt.req[q].state # "NONE" => rt.req[q].spec \in Specs[q]
        /\ \A q \in Requests : rt.req[q] \in RequestType
    BY <2>4, Parts
  <2>6. rt.bytes \in Nat /\ rt.bytes <= MaxInputBytes
    BY <1>1, <2>5, BytesIncluded DEF Counted
  <2>7. Queued(rt) # {}
    <3>1. rt.queue \in Seq(Requests)
      BY <1>1 DEF CoordinatorType
    <3>2. Len(rt.queue) \in Nat /\ Len(rt.queue) # 0
      BY <1>3, <3>1
    <3>3. 1 \in 1 .. Len(rt.queue)
      BY <3>2
    <3> QED
      BY <3>3 DEF Queued
  <2>8. first \in Queued(rt) /\ first \in Requests
    BY <1>1, <2>5, <2>7, BestFound
  <2> HIDE DEF first
  <2>9. n \in Nat /\ n >= 1 /\ (n # 1 => Staging(rt, first, n) <= MaxInputBytes - rt.bytes)
    <3>1. n \in {1, LegalBatch(rt, first)}
      BY <1>3 DEF first
    <3> QED
      BY <1>1, <2>8, <3>1, LegalBatchFits
  <2>10. /\ lanes \in Seq(Requests) /\ IsInjective(lanes)
         /\ Len(lanes) \in 1 .. n /\ lanes[1] = first
         /\ \A i \in 1 .. Len(lanes) :
              /\ lanes[i] \in Queued(rt)
              /\ lanes[i] = first \/ Compatible(rt, first, lanes[i])
    BY <1>1, <2>8, <2>9, LanesFound
  <2>11. staging \in Nat /\ rt.bytes + staging <= MaxInputBytes
    <3>1. rt.req[first].spec.bytes \in Nat
      BY <2>5, <2>8 DEF RequestType, Spec0
    <3>2. Staging(rt, first, n) \in Nat
      BY <2>9, <3>1, Z3 DEF Staging
    <3>3. MaxInputBytes \in Nat
      BY RequestConstants
    <3> QED
      BY <2>6, <2>9, <3>2, <3>3
  <2>12. rt' = Dispatched(rt, lanes, staging) /\ worker' = PutBatch(lanes, staging)
    BY <1>3 DEF first
  <2> HIDE DEF lanes, staging
  <2>13. S \in SUBSET Queued(rt) /\ S \in SUBSET Requests
    BY <2>5, <2>10
  <2>14. Dispatches(rt, rt', S, staging)
    BY <1>1, <2>11, <2>12, <2>13, DispatchedEffect
  <2>15. worker' \in WorkerType /\ worker'.pc = "route" /\ worker'.batch = lanes /\ worker'.staging = staging
    BY <2>10, <2>11, <2>12, BatchPut
  <2>16. LaneSet' = S
    BY <2>15 DEF LaneSet, Lane
  <2>17. Kept(b)
    <3> HIDE DEF running, S
    <3>1. Sound(b, rt', submit, worker', S, staging, running) /\ Decided(rt, rt')
      BY <2>3, <2>11, <2>13, <2>14, <2>15, DispatchesSound
    <3>2. running = (direct' # "none")
      BY <1>1 DEF running
    <3> QED
      BY <1>1, <2>15, <2>16, <3>1, <3>2 DEF Kept
  <2>18. BatchOK(rt', worker')
    <3>1. \A i \in 1 .. Len(lanes) : lanes[i] \in Requests /\ rt.req[lanes[i]].state = "QUEUED"
      BY <2>4, <2>10, QueuedClaims
    <3>2. rt.req[first].state = "QUEUED"
      BY <2>4, <2>8, QueuedClaims
    <3>3. \A i, j \in 1 .. Len(lanes) : Bound(rt, lanes[i]) = Bound(rt, lanes[j])
      BY <1>1, <2>5, <2>8, <2>10, <3>1, <3>2, LanesAlike
    <3>4. \A q \in Requests : rt'.req[q].spec = rt.req[q].spec
      BY <2>14 DEF Dispatches
    <3>5. \A q \in Requests : Bound(rt', q) = Bound(rt, q)
      BY <3>4 DEF Bound
    <3>6. \A i, j \in 1 .. Len(lanes) : Bound(rt', lanes[i]) = Bound(rt', lanes[j])
      BY <3>1, <3>3, <3>5
    <3>7. lanes # <<>>
      BY <2>9, <2>10
    <3> QED
      BY <2>10, <2>15, <3>6, <3>7 DEF BatchOK
  <2> QED
    BY <2>17, <2>18
<1> QED
  <2>1. CASE ~((rt.queue = <<>> \/ Expired(rt) # {}) /\ rt' = Expire(rt) /\ Step("idle"))
    <3>0. rt.queue # <<>>
      BY <2>1 DEF WorkerPick
    <3>1. PICK n \in {1, LegalBatch(rt, Best(rt, Queued(rt)))} :
            /\ rt' = Dispatched(rt, Lanes(rt, Best(rt, Queued(rt)), n),
                                IF n = 1 THEN 0 ELSE Staging(rt, Best(rt, Queued(rt)), n))
            /\ worker' = PutBatch(Lanes(rt, Best(rt, Queued(rt)), n),
                                  IF n = 1 THEN 0 ELSE Staging(rt, Best(rt, Queued(rt)), n))
      BY <2>1 DEF WorkerPick, PutBatch
    <3> QED
      BY <1>3, <3>0, <3>1
  <2> QED
    BY <1>2, <2>1

(* What a step of the worker does to the lanes in R, and to their contexts. *)
Touches(c, d, R) ==
  /\ \A q \in Requests \ R : SameHold(c.req[q], d.req[q])
  /\ \A q \in R : ~d.req[q].token
  /\ \A x \in Contexts :
       \/ d.ctx[x] = c.ctx[x]
       \/ /\ {c.ctx[x].token, d.ctx[x].token} \subseteq R \cup {NoRequest}
          /\ d.ctx[x].token \in {c.ctx[x].token, NoRequest}
          /\ d.ctx[x].token = NoRequest => d.ctx[x].state \notin {"QUEUED", "RUNNING"}
(* Each lane is where the worker's new place v says it is. *)
InPlace(c, d, v, L, R) ==
  \A i \in 1 .. Len(v.batch) : v.batch[i] \in L =>
    LaneOK(IF v.batch[i] \in R THEN d ELSE c, v, i, v.batch[i])
(* A step on some lanes keeps the reservations. *)
LEMMA LanesHold ==
  ASSUME NEW c \in CoordinatorType, NEW s, NEW w, NEW L \in SUBSET Requests, NEW running,
         Reservations(c, s, w, L, running), NEW R \in SUBSET L,
         \A q \in L : s[q].pc = "accepted" /\ c.req[q].state = "RUNNING",
         NEW d, Light(c, d), Touches(c, d, R), Results(d, running), NEW v, InPlace(c, d, v, L, R)
  PROVE  Reservations(d, s, v, L, running)
<1>1. /\ d \in CoordinatorType
      /\ \A q \in Requests : d.req[q].spec = c.req[q].spec /\ d.req[q].state = c.req[q].state
  BY DEF Light, SameCore, SameCourse
<1>2. R \in SUBSET Requests
  OBVIOUS
<1>3. Elsewhere(c, d, R)
  BY <1>1 DEF Touches, Elsewhere, SameStay
<1>4. Aside(c, s, s, L, L, R)
  BY DEF Aside
<1>5. /\ \A q \in Requests \ R : /\ TicketOK(d.req[q], s[q].pc, s[q].victim, q \in L)
                                 /\ TokenOK(d, q, LeftBy(s, q), q \in L)
      /\ \A q \in Requests \ R : \A u, i : LaneOK(c, u, i, q) => LaneOK(d, u, i, q)
      /\ \A x \in Contexts : d.ctx[x] = c.ctx[x] /\ c.ctx[x].token \notin R => HolderOK(d, x)
  BY <1>1, <1>2, <1>3, <1>4, ElsewhereKeeps
<1>6. \A q \in R : /\ q \in L /\ q \in Requests /\ s[q].pc = "accepted"
                   /\ d.req[q].state = "RUNNING" /\ ~d.req[q].token
  BY <1>1 DEF Touches
<1>7. \A q \in R : /\ TicketOK(d.req[q], s[q].pc, s[q].victim, q \in L)
                   /\ TokenOK(d, q, LeftBy(s, q), q \in L)
  <2> TAKE q \in R
  <2>1. (q \in L) = TRUE
    BY <1>6
  <2>2. TicketOK(d.req[q], s[q].pc, s[q].victim, TRUE)
    BY <1>6 DEF TicketOK, Terminal
  <2>3. TokenOK(d, q, LeftBy(s, q), TRUE)
    BY <1>6 DEF TokenOK, Terminal
  <2> QED
    BY <2>1, <2>2, <2>3
<1>8. \A x \in Contexts : HolderOK(d, x)
  <2> TAKE x \in Contexts
  <2>1. CASE d.ctx[x] = c.ctx[x] /\ c.ctx[x].token \notin R
    BY <1>5, <2>1
  <2>2. CASE ~(d.ctx[x] = c.ctx[x] /\ c.ctx[x].token \notin R) /\ d.ctx[x].token = NoRequest
    <3>1. d.ctx[x] # c.ctx[x]
      BY <2>2, <1>2, RequestsAreNumbers
    <3>2. d.ctx[x].state \notin {"QUEUED", "RUNNING"}
      BY <2>2, <3>1 DEF Touches
    <3> QED
      BY <2>2, <3>2 DEF HolderOK
  <2>3. CASE ~(d.ctx[x] = c.ctx[x] /\ c.ctx[x].token \notin R) /\ d.ctx[x].token # NoRequest
    <3>1. d.ctx[x].token = c.ctx[x].token /\ c.ctx[x].token \in R
      BY <2>3 DEF Touches
    <3>2. HolderOK(c, x)
      BY DEF Reservations
    <3> QED
      BY <1>1, <1>6, <2>3, <3>1, <3>2 DEF HolderOK
  <2> QED
    BY <2>1, <2>2, <2>3
<1>9. ASSUME NEW i \in 1 .. Len(v.batch), v.batch[i] \in L PROVE LaneOK(d, v, i, v.batch[i])
  <2>1. CASE v.batch[i] \in R
    BY <1>9, <2>1 DEF InPlace
  <2>2. CASE v.batch[i] \notin R
    BY <1>5, <1>9, <2>2 DEF InPlace
  <2> QED
    BY <2>1, <2>2
<1>10. \A q \in Requests : /\ TicketOK(d.req[q], s[q].pc, s[q].victim, q \in L)
                           /\ TokenOK(d, q, LeftBy(s, q), q \in L)
  BY <1>5, <1>7
<1> QED
  BY <1>8, <1>9, <1>10 DEF Reservations

(* The worker's batch goes on to another place. *)
LEMMA BatchGoes ==
  ASSUME NEW c, NEW w, BatchOK(c, w), w.pc \notin {"idle", "pick", "exited"},
         NEW v \in WorkerType, v.batch = w.batch, v.pc \notin {"idle", "pick", "exited"},
         v.pc \in {"settle", "unreserved"} =>
           /\ v.failed \in 1 .. Len(w.batch) /\ v.lane \in 1 .. Len(w.batch)
           /\ v.pc = "unreserved" => v.lane > v.failed
           /\ Bound(c, w.batch[1])
  PROVE  BatchOK(c, v)
BY DEF BatchOK

(* The lanes of the batch are requests of their own, and run. *)
LEMMA LanesRun ==
  ASSUME NEW b, IInv(b)
  PROVE  /\ \A q \in LaneSet : submit[q].pc = "accepted" /\ rt.req[q].state = "RUNNING"
         /\ \A i \in 1 .. Len(worker.batch) :
              worker.batch[i] \in LaneSet /\ worker.batch[i] \in Requests
         /\ \A i, j \in 1 .. Len(worker.batch) : worker.batch[i] = worker.batch[j] => i = j
         /\ \A i, j \in 1 .. Len(worker.batch) : Bound(rt, worker.batch[i]) = Bound(rt, worker.batch[j])
         /\ Len(worker.batch) \in Nat
         /\ worker.pc \notin {"idle", "pick", "exited"} => 1 \in 1 .. Len(worker.batch)
<1>1. /\ BatchOK(rt, worker) /\ LaneSet \in SUBSET Requests
      /\ \A r \in Requests : Placed(rt.req[r], submit[r].pc, submit[r].victim, r \in LaneSet)
  BY HeldByInvariant
<1>2. \A q \in LaneSet : submit[q].pc = "accepted" /\ rt.req[q].state = "RUNNING"
  BY <1>1 DEF Placed
<1>3. \A i \in 1 .. Len(worker.batch) :
        worker.batch[i] \in LaneSet /\ worker.batch[i] \in Requests
  BY <1>1 DEF LaneSet, Lane
<1>4. worker.batch \in Seq(Requests)
  BY <1>1 DEF BatchOK, WorkerType
<1>5. \A i, j \in 1 .. Len(worker.batch) : worker.batch[i] = worker.batch[j] => i = j
  BY <1>1, <1>4 DEF BatchOK, IsInjective
<1>6. \A i, j \in 1 .. Len(worker.batch) : Bound(rt, worker.batch[i]) = Bound(rt, worker.batch[j])
  BY <1>1 DEF BatchOK
<1>7. worker.pc \notin {"idle", "pick", "exited"} => worker.batch # <<>>
  BY <1>1 DEF BatchOK
<1>8. Len(worker.batch) \in Nat /\ (worker.batch # <<>> => Len(worker.batch) # 0)
  BY <1>4
<1>9. worker.pc \notin {"idle", "pick", "exited"} => 1 \in 1 .. Len(worker.batch)
  BY <1>7, <1>8
<1> QED
  BY <1>2, <1>3, <1>5, <1>6, <1>8, <1>9

(* What a step of the worker must establish. *)
LaneStep(R) ==
  /\ R \in SUBSET LaneSet /\ Touches(rt, rt', R) /\ Results(rt', direct # "none")
  /\ InPlace(rt, rt', worker', LaneSet, R)
(* Where the worker's batch may go next. *)
LaneTurn ==
  /\ submit' = submit /\ direct' = direct /\ Light(rt, rt')
  /\ worker.pc \notin {"idle", "pick", "exited"} /\ worker'.pc \notin {"idle", "pick", "exited"}
  /\ worker' \in WorkerType /\ worker'.batch = worker.batch /\ worker'.staging = worker.staging
  /\ worker'.pc \in {"settle", "unreserved"} =>
       /\ worker'.failed \in 1 .. Len(worker.batch) /\ worker'.lane \in 1 .. Len(worker.batch)
       /\ worker'.pc = "unreserved" => worker'.lane > worker'.failed
       /\ Bound(rt, worker.batch[1])

(* A step of the worker on some of its lanes keeps the invariant. *)
LEMMA LaneStepSound ==
  ASSUME NEW b, IInv(b), LaneTurn, b => \E R : LaneStep(R)
  PROVE  Kept(b) /\ BatchOK(rt', worker')
<1>1. /\ Held(b) /\ rt \in CoordinatorType /\ BatchOK(rt, worker) /\ LaneSet \in SUBSET Requests
  BY HeldByInvariant
<1>2. \A q \in LaneSet : submit[q].pc = "accepted" /\ rt.req[q].state = "RUNNING"
  BY LanesRun
<1>3. Accounts(rt, submit, LaneSet, worker.staging)
  BY <1>1 DEF Held, Sound
<1>4. Eases(rt, rt') /\ Decided(rt, rt')
  BY LightEases, EasesDecided DEF LaneTurn
<1>5. Accounts(rt', submit, LaneSet, worker.staging)
  BY <1>3, <1>4, EaseKeeps
<1>6. BatchOK(rt', worker)
  BY <1>1, <1>3, <1>4, BatchStays
<1>7. LaneSet' = LaneSet
  BY DEF LaneTurn, LaneSet, Lane
<1>8. BatchOK(rt', worker')
  <2>1. \A q \in Requests : rt'.req[q].spec = rt.req[q].spec
    BY DEF LaneTurn, Light, SameCore, SameCourse
  <2>2. worker.batch[1] \in Requests
    BY LanesRun DEF LaneTurn
  <2>3. Bound(rt', worker.batch[1]) <=> Bound(rt, worker.batch[1])
    BY <2>1, <2>2 DEF Bound
  <2> DEFINE v == worker'
  <2>4. /\ v \in WorkerType /\ v.batch = worker.batch /\ v.pc \notin {"idle", "pick", "exited"}
        /\ worker.pc \notin {"idle", "pick", "exited"}
        /\ v.pc \in {"settle", "unreserved"} =>
             /\ v.failed \in 1 .. Len(worker.batch) /\ v.lane \in 1 .. Len(worker.batch)
             /\ v.pc = "unreserved" => v.lane > v.failed
             /\ Bound(rt', worker.batch[1])
    BY <2>3 DEF LaneTurn
  <2> HIDE DEF v
  <2>5. BatchOK(rt', v)
    BY <1>6, <2>4, BatchGoes
  <2> QED
    BY <2>5 DEF v
<1>9. ASSUME b PROVE Reservations(rt', submit, worker', LaneSet, direct # "none")
  <2>1. PICK R : LaneStep(R)
    BY <1>9
  <2>2. Reservations(rt, submit, worker, LaneSet, direct # "none")
    BY <1>1, <1>9 DEF Held, Sound
  <2> DEFINE running == direct # "none"  v == worker'
  <2>3. /\ R \in SUBSET LaneSet /\ Light(rt, rt') /\ Touches(rt, rt', R) /\ Results(rt', running)
        /\ InPlace(rt, rt', v, LaneSet, R)
    BY <2>1 DEF LaneStep, LaneTurn
  <2>4. Reservations(rt, submit, worker, LaneSet, running)
    BY <2>2
  <2> HIDE DEF running, v
  <2>5. Reservations(rt', submit, v, LaneSet, running)
    BY <1>1, <1>2, <2>3, <2>4, LanesHold
  <2> QED
    BY <2>5 DEF running, v
<1>10. Sound(b, rt', submit', worker', LaneSet', worker'.staging, direct' # "none")
  BY <1>5, <1>7, <1>9 DEF Sound, LaneTurn
<1> QED
  BY <1>4, <1>8, <1>10 DEF Kept

(* Where the lanes of the batch stand, and what they have of contexts. *)
LEMMA LanesStand ==
  ASSUME NEW b, IInv(b), b
  PROVE  /\ Results(rt, direct # "none")
         /\ \A i \in 1 .. Len(worker.batch) : LaneOK(rt, worker, i, worker.batch[i])
         /\ \A r \in LaneSet : rt.req[r].token =>
              /\ Bound(rt, r) /\ ContextOf(rt, r).token = r /\ ContextOf(rt, r).call = r
              /\ ContextOf(rt, r).state \in {"QUEUED", "CANCELLED"}
<1>1. Reservations(rt, submit, worker, LaneSet, direct # "none") /\ LaneSet \in SUBSET Requests
  BY HeldByInvariant DEF Held, Sound
<1>2. \A i \in 1 .. Len(worker.batch) : worker.batch[i] \in LaneSet
  BY LanesRun
<1> QED
  BY <1>1, <1>2 DEF Reservations, TokenOK

(* A context begins to run, or settles, and its holder stays. *)
LEMMA ContextSteps ==
  ASSUME NEW x \in ContextType
  PROVE  /\ Claim(x) \in ContextType /\ Claim(x).token = x.token /\ Claim(x).state = "RUNNING"
         /\ \A outcome : /\ Settle(x, outcome) \in ContextType /\ Settle(x, outcome).token = x.token
                         /\ Settle(x, outcome).call = x.call /\ Settle(x, outcome).cancel = x.cancel
                         /\ Settle(x, outcome).state \notin {"QUEUED", "RUNNING"}
BY DEF Claim, Settle, ContextType, ContextStates

(* The contexts of the lanes in S are claimed. *)
TakesUp(c, d, S) ==
  /\ Light(c, d) /\ d.results = c.results
  /\ \A q \in Requests : d.req[q].ticket = c.req[q].ticket
  /\ \A q \in S : ~d.req[q].token
  /\ \A q \in Requests : q \notin S => d.req[q] = c.req[q]
  /\ \A x \in Contexts : d.ctx[x] = IF x \in ContextsOf(c, S) THEN Claim(c.ctx[x]) ELSE c.ctx[x]
PutTwo(c, req, ctx) == [c EXCEPT !.req = req, !.ctx = ctx]
(* Requests and contexts are replaced. *)
LEMMA TwoPut ==
  ASSUME NEW c \in CoordinatorType, NEW req \in [Requests -> RequestType], NEW ctx \in [Contexts -> ContextType]
  PROVE  LET d == PutTwo(c, req, ctx)
         IN  /\ d \in CoordinatorType /\ d.req = req /\ d.ctx = ctx
             /\ d.results = c.results /\ SameLists(c, d) /\ SameCounters(c, d)
<1>1. c \in CoordinatorType
  OBVIOUS
<1> QED
  BY <1>1 DEF PutTwo, CoordinatorType, SameLists, SameCounters

(* That is what ClaimLanes does. *)
LEMMA ClaimLanesEffect ==
  ASSUME NEW c \in CoordinatorType, NEW S \in SUBSET Requests
  PROVE  TakesUp(c, ClaimLanes(c, S), S)
<1> DEFINE req == [r \in Requests |-> IF r \in S THEN [c.req[r] EXCEPT !.token = FALSE] ELSE c.req[r]]
           ctx == [x \in Contexts |-> IF x \in ContextsOf(c, S) THEN Claim(c.ctx[x]) ELSE c.ctx[x]]
           d == PutTwo(c, req, ctx)
<1>1. /\ \A r \in Requests : c.req[r] \in RequestType
      /\ \A x \in Contexts : c.ctx[x] \in ContextType
  BY Typed
<1>2. \A r \in Requests : LET p == [c.req[r] EXCEPT !.token = FALSE]
                          IN  p \in RequestType /\ ~p.token /\ p.ticket = c.req[r].ticket /\ SameCore(c.req[r], p)
  BY <1>1, TokenField
<1>3. \A r \in Requests : req[r] = IF r \in S THEN [c.req[r] EXCEPT !.token = FALSE] ELSE c.req[r]
  OBVIOUS
<1>4. /\ \A r \in Requests : req[r] \in RequestType /\ req[r].ticket = c.req[r].ticket
                             /\ SameCore(c.req[r], req[r])
      /\ \A r \in S : ~req[r].token
  <2>1. ASSUME NEW r \in Requests
        PROVE  /\ req[r] \in RequestType /\ req[r].ticket = c.req[r].ticket /\ SameCore(c.req[r], req[r])
               /\ r \in S => ~req[r].token
    <3>1. CASE r \in S
      BY <1>2, <1>3, <3>1
    <3>2. CASE r \notin S
      <4>1. req[r] = c.req[r]
        BY <1>3, <3>2
      <4> QED
        BY <1>1, <3>2, <4>1 DEF SameCore, SameClaims, SameCourse
    <3> QED
      BY <3>1, <3>2
  <2> QED
    BY <2>1
<1>5. ctx \in [Contexts -> ContextType]
  BY <1>1, ContextSteps
<1>6. req \in [Requests -> RequestType]
  BY <1>4
<1>7. \A x \in Contexts : ctx[x] = IF x \in ContextsOf(c, S) THEN Claim(c.ctx[x]) ELSE c.ctx[x]
  OBVIOUS
<1>8. ClaimLanes(c, S) = d
  BY DEF ClaimLanes, PutTwo
<1> HIDE DEF req, ctx
<1>9. /\ d \in CoordinatorType /\ d.req = req /\ d.ctx = ctx
      /\ d.results = c.results /\ SameLists(c, d) /\ SameCounters(c, d)
  BY <1>5, <1>6, TwoPut
<1> HIDE DEF d
<1>10. Light(c, d)
  BY <1>4, <1>9 DEF Light
<1>11. TakesUp(c, d, S)
  BY <1>3, <1>4, <1>7, <1>9, <1>10 DEF TakesUp
<1> QED
  BY <1>8, <1>11

(* Nothing but the worker's place changes. *)
LEMMA StaysPut ==
  ASSUME NEW b, IInv(b), b, rt' = rt,
         \A i \in 1 .. Len(worker.batch) :
           LaneOK(rt, worker, i, worker.batch[i]) => LaneOK(rt, worker', i, worker.batch[i]),
         worker'.batch = worker.batch
  PROVE  LaneStep({})
<1>1. Touches(rt, rt', {})
  BY DEF Touches, SameHold
<1>2. InPlace(rt, rt', worker', LaneSet, {})
  BY LanesStand DEF InPlace
<1>3. Results(rt', direct # "none")
  BY LanesStand
<1> QED
  BY <1>1, <1>2, <1>3 DEF LaneStep

(* Different lanes have different contexts. *)
LEMMA OwnContexts ==
  ASSUME NEW c \in CoordinatorType, NEW q \in Requests, NEW r \in Requests, q # r,
         ContextOf(c, q).token = q, ContextOf(c, r).token = r
  PROVE  c.req[q].spec.context # c.req[r].spec.context
BY DEF ContextOf

(* Claimed lanes run. *)
LEMMA TakesUpTouches ==
  ASSUME NEW c \in CoordinatorType, NEW S \in SUBSET Requests, NEW d, TakesUp(c, d, S),
         \A q \in S : Reserved(c, q) /\ Bound(c, q) /\ ContextOf(c, q).token = q
  PROVE  /\ Touches(c, d, S) /\ \A q \in S : Runs(d, q) /\ Bound(d, q)
         /\ \A running : Results(c, running) => Results(d, running)
<1>1. \A x \in Contexts : c.ctx[x] \in ContextType
  BY Typed
<1>2. \A q \in S : q \in Requests /\ c.req[q].spec.context \in Contexts /\ c.req[q].spec.context \in ContextsOf(c, S)
  BY Typed DEF ContextsOf
<1>3. \A q \in Requests : d.req[q].spec = c.req[q].spec /\ d.req[q].result = c.req[q].result
  BY DEF TakesUp, Light, SameCore, SameCourse
<1>4. \A x \in Contexts : x \in ContextsOf(c, S) => /\ d.ctx[x].token = c.ctx[x].token
                                                    /\ d.ctx[x].state = "RUNNING"
                                                    /\ c.ctx[x].token \in S
  <2>1. ASSUME NEW x \in Contexts, x \in ContextsOf(c, S)
        PROVE  d.ctx[x].token = c.ctx[x].token /\ d.ctx[x].state = "RUNNING" /\ c.ctx[x].token \in S
    <3>1. d.ctx[x] = Claim(c.ctx[x])
      BY <2>1 DEF TakesUp
    <3>2. PICK q \in S : x = c.req[q].spec.context
      BY <2>1 DEF ContextsOf
    <3>3. c.ctx[x].token = q
      BY <3>2 DEF ContextOf
    <3> QED
      BY <1>1, <3>1, <3>3, ContextSteps
  <2> QED
    BY <2>1
<1>5. \A q \in S : Runs(d, q) /\ Bound(d, q)
  <2> TAKE q \in S
  <2>1. d.req[q].spec = c.req[q].spec /\ ~d.req[q].token /\ d.req[q].ticket = c.req[q].ticket
    BY <1>2, <1>3 DEF TakesUp
  <2>2. c.req[q].ticket /\ Bound(c, q) /\ c.ctx[c.req[q].spec.context].token = q
    BY DEF Reserved, ContextOf
  <2>3. d.ctx[c.req[q].spec.context].token = q /\ d.ctx[c.req[q].spec.context].state = "RUNNING"
    BY <1>2, <1>4, <2>2
  <2> QED
    BY <2>1, <2>2, <2>3 DEF Runs, Bound, ContextOf
<1>6. \A x \in Contexts : x \in ContextsOf(c, S) \/ d.ctx[x] = c.ctx[x]
  BY DEF TakesUp
<1>7. Touches(c, d, S)
  <2>1. \A q \in Requests \ S : SameHold(c.req[q], d.req[q])
    BY DEF TakesUp, SameHold
  <2>2. \A q \in S : ~d.req[q].token
    BY DEF TakesUp
  <2>3. NoRequest \notin S
    BY RequestsAreNumbers
  <2>4. ASSUME NEW x \in Contexts, d.ctx[x] # c.ctx[x]
        PROVE  /\ {c.ctx[x].token, d.ctx[x].token} \subseteq S \cup {NoRequest}
               /\ d.ctx[x].token \in {c.ctx[x].token, NoRequest}
               /\ d.ctx[x].token # NoRequest
    BY <1>4, <1>6, <2>3, <2>4
  <2> QED
    BY <2>1, <2>2, <2>4 DEF Touches
<1>8. ASSUME NEW running, Results(c, running) PROVE Results(d, running)
  <2>1. \A q \in Requests : d.req[q].ticket = c.req[q].ticket
                            /\ (Delivers(d.req[q]) <=> Delivers(c.req[q]))
    BY <1>3 DEF Delivers, TakesUp
  <2>2. d.results = c.results
    BY DEF TakesUp
  <2> QED
    BY <1>8, <2>1, <2>2, ResultsSame
<1> QED
  BY <1>5, <1>7, <1>8

(* What is known when the route is taken. *)
RouteTurn(pc) ==
  /\ worker.pc = "route" /\ submit' = submit /\ direct' = direct
  /\ worker'.pc = pc /\ worker' \in WorkerType
  /\ worker'.batch = worker.batch /\ worker'.staging = worker.staging
(* The route is taken, and the contexts of the lanes are claimed. *)
LEMMA EnterRouteSound ==
  ASSUME NEW b, IInv(b), EnterRoute
  PROVE  Kept(b) /\ BatchOK(rt', worker')
<1>1. /\ rt \in CoordinatorType /\ BatchOK(rt, worker) /\ LaneSet \in SUBSET Requests
  BY HeldByInvariant
<1>2. RouteTurn("run")
  BY <1>1 DEF EnterRoute, Step, RouteTurn, BatchOK, WorkerType
<1>3. /\ 1 \in 1 .. Len(worker.batch)
      /\ \A i \in 1 .. Len(worker.batch) : worker.batch[i] \in LaneSet /\ worker.batch[i] \in Requests
      /\ \A i \in 1 .. Len(worker.batch) : Bound(rt, worker.batch[i]) <=> BoundBatch
  BY <1>2, LanesRun DEF RouteTurn, BoundBatch, Lane
<1>4. \A q \in LaneSet : \E i \in 1 .. Len(worker.batch) : q = worker.batch[i]
  BY DEF LaneSet, Lane
<1>5. Light(rt, rt')
  <2>1. TakesUp(rt, ClaimLanes(rt, LaneSet), LaneSet)
    BY <1>1, ClaimLanesEffect
  <2>2. Light(rt, ClaimLanes(rt, LaneSet))
    BY <2>1 DEF TakesUp
  <2>3. Light(rt, rt)
    BY <1>1 DEF Light, SameCore, SameClaims, SameCourse, SameLists, SameCounters
  <2> QED
    BY <2>2, <2>3 DEF EnterRoute
<1>6. LaneTurn
  BY <1>2, <1>5 DEF LaneTurn, RouteTurn
<1>7. ASSUME b, ~BoundBatch PROVE LaneStep({})
  <2>1. rt' = rt
    BY <1>7 DEF EnterRoute
  <2>2. \A i \in 1 .. Len(worker.batch) :
          LaneOK(rt, worker, i, worker.batch[i]) => LaneOK(rt, worker', i, worker.batch[i])
    BY <1>3, <1>7 DEF LaneOK
  <2>3. worker'.batch = worker.batch
    BY <1>2 DEF RouteTurn
  <2> QED
    BY <1>7, <2>1, <2>2, <2>3, StaysPut
<1>8. ASSUME b, BoundBatch PROVE LaneStep(LaneSet)
  <2>1. TakesUp(rt, rt', LaneSet)
    BY <1>1, <1>8, ClaimLanesEffect DEF EnterRoute
  <2>2. \A q \in LaneSet : Reserved(rt, q) /\ Bound(rt, q)
    <3>1. \A i \in 1 .. Len(worker.batch) : LaneOK(rt, worker, i, worker.batch[i])
      BY <1>8, LanesStand
    <3> QED
      BY <1>2, <1>3, <1>4, <1>8, <3>1 DEF LaneOK, LaneBound, RouteTurn
  <2>3. \A q \in LaneSet : ContextOf(rt, q).token = q
    BY <1>8, <2>2, LanesStand DEF Reserved
  <2> DEFINE d == rt'  running == direct # "none"
  <2>4. TakesUp(rt, d, LaneSet)
    BY <2>1
  <2> HIDE DEF d, running
  <2>5. /\ Touches(rt, d, LaneSet) /\ \A q \in LaneSet : Runs(d, q) /\ Bound(d, q)
        /\ Results(rt, running) => Results(d, running)
    BY <1>1, <2>2, <2>3, <2>4, TakesUpTouches
  <2>6. Results(rt, running)
    BY <1>8, LanesStand DEF running
  <2>7. InPlace(rt, d, worker', LaneSet, LaneSet)
    BY <1>2, <2>5 DEF InPlace, LaneOK, LaneBound, RouteTurn
  <2> QED
    BY <2>5, <2>6, <2>7 DEF LaneStep, d, running
<1>9. b => \E R : LaneStep(R)
  BY <1>7, <1>8
<1> QED
  BY <1>6, <1>9, LaneStepSound

(* What becomes of a lane that gives its reservation back. *)
LEMMA RefusedLane ==
  ASSUME NEW c \in CoordinatorType, NEW r \in Requests, Reserved(c, r), Bound(c, r),
         ContextOf(c, r).token = r, ContextOf(c, r).call = r,
         ContextOf(c, r).state \in {"QUEUED", "CANCELLED"}
  PROVE  LET d == RefuseLane(c, r)
         IN  /\ Touches(c, d, {r}) /\ Released(d, r) /\ Bound(d, r)
             /\ \A running : Results(c, running) => Results(d, running)
<1> DEFINE d == RefuseLane(c, r)  x == ContextOf(c, r)  y == c.req[r].spec.context
<1>1. c.req[r].token /\ c.req[r].ticket
  BY DEF Reserved
<1>2. y \in Contexts /\ x \in ContextType /\ x = c.ctx[y]
  BY Typed DEF ContextOf
<1>3. UnreserveOK(x, r)
  BY DEF UnreserveOK
<1>4. /\ Light(c, d) /\ Only(c, d, r) /\ ~d.req[r].token
      /\ ~d.req[r].ticket /\ d.results = c.results - Release(c.req[r].ticket)
      /\ d.ctx[y] = Unreserve(x, r)
      /\ \A z \in Contexts : z # y => d.ctx[z] = c.ctx[z]
  BY <1>1, <1>3, InputsCleared DEF RefuseLane
<1>5. d.ctx[y].token = NoRequest /\ d.ctx[y].state \in {"READY", "CANCELLED"}
  BY <1>2, <1>3, <1>4, UnreserveFrees
<1>6. c.ctx[y].token = r
  BY <1>2
<1> HIDE DEF d, x
<1>7. /\ d \in CoordinatorType /\ d.req[r].spec = c.req[r].spec
      /\ \A q \in Requests : d.req[q].result = c.req[q].result
  BY <1>4 DEF Light, SameCore, SameCourse
<1>8. Touches(c, d, {r})
  <2>1. \A q \in Requests \ {r} : SameHold(c.req[q], d.req[q])
    BY <1>4 DEF Only, SameHold
  <2>2. \A q \in {r} : ~d.req[q].token
    BY <1>4
  <2>3. ASSUME NEW z \in Contexts, d.ctx[z] # c.ctx[z]
        PROVE  /\ {c.ctx[z].token, d.ctx[z].token} \subseteq {r} \cup {NoRequest}
               /\ d.ctx[z].token \in {c.ctx[z].token, NoRequest}
               /\ d.ctx[z].state \notin {"QUEUED", "RUNNING"}
    <3>1. z = y
      BY <1>4, <2>3
    <3> QED
      BY <1>5, <1>6, <3>1
  <2> QED
    BY <2>1, <2>2, <2>3 DEF Touches
<1>9. Released(d, r) /\ Bound(d, r)
  <2>1. d.ctx[d.req[r].spec.context].token # r
    BY <1>5, <1>7, RequestsAreNumbers
  <2> QED
    BY <1>4, <1>7, <2>1 DEF Released, Bound, ContextOf
<1>10. ASSUME NEW running, Results(c, running) PROVE Results(d, running)
  <2>1. \A q \in Requests : q # r => d.req[q].ticket = c.req[q].ticket
                                     /\ (Delivers(d.req[q]) <=> Delivers(c.req[q]))
    BY <1>4 DEF Only
  <2>2. Delivers(d.req[r]) <=> Delivers(c.req[r])
    BY <1>7 DEF Delivers
  <2>3. /\ Release(c.req[r].ticket) = 1 /\ Release(d.req[r].ticket) = 0
        /\ Release(Delivers(c.req[r])) \in Int /\ Release(running) \in Int
        /\ Release(Delivers(d.req[r])) = Release(Delivers(c.req[r]))
    BY <1>1, <1>4, <2>2, ReleaseCounts DEF Release
  <2>4. c.results \in Int /\ c.results <= MaxResults /\ MaxResults \in Int
    BY <1>10, RequestConstants DEF Results, CoordinatorType
  <2>5. /\ d.results = c.results - Release(c.req[r].ticket) + Release(d.req[r].ticket)
                         - Release(Delivers(c.req[r])) + Release(Delivers(d.req[r]))
                         - Release(running) + Release(running)
        /\ d.results <= MaxResults
    BY <1>4, <2>3, <2>4
  <2> QED
    BY <1>7, <1>10, <2>1, <2>5, ResultsOne
<1> QED
  BY <1>8, <1>9, <1>10 DEF d

(* Giving up a lane is a matter of outputs and contexts. *)
LEMMA RefusedIsLight ==
  ASSUME NEW c \in CoordinatorType, NEW r \in Requests
  PROVE  Light(c, RefuseLane(c, r))
BY InputsCleared DEF RefuseLane

(* The worker's place becomes v, and its batch goes on. *)
Turns(v) ==
  /\ v \in WorkerType /\ v.batch = worker.batch /\ v.staging = worker.staging
(* A request alone is refused. *)
LEMMA RefuseSingleSound ==
  ASSUME NEW b, IInv(b), RefuseSingle
  PROVE  Kept(b) /\ BatchOK(rt', worker')
<1> DEFINE r == Lane(1)
<1>1. /\ rt \in CoordinatorType /\ BatchOK(rt, worker) /\ LaneSet \in SUBSET Requests /\ now \in Nat
  BY HeldByInvariant
<1>2. /\ worker.pc = "route" /\ submit' = submit /\ direct' = direct /\ rt' = RefuseLane(rt, r)
      /\ Len(worker.batch) = 1 /\ Bound(rt, r)
      /\ worker' = [worker EXCEPT !.pc = "done", !.outcome = "REFUSED", !.at = now]
  BY DEF RefuseSingle, Single, BoundBatch
<1>3. Turns(worker') /\ worker'.pc = "done" /\ worker'.outcome = "REFUSED"
  BY <1>1, <1>2 DEF Turns, BatchOK, WorkerType
<1>4. r \in LaneSet /\ r \in Requests /\ \A i \in 1 .. Len(worker.batch) : i = 1 /\ worker.batch[i] = r
  BY <1>2, LanesRun DEF Lane
<1> HIDE DEF r
<1>5. LaneTurn
  <2>1. Light(rt, rt')
    BY <1>1, <1>2, <1>4, RefusedIsLight
  <2> QED
    BY <1>2, <1>3, <2>1 DEF LaneTurn, Turns
<1>6. ASSUME b PROVE LaneStep({r})
  <2>1. /\ Results(rt, direct # "none") /\ LaneOK(rt, worker, 1, r)
        /\ rt.req[r].token => /\ ContextOf(rt, r).token = r /\ ContextOf(rt, r).call = r
                              /\ ContextOf(rt, r).state \in {"QUEUED", "CANCELLED"}
    <3>1. 1 \in 1 .. Len(worker.batch) /\ worker.batch[1] = r
      BY <1>2, <1>4
    <3> QED
      BY <1>4, <1>6, <3>1, LanesStand
  <2>2. Reserved(rt, r)
    BY <1>2, <2>1 DEF LaneOK, LaneBound
  <2>3. /\ Touches(rt, rt', {r}) /\ Released(rt', r) /\ Bound(rt', r)
        /\ \A running : Results(rt, running) => Results(rt', running)
    BY <1>1, <1>2, <1>4, <2>1, <2>2, RefusedLane DEF Reserved
  <2>4. InPlace(rt, rt', worker', LaneSet, {r})
    BY <1>3, <1>4, <2>3 DEF InPlace, LaneOK, LaneBound, Turns
  <2>5. {r} \in SUBSET LaneSet
    BY <1>4
  <2>6. Results(rt', direct # "none")
    BY <2>1, <2>3
  <2> QED
    BY <2>3, <2>4, <2>5, <2>6 DEF LaneStep
<1> QED
  BY <1>5, <1>6, LaneStepSound

(* A lane that was not begun gives its reservation back. *)
LEMMA UnreserveLaneSound ==
  ASSUME NEW b, IInv(b), UnreserveLane
  PROVE  Kept(b) /\ BatchOK(rt', worker')
<1> DEFINE l == worker.lane  r == Lane(l)
<1>1. /\ rt \in CoordinatorType /\ BatchOK(rt, worker) /\ LaneSet \in SUBSET Requests
  BY HeldByInvariant
<1>2. /\ worker.pc = "settle" /\ submit' = submit /\ direct' = direct /\ rt' = RefuseLane(rt, r)
      /\ l > worker.failed /\ worker' = [worker EXCEPT !.pc = "unreserved"]
  BY DEF UnreserveLane, Step
<1>3. /\ Turns(worker') /\ worker'.pc = "unreserved" /\ worker'.lane = l /\ worker'.failed = worker.failed
      /\ worker.failed \in 1 .. Len(worker.batch) /\ l \in 1 .. Len(worker.batch)
      /\ Bound(rt, worker.batch[1])
  BY <1>1, <1>2 DEF Turns, BatchOK, WorkerType
<1>4. /\ r \in LaneSet /\ r \in Requests /\ Bound(rt, r) /\ r = worker.batch[l]
      /\ \A i \in 1 .. Len(worker.batch) : Bound(rt, worker.batch[i]) /\ (worker.batch[i] = r => i = l)
      /\ Len(worker.batch) \in Nat
  BY <1>2, <1>3, LanesRun DEF Lane
<1> HIDE DEF r, l
<1>5. LaneTurn
  <2>1. Light(rt, rt')
    BY <1>1, <1>2, <1>4, RefusedIsLight
  <2> QED
    BY <1>2, <1>3, <2>1 DEF LaneTurn, Turns
<1>6. ASSUME b PROVE LaneStep({r})
  <2>1. /\ Results(rt, direct # "none") /\ \A i \in 1 .. Len(worker.batch) : LaneOK(rt, worker, i, worker.batch[i])
        /\ rt.req[r].token => /\ ContextOf(rt, r).token = r /\ ContextOf(rt, r).call = r
                              /\ ContextOf(rt, r).state \in {"QUEUED", "CANCELLED"}
    BY <1>4, <1>6, LanesStand
  <2>2. Reserved(rt, r)
    <3>1. LaneBound(rt, worker, l, r)
      BY <1>3, <1>4, <2>1 DEF LaneOK
    <3>2. l = worker.lane /\ l \in Int /\ worker.failed \in Int
      BY <1>3 DEF l
    <3> QED
      BY <1>2, <3>1, <3>2 DEF LaneBound
  <2>3. /\ Touches(rt, rt', {r}) /\ Released(rt', r) /\ Bound(rt', r)
        /\ \A running : Results(rt, running) => Results(rt', running)
    BY <1>1, <1>2, <1>4, <2>1, <2>2, RefusedLane DEF Reserved
  <2>4. ASSUME NEW i \in 1 .. Len(worker.batch)
        PROVE  LaneOK(IF worker.batch[i] \in {r} THEN rt' ELSE rt, worker', i, worker.batch[i])
    <3>1. CASE i = l
      <4>1. LaneBound(rt', worker', i, r)
        BY <1>2, <1>3, <2>3, <3>1 DEF LaneBound
      <4> QED
        BY <1>4, <2>3, <3>1, <4>1 DEF LaneOK
    <3>2. CASE i # l
      <4>1. worker.batch[i] \notin {r} /\ LaneBound(rt, worker, i, worker.batch[i])
        BY <1>4, <2>1, <3>2 DEF LaneOK
      <4>2. worker.lane = l
        BY DEF l
      <4>3. LaneBound(rt, worker', i, worker.batch[i])
        BY <1>2, <1>3, <3>2, <4>1, <4>2 DEF LaneBound
      <4> QED
        BY <1>4, <4>1, <4>3 DEF LaneOK
    <3> QED
      BY <3>1, <3>2
  <2>5. {r} \in SUBSET LaneSet
    BY <1>4
  <2>6. Results(rt', direct # "none")
    BY <2>1, <2>3
  <2>7. InPlace(rt, rt', worker', LaneSet, {r})
    BY <1>3, <2>4 DEF InPlace, Turns
  <2> QED
    BY <2>3, <2>5, <2>6, <2>7 DEF LaneStep
<1> QED
  BY <1>5, <1>6, LaneStepSound

(* One lane's context settles, or the request lets go of it. *)
LEMMA SettledLane ==
  ASSUME NEW c \in CoordinatorType, NEW r \in Requests, Bound(c, r), ~c.req[r].token,
         ContextOf(c, r).token \in {r, NoRequest}, NEW outcome
  PROVE  LET d == SetCtx(c, r, Settle(ContextOf(c, r), outcome))
         IN  /\ Light(c, d) /\ Touches(c, d, {r}) /\ Bound(d, r) /\ d.req = c.req
             /\ ContextOf(c, r).token = r => Settled(d, r)
             /\ Released(c, r) => Released(d, r)
             /\ \A running : Results(c, running) => Results(d, running)
<1> DEFINE x == Settle(ContextOf(c, r), outcome)  d == SetCtx(c, r, x)  y == c.req[r].spec.context
<1>1. y \in Contexts /\ ContextOf(c, r) \in ContextType /\ ContextOf(c, r) = c.ctx[y]
  BY Typed DEF ContextOf
<1>2. /\ x \in ContextType /\ x.token = c.ctx[y].token /\ x.state \notin {"QUEUED", "RUNNING"}
  BY <1>1, ContextSteps
<1> HIDE DEF x
<1>3. /\ Light(c, d) /\ d.req = c.req /\ d.results = c.results
      /\ d.ctx[y] = x /\ \A z \in Contexts : z # y => d.ctx[z] = c.ctx[z]
  BY <1>2, ContextSet
<1> HIDE DEF d
<1>4. Touches(c, d, {r})
  <2>1. \A q \in Requests \ {r} : SameHold(c.req[q], d.req[q])
    BY <1>3 DEF SameHold
  <2>2. \A q \in {r} : ~d.req[q].token
    BY <1>3
  <2>3. ASSUME NEW z \in Contexts, d.ctx[z] # c.ctx[z]
        PROVE  /\ {c.ctx[z].token, d.ctx[z].token} \subseteq {r} \cup {NoRequest}
               /\ d.ctx[z].token \in {c.ctx[z].token, NoRequest}
               /\ d.ctx[z].state \notin {"QUEUED", "RUNNING"}
    <3>1. z = y
      BY <1>3, <2>3
    <3> QED
      BY <1>1, <1>2, <1>3, <3>1
  <2> QED
    BY <2>1, <2>2, <2>3 DEF Touches
<1>5. ContextOf(d, r) = x /\ Bound(d, r)
  BY <1>3 DEF ContextOf, Bound
<1>6. ContextOf(c, r).token = r => Settled(d, r)
  BY <1>1, <1>2, <1>3, <1>5 DEF Settled
<1>7. Released(c, r) => Released(d, r)
  BY <1>1, <1>2, <1>3, <1>5 DEF Released
<1>8. ASSUME NEW running, Results(c, running) PROVE Results(d, running)
  BY <1>3, <1>8 DEF Results
<1> QED
  BY <1>3, <1>4, <1>5, <1>6, <1>7, <1>8 DEF d, x

(* The context of a lane settles. *)
LEMMA SettleLaneSound ==
  ASSUME NEW b, IInv(b), b => LaneUnclaimed, SettleLane
  PROVE  Kept(b) /\ BatchOK(rt', worker')
<1> DEFINE l == worker.lane  r == Lane(l)  x == ContextOf(rt, r)
           outcome == IF l < worker.failed /\ ~x.cancel THEN "FAIL" ELSE "REFUSED"
           d == SetCtx(rt, r, Settle(x, outcome))
           last == l = Len(worker.batch)
<1>1. /\ rt \in CoordinatorType /\ BatchOK(rt, worker) /\ LaneSet \in SUBSET Requests /\ now \in Nat
  BY HeldByInvariant
<1>2. /\ worker.pc = "unreserved" \/ (worker.pc = "settle" /\ l <= worker.failed)
      /\ submit' = submit /\ direct' = direct
      /\ rt' = IF l > worker.failed /\ x.token # NoRequest THEN TicketRelease(d, x.token) ELSE d
      /\ worker' = [worker EXCEPT !.pc = IF last THEN "done" ELSE "settle", !.lane = l + 1,
                                  !.outcome = "REFUSED", !.at = now]
  BY DEF SettleLane
<1>3. /\ worker.failed \in 1 .. Len(worker.batch) /\ l \in 1 .. Len(worker.batch)
      /\ Bound(rt, worker.batch[1])
      /\ worker.pc = "unreserved" => l > worker.failed
  BY <1>1, <1>2 DEF BatchOK
<1>4. /\ Turns(worker') /\ worker'.pc = (IF last THEN "done" ELSE "settle")
      /\ worker'.lane = l + 1 /\ worker'.failed = worker.failed /\ worker'.outcome = "REFUSED"
  <2>1. worker \in WorkerType
    BY <1>1 DEF BatchOK
  <2>2. l + 1 \in Nat
    BY <2>1 DEF WorkerType
  <2> DEFINE pc == IF last THEN "done" ELSE "settle"  next == l + 1
  <2>3. pc \in {"done", "settle"} /\ next \in Nat
    BY <2>2
  <2>4. worker' = [worker EXCEPT !.pc = pc, !.lane = next, !.outcome = "REFUSED", !.at = now]
    BY <1>2
  <2> HIDE DEF pc, next
  <2>5. /\ Turns(worker') /\ worker'.pc = pc
        /\ worker'.lane = next /\ worker'.failed = worker.failed /\ worker'.outcome = "REFUSED"
    BY <1>1, <2>1, <2>3, <2>4 DEF Turns, WorkerType
  <2> QED
    BY <2>5 DEF pc, next
<1>5. /\ r \in LaneSet /\ r \in Requests /\ Bound(rt, r) /\ r = worker.batch[l]
      /\ \A i \in 1 .. Len(worker.batch) : Bound(rt, worker.batch[i]) /\ (worker.batch[i] = r => i = l)
      /\ Len(worker.batch) \in Nat
  BY <1>2, <1>3, LanesRun DEF Lane
<1>6. last <=> l = Len(worker.batch)
  OBVIOUS
<1>7. x = ContextOf(rt, r) /\ x \in ContextType /\ l = worker.lane
  BY <1>1, <1>5, Typed
<1>8. Light(rt, d)
  <2>1. Settle(x, outcome) \in ContextType
    BY <1>7, ContextSteps
  <2> QED
    BY <1>1, <1>5, <2>1, ContextSet
<1> HIDE DEF r, l, last, d, outcome, x
<1>9. LaneTurn
  <2>1. Light(rt, rt')
    <3>1. CASE rt' = d
      BY <1>8, <3>1
    <3>2. CASE x.token # NoRequest /\ rt' = TicketRelease(d, x.token)
      <4>1. x.token \in Requests /\ d \in CoordinatorType
        BY <1>7, <1>8, <3>2 DEF ContextType, Light
      <4>2. Light(d, rt')
        BY <3>2, <4>1, TicketReleased
      <4> QED
        BY <1>8, <4>2, LightIsTransitive
    <3> QED
      BY <1>2, <3>1, <3>2
  <2>2. worker'.pc = "settle" => worker'.lane \in 1 .. Len(worker.batch)
    BY <1>3, <1>4, <1>5, <1>6
  <2> QED
    BY <1>2, <1>3, <1>4, <2>1, <2>2 DEF LaneTurn, Turns
<1>10. ASSUME b PROVE LaneStep({r})
  <2>1. /\ Results(rt, direct # "none")
        /\ \A i \in 1 .. Len(worker.batch) : LaneOK(rt, worker, i, worker.batch[i])
    BY <1>10, LanesStand
  <2>2. \A i \in 1 .. Len(worker.batch) : LaneBound(rt, worker, i, worker.batch[i])
    BY <1>5, <2>1 DEF LaneOK
  <2>3. worker.failed \in Int /\ l \in Int
    BY <1>3
  <2>4. /\ ~rt.req[r].token /\ x.token \in {r, NoRequest} /\ (x.token = r \/ Released(rt, r))
        /\ l > worker.failed => x.token = NoRequest
    <3>1. LaneBound(rt, worker, l, r)
      BY <1>3, <1>5, <2>2
    <3>2. CASE worker.pc = "unreserved"
      <4>1. x.token = NoRequest
        BY <1>5, <1>7, <1>10, <3>2 DEF LaneUnclaimed, Lane
      <4>2. Released(rt, r)
        BY <1>3, <1>7, <2>3, <3>1, <3>2 DEF LaneBound
      <4> QED
        BY <4>1, <4>2 DEF Released
    <3>3. CASE worker.pc = "settle" /\ l <= worker.failed
      <4>1. Runs(rt, r) \/ Settled(rt, r)
        BY <1>7, <2>3, <3>1, <3>3 DEF LaneBound
      <4>2. ~(l > worker.failed)
        BY <2>3, <3>3
      <4> QED
        BY <1>7, <4>1, <4>2 DEF Runs, Settled
    <3> QED
      BY <1>2, <3>2, <3>3
  <2>5. rt' = d
    BY <1>2, <2>4
  <2>6. /\ Touches(rt, d, {r}) /\ Bound(d, r) /\ (x.token = r => Settled(d, r))
        /\ (Released(rt, r) => Released(d, r))
        /\ \A running : Results(rt, running) => Results(d, running)
    <3>1. d = SetCtx(rt, r, Settle(ContextOf(rt, r), outcome)) /\ ContextOf(rt, r).token \in {r, NoRequest}
      BY <1>7, <2>4 DEF d
    <3> QED
      BY <1>1, <1>5, <1>7, <2>4, <3>1, SettledLane
  <2>7. ASSUME NEW i \in 1 .. Len(worker.batch)
        PROVE  LaneOK(IF worker.batch[i] \in {r} THEN rt' ELSE rt, worker', i, worker.batch[i])
    <3>1. CASE i = l
      <4>1. Settled(rt', r) \/ Released(rt', r)
        BY <2>4, <2>5, <2>6
      <4>2. LaneBound(rt', worker', i, r)
        BY <1>3, <1>4, <2>3, <3>1, <4>1 DEF LaneBound
      <4> QED
        BY <1>5, <2>5, <2>6, <3>1, <4>2 DEF LaneOK
    <3>2. CASE i # l
      <4>1. worker.batch[i] \notin {r} /\ LaneBound(rt, worker, i, worker.batch[i])
        BY <1>5, <2>2, <3>2
      <4>2. i \in Int /\ (last => i < l) /\ (i < l + 1 <=> i < l) /\ i # l
        BY <1>3, <1>5, <1>6, <2>3, <3>2
      <4>3. worker.lane = l /\ worker.pc \in {"settle", "unreserved"}
        BY <1>2, <1>7
      <4>4. LaneBound(rt, worker', i, worker.batch[i])
        BY <1>4, <4>1, <4>2, <4>3 DEF LaneBound
      <4> QED
        BY <1>5, <4>1, <4>4 DEF LaneOK
    <3> QED
      BY <3>1, <3>2
  <2>8. {r} \in SUBSET LaneSet
    BY <1>5
  <2>9. Results(rt', direct # "none")
    BY <2>1, <2>5, <2>6
  <2>10. InPlace(rt, rt', worker', LaneSet, {r})
    BY <1>4, <2>7 DEF InPlace, Turns
  <2> QED
    BY <2>5, <2>6, <2>8, <2>9, <2>10 DEF LaneStep
<1> QED
  BY <1>9, <1>10, LaneStepSound

(* A batch is refused at r, the lanes in S having been begun. *)
RefusedAt(c, S, r) ==
  LET x == ContextOf(c, r)
      e == SetReq(ClaimLanes(c, S), r, "token", FALSE)
  IN  IF ClaimOK(x, r) THEN SetCtx(e, r, Settle(Claim(x), "REFUSED")) ELSE e
(* What that does to them. *)
LEMMA RefusedAtEffect ==
  ASSUME NEW c \in CoordinatorType, NEW S \in SUBSET Requests, NEW r \in Requests
  PROVE  LET f == RefusedAt(c, S, r)
         IN  /\ Light(c, f) /\ Only(ClaimLanes(c, S), f, r) /\ ~f.req[r].token
             /\ f.req[r].ticket = c.req[r].ticket /\ f.results = c.results
             /\ \A z \in Contexts : z # c.req[r].spec.context => f.ctx[z] = ClaimLanes(c, S).ctx[z]
             /\ Bound(c, r) =>
                  IF ClaimOK(ContextOf(c, r), r)
                  THEN /\ ContextOf(f, r).token = ContextOf(c, r).token
                       /\ ContextOf(f, r).state \notin {"QUEUED", "RUNNING"}
                  ELSE ContextOf(f, r) = ContextOf(ClaimLanes(c, S), r)
<1> DEFINE x == ContextOf(c, r)  d == ClaimLanes(c, S)  e == SetReq(d, r, "token", FALSE)
           z == Settle(Claim(x), "REFUSED")  f == RefusedAt(c, S, r)
<1>1. TakesUp(c, d, S)
  BY ClaimLanesEffect
<1>2. Light(c, d) /\ d \in CoordinatorType /\ d.results = c.results /\ d.req[r].ticket = c.req[r].ticket
  BY <1>1 DEF TakesUp, Light
<1>3. f = IF ClaimOK(x, r) THEN SetCtx(e, r, z) ELSE e
  BY DEF RefusedAt
<1> HIDE DEF d, f
<1>4. /\ Light(d, e) /\ Only(d, e, r) /\ ~e.req[r].token /\ e.req[r].ticket = d.req[r].ticket
      /\ e.ctx = d.ctx /\ e.results = d.results
  BY <1>2, TokenDropped
<1> HIDE DEF e
<1>5. Light(c, e) /\ e \in CoordinatorType
  BY <1>2, <1>4, LightIsTransitive DEF Light
<1>6. e.req[r].spec = c.req[r].spec /\ d.req[r].spec = c.req[r].spec
  BY <1>2, <1>5 DEF Light, SameCore, SameCourse
<1>7. CASE ~ClaimOK(x, r)
  <2>1. f = e
    BY <1>3, <1>7
  <2>2. ContextOf(e, r) = ContextOf(d, r)
    BY <1>4, <1>6 DEF ContextOf
  <2> QED
    BY <1>2, <1>4, <1>5, <1>7, <2>1, <2>2 DEF d, x, f
<1>8. CASE ClaimOK(x, r)
  <2>1. f = SetCtx(e, r, z)
    BY <1>3, <1>8
  <2>2. Bound(e, r) <=> Bound(c, r)
    BY <1>6 DEF Bound
  <2>3. Bound(c, r) => x \in ContextType
    BY Typed
  <2>4. Bound(c, r) => z \in ContextType /\ z.token = x.token /\ z.state \notin {"QUEUED", "RUNNING"}
    BY <2>3, ContextSteps
  <2> HIDE DEF x, z
  <2>5. /\ Light(e, f) /\ f.req = e.req /\ f.results = e.results
        /\ Bound(e, r) => /\ f.ctx[e.req[r].spec.context] = z /\ ContextOf(f, r) = z
                          /\ \A y \in Contexts : y # e.req[r].spec.context => f.ctx[y] = e.ctx[y]
        /\ ~Bound(e, r) => f.ctx = e.ctx
    BY <1>5, <2>1, <2>2, <2>4, ContextSet
  <2>6. Light(c, f)
    BY <1>5, <2>5, LightIsTransitive
  <2>7. \A y \in Contexts : y # c.req[r].spec.context => f.ctx[y] = d.ctx[y]
    BY <1>4, <1>6, <2>5
  <2>8. Only(d, f, r) /\ ~f.req[r].token /\ f.req[r].ticket = c.req[r].ticket /\ f.results = c.results
    BY <1>2, <1>4, <2>5 DEF Only
  <2>9. Bound(c, r) => ContextOf(f, r).token = x.token /\ ContextOf(f, r).state \notin {"QUEUED", "RUNNING"}
    BY <2>2, <2>4, <2>5
  <2> QED
    BY <1>8, <2>6, <2>7, <2>8, <2>9 DEF d, x, f
<1> QED
  BY <1>7, <1>8

(* The lanes before it run, and it is settled. *)
LEMMA RefusedAtTouches ==
  ASSUME NEW c \in CoordinatorType, NEW S \in SUBSET Requests, NEW r \in Requests, r \notin S,
         \A q \in S \cup {r} : Reserved(c, q) /\ Bound(c, q) /\ ContextOf(c, q).token = q,
         ContextOf(c, r).call = r, ContextOf(c, r).state \in {"QUEUED", "CANCELLED"}
  PROVE  LET f == RefusedAt(c, S, r)
         IN  /\ Touches(c, f, S \cup {r}) /\ \A q \in S \cup {r} : Bound(f, q)
             /\ \A q \in S : Runs(f, q)
             /\ Settled(f, r)
             /\ \A running : Results(c, running) => Results(f, running)
<1> DEFINE x == ContextOf(c, r)  d == ClaimLanes(c, S)  f == RefusedAt(c, S, r)  y == c.req[r].spec.context
<1>1. TakesUp(c, d, S)
  BY ClaimLanesEffect
<1>2. /\ Touches(c, d, S) /\ \A q \in S : Runs(d, q) /\ Bound(d, q)
  BY <1>1, TakesUpTouches
<1>3. /\ Light(c, f) /\ Only(d, f, r) /\ ~f.req[r].token
      /\ f.req[r].ticket = c.req[r].ticket /\ f.results = c.results
      /\ \A z \in Contexts : z # y => f.ctx[z] = d.ctx[z]
      /\ IF ClaimOK(x, r) THEN ContextOf(f, r).token = x.token /\ ContextOf(f, r).state \notin {"QUEUED", "RUNNING"}
                          ELSE ContextOf(f, r) = ContextOf(d, r)
  BY RefusedAtEffect
<1>4. y \in Contexts /\ x = c.ctx[y] /\ x.token = r /\ (~ClaimOK(x, r) => x.state = "CANCELLED")
  BY Typed DEF ContextOf, ClaimOK
<1> HIDE DEF d, f, x
<1>5. \A q \in Requests : d.req[q].spec = c.req[q].spec /\ f.req[q].spec = c.req[q].spec
                          /\ f.req[q].result = c.req[q].result
  BY <1>1, <1>3 DEF TakesUp, Light, SameCore, SameCourse
<1>6. \A q \in S : q \in Requests /\ c.req[q].spec.context \in Contexts /\ c.req[q].spec.context # y
  <2> TAKE q \in S
  <2>1. q # r /\ ContextOf(c, q).token = q /\ ContextOf(c, r).token = r /\ Bound(c, q)
    OBVIOUS
  <2> QED
    BY <2>1, OwnContexts, Typed
<1>7. d.ctx[y] = c.ctx[y]
  <2>1. y \notin ContextsOf(c, S)
    BY <1>6 DEF ContextsOf
  <2> QED
    BY <1>1, <1>4, <2>1 DEF TakesUp
<1>8. ContextOf(f, r) = f.ctx[y] /\ ContextOf(d, r) = d.ctx[y]
  BY <1>5 DEF ContextOf
<1>9. f.ctx[y].token = r /\ f.ctx[y].state \notin {"QUEUED", "RUNNING"}
  BY <1>3, <1>4, <1>7, <1>8
<1>10. Settled(f, r)
  BY <1>3, <1>8, <1>9 DEF Settled
<1>11. \A q \in S : Runs(f, q)
  <2> TAKE q \in S
  <2>1. q # r /\ q \in Requests /\ f.req[q] = d.req[q]
    BY <1>3 DEF Only
  <2>2. ContextOf(f, q) = ContextOf(d, q)
    BY <1>3, <1>5, <1>6, <2>1 DEF ContextOf
  <2> QED
    BY <1>2, <2>1, <2>2 DEF Runs
<1>12. \A q \in S \cup {r} : Bound(f, q)
  BY <1>5 DEF Bound
<1>13. Touches(c, f, S \cup {r})
  <2>1. \A q \in Requests \ (S \cup {r}) : SameHold(c.req[q], f.req[q])
    BY <1>1, <1>3 DEF Only, TakesUp, SameHold
  <2>2. \A q \in S \cup {r} : ~f.req[q].token
    BY <1>3, <1>11 DEF Runs
  <2>3. ASSUME NEW z \in Contexts, f.ctx[z] # c.ctx[z]
        PROVE  /\ {c.ctx[z].token, f.ctx[z].token} \subseteq (S \cup {r}) \cup {NoRequest}
               /\ f.ctx[z].token \in {c.ctx[z].token, NoRequest}
               /\ f.ctx[z].token = NoRequest => f.ctx[z].state \notin {"QUEUED", "RUNNING"}
    <3>1. CASE z = y
      BY <1>4, <1>9, <3>1
    <3>2. CASE z # y
      <4>1. f.ctx[z] = d.ctx[z] /\ d.ctx[z] # c.ctx[z]
        BY <1>3, <2>3, <3>2
      <4> QED
        BY <1>2, <4>1 DEF Touches
    <3> QED
      BY <3>1, <3>2
  <2> QED
    BY <2>1, <2>2, <2>3 DEF Touches
<1>14. ASSUME NEW running, Results(c, running) PROVE Results(f, running)
  <2>1. \A q \in Requests : f.req[q].ticket = c.req[q].ticket
                            /\ (Delivers(f.req[q]) <=> Delivers(c.req[q]))
    BY <1>1, <1>3, <1>5 DEF Delivers, TakesUp, Only
  <2> QED
    BY <1>3, <1>14, <2>1, ResultsSame
<1> QED
  BY <1>10, <1>11, <1>12, <1>13, <1>14 DEF f

(* The batch is refused at one of its lanes. *)
LEMMA RefuseBatchSound ==
  ASSUME NEW b, IInv(b), NEW k \in 1 .. Len(worker.batch), RefuseBatch(k)
  PROVE  Kept(b) /\ BatchOK(rt', worker')
<1> DEFINE r == Lane(k)  S == {Lane(i) : i \in 1 .. k - 1}
<1>1. /\ rt \in CoordinatorType /\ BatchOK(rt, worker) /\ LaneSet \in SUBSET Requests
  BY HeldByInvariant
<1>2. /\ worker.pc = "route" /\ submit' = submit /\ direct' = direct /\ rt' = RefusedAt(rt, S, r)
      /\ worker' = [worker EXCEPT !.pc = "settle", !.failed = k, !.lane = 1] /\ BoundBatch
  BY DEF RefuseBatch, RefusedAt
<1>3. /\ Turns(worker') /\ worker'.pc = "settle" /\ worker'.lane = 1 /\ worker'.failed = k
      /\ k \in Nat /\ k >= 1
  <2>1. worker \in WorkerType
    BY <1>1 DEF BatchOK
  <2>2. Len(worker.batch) \in Nat
    BY <2>1 DEF WorkerType
  <2>3. k \in Nat /\ k >= 1
    BY <2>2
  <2> QED
    BY <1>2, <2>1, <2>3 DEF Turns, WorkerType
<1>4. /\ 1 \in 1 .. Len(worker.batch) /\ Len(worker.batch) \in Nat
      /\ \A i \in 1 .. Len(worker.batch) : /\ worker.batch[i] \in LaneSet /\ worker.batch[i] \in Requests
                                           /\ Bound(rt, worker.batch[i])
      /\ \A i, j \in 1 .. Len(worker.batch) : worker.batch[i] = worker.batch[j] => i = j
  BY <1>2, LanesRun DEF BoundBatch, Lane
<1>5. \A i \in 1 .. k - 1 : i \in 1 .. Len(worker.batch) /\ i # k
  BY <1>3, <1>4
<1>6. /\ r = worker.batch[k] /\ r \in Requests /\ r \in LaneSet
      /\ S \in SUBSET LaneSet /\ S \in SUBSET Requests
      /\ r \notin S
      /\ \A i \in 1 .. Len(worker.batch) : i < k <=> worker.batch[i] \in S
  <2>1. r = worker.batch[k] /\ r \in Requests /\ r \in LaneSet
    BY <1>4 DEF Lane
  <2>2. \A q \in S : \E i \in 1 .. k - 1 : q = worker.batch[i]
    BY DEF Lane
  <2>3. \A i \in 1 .. k - 1 : worker.batch[i] \in S
    BY DEF Lane
  <2> HIDE DEF S, r
  <2>4. S \in SUBSET LaneSet /\ S \in SUBSET Requests
    BY <1>4, <1>5, <2>2
  <2>5. r \notin S
    BY <1>4, <1>5, <2>1, <2>2
  <2>6. ASSUME NEW i \in 1 .. Len(worker.batch) PROVE i < k <=> worker.batch[i] \in S
    <3>1. CASE i < k
      <4>1. i \in 1 .. k - 1
        BY <1>3, <3>1
      <4> QED
        BY <2>3, <3>1, <4>1
    <3>2. CASE ~(i < k)
      <4>1. \A j \in 1 .. k - 1 : j # i
        BY <1>3, <1>4, <3>2
      <4> QED
        BY <1>4, <1>5, <2>2, <3>2, <4>1
    <3> QED
      BY <3>1, <3>2
  <2> QED
    BY <2>1, <2>4, <2>5, <2>6
<1> HIDE DEF S, r
<1>7. LaneTurn
  <2>1. Light(rt, rt')
    BY <1>1, <1>2, <1>6, RefusedAtEffect
  <2>2. Bound(rt, worker.batch[1])
    BY <1>4
  <2> QED
    BY <1>2, <1>3, <1>4, <2>1, <2>2 DEF LaneTurn, Turns
<1>8. ASSUME b PROVE LaneStep(S \cup {r})
  <2>1. /\ Results(rt, direct # "none")
        /\ \A i \in 1 .. Len(worker.batch) : LaneOK(rt, worker, i, worker.batch[i])
        /\ \A q \in LaneSet : rt.req[q].token =>
              /\ ContextOf(rt, q).token = q /\ ContextOf(rt, q).call = q
              /\ ContextOf(rt, q).state \in {"QUEUED", "CANCELLED"}
    BY <1>8, LanesStand
  <2>2. \A i \in 1 .. Len(worker.batch) : Reserved(rt, worker.batch[i])
    BY <1>2, <1>4, <2>1 DEF LaneOK, LaneBound
  <2>3. \A q \in LaneSet : Reserved(rt, q) /\ Bound(rt, q)
    BY <1>4, <2>2 DEF LaneSet, Lane
  <2>4. \A q \in LaneSet : /\ ContextOf(rt, q).token = q /\ ContextOf(rt, q).call = q
                           /\ ContextOf(rt, q).state \in {"QUEUED", "CANCELLED"}
    BY <2>1, <2>3 DEF Reserved
  <2>5. S \cup {r} \in SUBSET LaneSet
    BY <1>6
  <2>6. \A q \in S \cup {r} : Reserved(rt, q) /\ Bound(rt, q) /\ ContextOf(rt, q).token = q
    BY <2>3, <2>4, <2>5
  <2>7. ContextOf(rt, r).call = r /\ ContextOf(rt, r).state \in {"QUEUED", "CANCELLED"}
    BY <1>6, <2>4
  <2>8. /\ Touches(rt, rt', S \cup {r}) /\ \A q \in S \cup {r} : Bound(rt', q)
        /\ \A q \in S : Runs(rt', q)
        /\ Settled(rt', r)
        /\ \A running : Results(rt, running) => Results(rt', running)
    BY <1>1, <1>2, <1>6, <2>6, <2>7, RefusedAtTouches
  <2>9. ASSUME NEW i \in 1 .. Len(worker.batch)
        PROVE  LaneOK(IF worker.batch[i] \in S \cup {r} THEN rt' ELSE rt, worker', i, worker.batch[i])
    <3>0. i \in Int /\ ~(i < 1) /\ k \in Int
      BY <1>3, <1>4
    <3>1. CASE i < k
      <4>1. worker.batch[i] \in S
        BY <1>6, <3>1
      <4>2. LaneBound(rt', worker', i, worker.batch[i])
        BY <1>3, <2>8, <3>0, <3>1, <4>1 DEF LaneBound
      <4> QED
        BY <2>8, <4>1, <4>2 DEF LaneOK
    <3>2. CASE i = k
      <4>1. worker.batch[i] = r
        BY <1>6, <3>2
      <4>2. LaneBound(rt', worker', i, r)
        BY <1>3, <2>8, <3>0, <3>2 DEF LaneBound
      <4> QED
        BY <2>8, <4>1, <4>2 DEF LaneOK
    <3>3. CASE ~(i < k) /\ i # k
      <4>1. worker.batch[i] \notin S \cup {r}
        BY <1>4, <1>6, <3>3
      <4>2. LaneBound(rt, worker', i, worker.batch[i])
        BY <1>3, <2>2, <3>0, <3>3 DEF LaneBound
      <4> QED
        BY <1>4, <4>1, <4>2 DEF LaneOK
    <3> QED
      BY <3>1, <3>2, <3>3
  <2>10. InPlace(rt, rt', worker', LaneSet, S \cup {r})
    BY <1>3, <2>9 DEF InPlace, Turns
  <2> QED
    BY <2>1, <2>5, <2>8, <2>10 DEF LaneStep
<1> QED
  BY <1>7, <1>8, LaneStepSound

(* The contexts of the lanes in S settle. *)
SettlesAll(c, d, S) ==
  /\ Light(c, d) /\ d.req = c.req /\ d.results = c.results
  /\ \A x \in Contexts : IF x \in ContextsOf(c, S)
                         THEN \E outcome : d.ctx[x] = Settle(c.ctx[x], outcome)
                         ELSE d.ctx[x] = c.ctx[x]
(* Lanes that ran have settled. *)
LEMMA SettlesTouches ==
  ASSUME NEW c \in CoordinatorType, NEW S \in SUBSET Requests, NEW d, SettlesAll(c, d, S),
         \A q \in S : Runs(c, q) /\ Bound(c, q)
  PROVE  /\ Touches(c, d, S)
         /\ \A q \in S : /\ Settled(d, q) /\ Bound(d, q) /\ d.req[q].ticket
                         /\ d.ctx[c.req[q].spec.context].call = c.ctx[c.req[q].spec.context].call
         /\ \A running : Results(c, running) => Results(d, running)
<1>1. \A x \in Contexts : c.ctx[x] \in ContextType
  BY Typed
<1>2. \A q \in S : q \in Requests /\ c.req[q].spec.context \in Contexts /\ c.req[q].spec.context \in ContextsOf(c, S)
  BY Typed DEF ContextsOf
<1>3. \A x \in Contexts : x \in ContextsOf(c, S) => /\ d.ctx[x].token = c.ctx[x].token
                                                    /\ d.ctx[x].call = c.ctx[x].call
                                                    /\ d.ctx[x].state \notin {"QUEUED", "RUNNING"}
                                                    /\ c.ctx[x].token \in S
  <2>1. ASSUME NEW x \in Contexts, x \in ContextsOf(c, S)
        PROVE  /\ d.ctx[x].token = c.ctx[x].token /\ d.ctx[x].call = c.ctx[x].call
               /\ d.ctx[x].state \notin {"QUEUED", "RUNNING"} /\ c.ctx[x].token \in S
    <3>1. PICK outcome : d.ctx[x] = Settle(c.ctx[x], outcome)
      BY <2>1 DEF SettlesAll
    <3>2. PICK q \in S : x = c.req[q].spec.context
      BY <2>1 DEF ContextsOf
    <3>3. c.ctx[x].token = q
      BY <3>2 DEF ContextOf, Runs
    <3> QED
      BY <1>1, <3>1, <3>3, ContextSteps
  <2> QED
    BY <2>1
<1>4. \A q \in S : /\ Settled(d, q) /\ Bound(d, q) /\ d.req[q].ticket
                   /\ d.ctx[c.req[q].spec.context].call = c.ctx[c.req[q].spec.context].call
  <2> TAKE q \in S
  <2>1. d.req = c.req /\ ~c.req[q].token /\ c.req[q].ticket /\ Bound(c, q)
    BY DEF SettlesAll, Runs
  <2>2. c.ctx[c.req[q].spec.context].token = q
    BY DEF Runs, ContextOf
  <2>3. /\ d.ctx[c.req[q].spec.context].token = q
        /\ d.ctx[c.req[q].spec.context].call = c.ctx[c.req[q].spec.context].call
        /\ d.ctx[c.req[q].spec.context].state \notin {"QUEUED", "RUNNING"}
    BY <1>2, <1>3, <2>2
  <2> QED
    BY <2>1, <2>3 DEF Settled, Bound, ContextOf
<1>5. Touches(c, d, S)
  <2>1. \A q \in Requests \ S : SameHold(c.req[q], d.req[q])
    BY DEF SettlesAll, SameHold
  <2>2. \A q \in S : ~d.req[q].token
    BY <1>4 DEF Settled
  <2>3. ASSUME NEW x \in Contexts, d.ctx[x] # c.ctx[x]
        PROVE  /\ {c.ctx[x].token, d.ctx[x].token} \subseteq S \cup {NoRequest}
               /\ d.ctx[x].token \in {c.ctx[x].token, NoRequest}
               /\ d.ctx[x].state \notin {"QUEUED", "RUNNING"}
    <3>1. x \in ContextsOf(c, S)
      BY <2>3 DEF SettlesAll
    <3> QED
      BY <1>3, <3>1
  <2> QED
    BY <2>1, <2>2, <2>3 DEF Touches
<1>6. ASSUME NEW running, Results(c, running) PROVE Results(d, running)
  BY <1>6 DEF Results, SettlesAll
<1> QED
  BY <1>4, <1>5, <1>6

(* What SettleRun does to the contexts of the lanes of a batch. *)
SettledLanes(c, outcome) ==
  LET end(x) == IF outcome = "FAIL" /\ ~Single /\ x.cancel THEN "REFUSED" ELSE outcome
  IN  [c EXCEPT !.ctx = [x \in Contexts |->
         IF x \in ContextsOf(c, LaneSet) THEN Settle(c.ctx[x], end(c.ctx[x])) ELSE c.ctx[x]]]
PutContexts(c, ctx) == [c EXCEPT !.ctx = ctx]
(* The contexts are replaced. *)
LEMMA ContextsPut ==
  ASSUME NEW c \in CoordinatorType, NEW ctx \in [Contexts -> ContextType]
  PROVE  LET d == PutContexts(c, ctx)
         IN  /\ Light(c, d) /\ d.req = c.req /\ d.ctx = ctx /\ d.results = c.results
<1> DEFINE d == PutContexts(c, ctx)
<1>1. c \in CoordinatorType
  OBVIOUS
<1>2. /\ d \in CoordinatorType /\ d.req = c.req /\ d.ctx = ctx
      /\ d.results = c.results /\ SameLists(c, d) /\ SameCounters(c, d)
  BY <1>1 DEF PutContexts, CoordinatorType, SameLists, SameCounters
<1> HIDE DEF d
<1>3. Light(c, d)
  BY <1>2 DEF Light, SameCore, SameClaims, SameCourse
<1> QED
  BY <1>2, <1>3 DEF d

(* They all settle. *)
LEMMA SettledLanesEffect ==
  ASSUME NEW c \in CoordinatorType, NEW outcome
  PROVE  SettlesAll(c, SettledLanes(c, outcome), LaneSet)
<1> DEFINE end(x) == IF outcome = "FAIL" /\ ~Single /\ x.cancel THEN "REFUSED" ELSE outcome
           ctx == [x \in Contexts |->
                    IF x \in ContextsOf(c, LaneSet) THEN Settle(c.ctx[x], end(c.ctx[x])) ELSE c.ctx[x]]
           d == PutContexts(c, ctx)
<1>1. \A x \in Contexts : c.ctx[x] \in ContextType
  BY Typed
<1>2. \A x \in Contexts : ctx[x] = IF x \in ContextsOf(c, LaneSet)
                                   THEN Settle(c.ctx[x], end(c.ctx[x])) ELSE c.ctx[x]
  OBVIOUS
<1>3. SettledLanes(c, outcome) = d
  BY DEF SettledLanes, PutContexts
<1> HIDE DEF end
<1>4. ctx \in [Contexts -> ContextType]
  BY <1>1, ContextSteps
<1> HIDE DEF ctx
<1>5. Light(c, d) /\ d.req = c.req /\ d.ctx = ctx /\ d.results = c.results
  BY <1>4, ContextsPut
<1> HIDE DEF d
<1>6. SettlesAll(c, d, LaneSet)
  BY <1>2, <1>5 DEF SettlesAll
<1> QED
  BY <1>3, <1>6

(* A request alone that got no result: its context is given back if it is  *)
(* cancelled, and its ticket is.                                           *)
LEMMA AloneEnds ==
  ASSUME NEW c \in CoordinatorType, NEW r \in Requests, Settled(c, r), Bound(c, r), NEW e,
         \/ e = c
         \/ e = SetCtx(c, r, Unreserve(ContextOf(c, r), r))
  PROVE  LET d == TicketRelease(e, r)
         IN  /\ Touches(c, d, {r}) /\ Bound(d, r) /\ (Settled(d, r) \/ Released(d, r))
             /\ \A running : Results(c, running) => Results(d, running)
<1> DEFINE d == TicketRelease(e, r)  y == c.req[r].spec.context  x == ContextOf(c, r)
<1>1. y \in Contexts /\ x \in ContextType /\ x = c.ctx[y] /\ x.token = r /\ x.state \notin {"QUEUED", "RUNNING"}
      /\ ~c.req[r].token
  BY Typed DEF ContextOf, Settled
<1>2. Unreserve(x, r) \in ContextType
  BY <1>1, ContextFunctions
<1>3. Unreserve(x, r) = x \/ (UnreserveOK(x, r) /\ Unreserve(x, r).token = NoRequest
                              /\ Unreserve(x, r).state \in {"READY", "CANCELLED"})
  BY <1>1, UnreserveFrees DEF Unreserve
<1> HIDE DEF x
<1>4. /\ Light(c, e) /\ e.req = c.req /\ e.results = c.results
      /\ \A z \in Contexts : z # y => e.ctx[z] = c.ctx[z]
      /\ e.ctx[y] = x \/ e.ctx[y] = Unreserve(x, r)
  <2>1. CASE e = c
    BY <1>1, <2>1 DEF Light, SameCore, SameClaims, SameCourse, SameLists, SameCounters
  <2>2. CASE e = SetCtx(c, r, Unreserve(x, r))
    <3> DEFINE u == Unreserve(x, r)
    <3>1. Bound(c, r) => u \in ContextType
      BY <1>2
    <3>2. e = SetCtx(c, r, u)
      BY <2>2
    <3> HIDE DEF u
    <3>3. /\ Light(c, e) /\ e.req = c.req /\ e.results = c.results
          /\ Bound(c, r) => e.ctx[y] = u /\ \A z \in Contexts : z # y => e.ctx[z] = c.ctx[z]
      BY <3>1, <3>2, ContextSet
    <3> QED
      BY <3>3 DEF u
  <2> QED
    BY <2>1, <2>2 DEF x
<1>5. e.ctx[y].token \in {r, NoRequest} /\ e.ctx[y].state \notin {"QUEUED", "RUNNING"}
  BY <1>1, <1>3, <1>4
<1>6. e \in CoordinatorType
  BY <1>4 DEF Light
<1>7. /\ Light(e, d) /\ Only(e, d, r) /\ ~d.req[r].ticket /\ d.req[r].token = e.req[r].token
      /\ d.ctx = e.ctx /\ d.results = e.results - Release(e.req[r].ticket)
  BY <1>6, TicketReleased
<1> HIDE DEF d
<1>8. Light(c, d) /\ d \in CoordinatorType
  BY <1>4, <1>7, LightIsTransitive DEF Light
<1>9. \A q \in Requests : d.req[q].spec = c.req[q].spec /\ d.req[q].result = c.req[q].result
  BY <1>8 DEF Light, SameCore, SameCourse
<1>10. Bound(d, r) /\ ContextOf(d, r) = e.ctx[y]
  BY <1>7, <1>9 DEF Bound, ContextOf
<1>11. Settled(d, r) \/ Released(d, r)
  BY <1>1, <1>4, <1>5, <1>7, <1>10, RequestsAreNumbers DEF Settled, Released
<1>12. Touches(c, d, {r})
  <2>1. \A q \in Requests \ {r} : SameHold(c.req[q], d.req[q])
    BY <1>4, <1>7 DEF Only, SameHold
  <2>2. \A q \in {r} : ~d.req[q].token
    BY <1>1, <1>4, <1>7
  <2>3. ASSUME NEW z \in Contexts, d.ctx[z] # c.ctx[z]
        PROVE  /\ {c.ctx[z].token, d.ctx[z].token} \subseteq {r} \cup {NoRequest}
               /\ d.ctx[z].token \in {c.ctx[z].token, NoRequest}
               /\ d.ctx[z].state \notin {"QUEUED", "RUNNING"}
    <3>1. z = y
      BY <1>4, <1>7, <2>3
    <3> QED
      BY <1>1, <1>5, <1>7, <3>1
  <2> QED
    BY <2>1, <2>2, <2>3 DEF Touches
<1>13. ASSUME NEW running, Results(c, running) PROVE Results(d, running)
  <2>1. \A q \in Requests : q # r => d.req[q].ticket = c.req[q].ticket
                                     /\ (Delivers(d.req[q]) <=> Delivers(c.req[q]))
    BY <1>4, <1>7 DEF Only
  <2>2. Delivers(d.req[r]) <=> Delivers(c.req[r])
    BY <1>9 DEF Delivers
  <2>3. /\ Release(c.req[r].ticket) \in {0, 1} /\ Release(d.req[r].ticket) = 0
        /\ Release(Delivers(c.req[r])) \in Int /\ Release(running) \in Int
        /\ Release(Delivers(d.req[r])) = Release(Delivers(c.req[r]))
    BY <1>7, <2>2, ReleaseCounts DEF Release
  <2>4. c.results \in Int /\ c.results <= MaxResults /\ MaxResults \in Int
    BY <1>13, RequestConstants DEF Results, CoordinatorType
  <2>5. d.results = c.results - Release(c.req[r].ticket)
    BY <1>4, <1>7
  <2>6. /\ d.results = c.results - Release(c.req[r].ticket) + Release(d.req[r].ticket)
                         - Release(Delivers(c.req[r])) + Release(Delivers(d.req[r]))
                         - Release(running) + Release(running)
        /\ d.results <= MaxResults
    BY <2>3, <2>4, <2>5
  <2> QED
    BY <1>8, <1>13, <2>1, <2>6, ResultsOne
<1> QED
  BY <1>10, <1>11, <1>12, <1>13 DEF d

(* A run ends that leaves everything to the completions, or that had no    *)
(* contexts.                                                               *)
LEMMA RunLeaves ==
  ASSUME NEW b, IInv(b), b, worker.pc = "run", rt' = rt, Turns(worker'), worker'.pc = "done",
         BoundBatch => worker'.outcome = "PENDING"
  PROVE  LaneStep({})
<1>1. \A i \in 1 .. Len(worker.batch) : Bound(rt, worker.batch[i]) <=> BoundBatch
  BY LanesRun DEF BoundBatch, Lane
<1>2. \A i \in 1 .. Len(worker.batch) :
        LaneOK(rt, worker, i, worker.batch[i]) => LaneOK(rt, worker', i, worker.batch[i])
  BY <1>1 DEF LaneOK, LaneBound
<1> QED
  BY <1>2, StaysPut DEF Turns

(* A run of requests with contexts ends: all lanes settle. *)
LEMMA RunSettles ==
  ASSUME NEW b, IInv(b), b, worker.pc = "run", BoundBatch, Turns(worker'), worker'.pc = "done",
         NEW outcome \in {"OK", "FAIL", "REFUSED"}, worker'.outcome = outcome,
         outcome = "REFUSED" => Single, rt' = SettleRun(rt, outcome)
  PROVE  LaneStep(LaneSet)
<1> DEFINE r == Lane(1)  d == SettledLanes(rt, outcome)
           e == IF outcome = "REFUSED" THEN SetCtx(d, r, Unreserve(ContextOf(d, r), r)) ELSE d
<1>1. rt \in CoordinatorType /\ LaneSet \in SUBSET Requests
  BY HeldByInvariant
<1>2. /\ 1 \in 1 .. Len(worker.batch) /\ r = worker.batch[1]
      /\ \A i \in 1 .. Len(worker.batch) : worker.batch[i] \in LaneSet /\ worker.batch[i] \in Requests
      /\ \A i \in 1 .. Len(worker.batch) : Bound(rt, worker.batch[i])
      /\ \A i \in 1 .. Len(worker.batch) : LaneOK(rt, worker, i, worker.batch[i])
      /\ Results(rt, direct # "none")
  BY LanesRun, LanesStand DEF BoundBatch, Lane
<1>3. \A q \in LaneSet : Runs(rt, q) /\ Bound(rt, q)
  BY <1>2 DEF LaneSet, Lane, LaneOK, LaneBound
<1>4. SettlesAll(rt, d, LaneSet)
  BY <1>1, SettledLanesEffect
<1>5. rt' = IF Single /\ outcome # "OK" THEN TicketRelease(e, r) ELSE e
  BY DEF SettleRun, SettledLanes
<1>6. Single => LaneSet = {r}
  BY <1>2 DEF Single, LaneSet, Lane
<1> HIDE DEF d, e, r
<1>7. /\ Touches(rt, d, LaneSet)
      /\ \A q \in LaneSet : Settled(d, q) /\ Bound(d, q) /\ d.req[q].ticket
      /\ \A running : Results(rt, running) => Results(d, running)
  BY <1>1, <1>3, <1>4, SettlesTouches
<1>8. d \in CoordinatorType /\ r \in Requests /\ r \in LaneSet
  BY <1>2, <1>4 DEF SettlesAll, Light
<1>9. LaneSet \in SUBSET LaneSet
  OBVIOUS
<1>10. CASE ~(Single /\ outcome # "OK")
  <2>1. rt' = d
    BY <1>5, <1>10 DEF e
  <2>2. InPlace(rt, rt', worker', LaneSet, LaneSet)
    <3>1. ASSUME NEW i \in 1 .. Len(worker.batch)
          PROVE  LaneOK(rt', worker', i, worker.batch[i])
      BY <1>2, <1>7, <2>1 DEF LaneOK, LaneBound
    <3> QED
      BY <1>2, <3>1 DEF InPlace, Turns
  <2>3. Results(rt', direct # "none")
    BY <1>2, <1>7, <2>1
  <2> QED
    BY <1>7, <1>9, <2>1, <2>2, <2>3 DEF LaneStep
<1>11. CASE Single /\ outcome # "OK"
  <2>1. rt' = TicketRelease(e, r)
    BY <1>5, <1>11
  <2>2. e = d \/ e = SetCtx(d, r, Unreserve(ContextOf(d, r), r))
    BY DEF e
  <2>3. Settled(d, r) /\ Bound(d, r)
    BY <1>7, <1>8
  <2>4. /\ Touches(d, rt', {r}) /\ Bound(rt', r) /\ (Settled(rt', r) \/ Released(rt', r))
        /\ \A running : Results(d, running) => Results(rt', running)
    BY <1>8, <2>1, <2>2, <2>3, AloneEnds
  <2>5. Touches(rt, rt', LaneSet)
    <3>1. \A q \in Requests \ LaneSet : SameHold(rt.req[q], rt'.req[q])
      BY <1>6, <1>7, <1>11, <2>4 DEF Touches, SameHold
    <3>2. \A q \in LaneSet : ~rt'.req[q].token
      BY <1>6, <1>11, <2>4 DEF Touches
    <3>3. ASSUME NEW x \in Contexts, rt'.ctx[x] # rt.ctx[x]
          PROVE  /\ {rt.ctx[x].token, rt'.ctx[x].token} \subseteq LaneSet \cup {NoRequest}
                 /\ rt'.ctx[x].token \in {rt.ctx[x].token, NoRequest}
                 /\ rt'.ctx[x].token = NoRequest => rt'.ctx[x].state \notin {"QUEUED", "RUNNING"}
      <4>1. \/ d.ctx[x] = rt.ctx[x]
            \/ /\ {rt.ctx[x].token, d.ctx[x].token} \subseteq LaneSet \cup {NoRequest}
               /\ d.ctx[x].token \in {rt.ctx[x].token, NoRequest}
               /\ d.ctx[x].token = NoRequest => d.ctx[x].state \notin {"QUEUED", "RUNNING"}
        BY <1>7 DEF Touches
      <4>2. \/ rt'.ctx[x] = d.ctx[x]
            \/ /\ {d.ctx[x].token, rt'.ctx[x].token} \subseteq LaneSet \cup {NoRequest}
               /\ rt'.ctx[x].token \in {d.ctx[x].token, NoRequest}
               /\ rt'.ctx[x].token = NoRequest => rt'.ctx[x].state \notin {"QUEUED", "RUNNING"}
        BY <1>6, <1>11, <2>4 DEF Touches
      <4> QED
        BY <3>3, <4>1, <4>2
    <3> QED
      BY <3>1, <3>2, <3>3 DEF Touches
  <2>6. InPlace(rt, rt', worker', LaneSet, LaneSet)
    <3>1. ASSUME NEW i \in 1 .. Len(worker.batch)
          PROVE  LaneOK(rt', worker', i, worker.batch[i])
      <4>1. worker.batch[i] = r
        BY <1>2, <1>6, <1>11
      <4>2. LaneBound(rt', worker', i, r)
        BY <1>11, <2>4 DEF LaneBound
      <4> QED
        BY <2>4, <4>1, <4>2 DEF LaneOK
    <3> QED
      BY <1>2, <3>1 DEF InPlace, Turns
  <2>7. Results(rt', direct # "none")
    BY <1>2, <1>7, <2>4
  <2> QED
    BY <1>9, <2>5, <2>6, <2>7 DEF LaneStep
<1> QED
  BY <1>10, <1>11

(* The run is over. *)
LEMMA RunEndSound ==
  ASSUME NEW b, IInv(b), NEW outcome \in {"OK", "FAIL", "PENDING", "REFUSED"}, RunEnd(outcome)
  PROVE  Kept(b) /\ BatchOK(rt', worker')
<1> DEFINE r == Lane(1)  d == SettledLanes(rt, outcome)
           e == IF outcome = "REFUSED" THEN SetCtx(d, r, Unreserve(ContextOf(d, r), r)) ELSE d
<1>1. /\ rt \in CoordinatorType /\ BatchOK(rt, worker) /\ LaneSet \in SUBSET Requests /\ now \in Nat
  BY HeldByInvariant
<1>2. /\ worker.pc = "run" /\ submit' = submit /\ direct' = direct
      /\ outcome = "REFUSED" => Single /\ BoundBatch
      /\ rt' = IF BoundBatch /\ outcome # "PENDING" THEN SettleRun(rt, outcome) ELSE rt
      /\ worker' = [worker EXCEPT !.pc = "done", !.outcome = outcome, !.at = now]
  BY DEF RunEnd
<1>3. Turns(worker') /\ worker'.pc = "done" /\ worker'.outcome = outcome
  BY <1>1, <1>2 DEF Turns, BatchOK, WorkerType
<1>4. Light(rt, rt')
  <2>1. Light(rt, rt)
    BY <1>1 DEF Light, SameCore, SameClaims, SameCourse, SameLists, SameCounters
  <2>2. Light(rt, d) /\ d \in CoordinatorType /\ d.req = rt.req
    BY <1>1, SettledLanesEffect DEF SettlesAll, Light
  <2>3. r \in Requests
    BY <1>2, LanesRun DEF Lane
  <2>4. SettleRun(rt, outcome) = IF Single /\ outcome # "OK" THEN TicketRelease(e, r) ELSE e
    BY DEF SettleRun, SettledLanes
  <2> HIDE DEF d, r
  <2>5. Light(rt, e) /\ e \in CoordinatorType
    <3>1. Bound(d, r) => Unreserve(ContextOf(d, r), r) \in ContextType
      BY <2>2, <2>3, Typed, ContextFunctions
    <3>2. Light(d, SetCtx(d, r, Unreserve(ContextOf(d, r), r)))
      BY <2>2, <2>3, <3>1, ContextSet
    <3>3. Light(rt, SetCtx(d, r, Unreserve(ContextOf(d, r), r)))
      BY <2>2, <3>2, LightIsTransitive
    <3> QED
      BY <2>2, <3>3 DEF Light
  <2> HIDE DEF e
  <2>6. Light(rt, TicketRelease(e, r))
    <3>1. Light(e, TicketRelease(e, r))
      BY <2>3, <2>5, TicketReleased
    <3> QED
      BY <2>5, <3>1, LightIsTransitive
  <2> QED
    BY <1>2, <2>1, <2>4, <2>5, <2>6
<1>5. LaneTurn
  BY <1>2, <1>3, <1>4 DEF LaneTurn, Turns
<1>6. ASSUME b PROVE \E R : LaneStep(R)
  <2>1. CASE BoundBatch /\ outcome # "PENDING"
    <3>1. outcome \in {"OK", "FAIL", "REFUSED"} /\ rt' = SettleRun(rt, outcome)
      BY <1>2, <2>1
    <3>2. LaneStep(LaneSet)
      BY <1>2, <1>3, <1>6, <2>1, <3>1, RunSettles
    <3> QED
      BY <3>2
  <2>2. CASE ~(BoundBatch /\ outcome # "PENDING")
    <3>1. rt' = rt
      BY <1>2, <2>2
    <3>2. LaneStep({})
      BY <1>2, <1>3, <1>6, <2>2, <3>1, RunLeaves
    <3> QED
      BY <3>2
  <2> QED
    BY <2>1, <2>2
<1> QED
  BY <1>5, <1>6, LaneStepSound

PutOutput(q, result) == [q EXCEPT !.ticket = FALSE, !.result = result]
(* A result takes the place of the output ticket. *)
HandsOver(c, d, r, result) ==
  /\ d \in CoordinatorType /\ Only(c, d, r)
  /\ ~d.req[r].ticket /\ d.req[r].token = c.req[r].token /\ d.req[r].result = result
  /\ SameClaims(c.req[r], d.req[r])
  /\ d.req[r].spec = c.req[r].spec /\ d.req[r].submitted = c.req[r].submitted
  /\ d.req[r].state = c.req[r].state
  /\ d.req[r].cancel = c.req[r].cancel /\ d.req[r].superseded = c.req[r].superseded
  /\ d.ctx = c.ctx /\ d.results = c.results /\ SameLists(c, d) /\ SameCounters(c, d)

(* A record whose ticket became its result's. *)
LEMMA OutputField ==
  ASSUME NEW q \in RequestType, NEW result \in {"none", "pending", "arrived", "lost", "ready", "held", "gone"}
  PROVE  LET p == PutOutput(q, result)
         IN  /\ p \in RequestType /\ ~p.ticket /\ p.token = q.token /\ p.result = result /\ SameClaims(q, p)
             /\ p.spec = q.spec /\ p.submitted = q.submitted /\ p.state = q.state
             /\ p.cancel = q.cancel /\ p.superseded = q.superseded
BY DEF PutOutput, RequestType, SameClaims

(* That is what Resulted does. *)
LEMMA ResultedEffect ==
  ASSUME NEW c \in CoordinatorType, NEW r \in Requests,
         NEW result \in {"none", "pending", "arrived", "lost", "ready", "held", "gone"}
  PROVE  HandsOver(c, Resulted(c, r, result), r, result)
<1> DEFINE p == PutOutput(c.req[r], result)  d == PutReq(c, r, p)
<1>1. c.req[r] \in RequestType
  BY Typed
<1>2. /\ p \in RequestType /\ ~p.ticket /\ p.token = c.req[r].token /\ p.result = result /\ SameClaims(c.req[r], p)
      /\ p.spec = c.req[r].spec /\ p.submitted = c.req[r].submitted /\ p.state = c.req[r].state
      /\ p.cancel = c.req[r].cancel /\ p.superseded = c.req[r].superseded
  BY <1>1, OutputField
<1>3. Resulted(c, r, result) = d
  BY DEF Resulted, PutReq, PutOutput, CoordinatorType
<1> HIDE DEF p
<1>4. /\ d \in CoordinatorType /\ d.req[r] = p /\ Only(c, d, r)
      /\ d.ctx = c.ctx /\ d.results = c.results /\ SameLists(c, d) /\ SameCounters(c, d)
  BY <1>2, ReplacedRecord
<1> HIDE DEF d
<1>5. HandsOver(c, d, r, result)
  BY <1>2, <1>4 DEF HandsOver
<1> QED
  BY <1>3, <1>5

(* What a lane has when the run is over. *)
LaneDone(c, r) ==
  CASE worker.outcome = "OK" ->
         /\ c.req[r].ticket /\ ~c.req[r].token
         /\ Bound(c, r) => ContextOf(c, r).token = r /\ ContextOf(c, r).state \notin {"QUEUED", "RUNNING"}
    [] worker.outcome = "PENDING" ->
         /\ c.req[r].ticket /\ ~c.req[r].token
         /\ Bound(c, r) => ContextOf(c, r).token = r /\ ContextOf(c, r).state = "RUNNING"
    [] OTHER -> /\ ~c.req[r].token
                /\ Bound(c, r) => IF ContextOf(c, r).token = r
                                  THEN ContextOf(c, r).state \notin {"QUEUED", "RUNNING"}
                                  ELSE ~c.req[r].ticket

(* What a lane holds when the run is over. *)
LEMMA LaneIsDone ==
  ASSUME NEW c \in CoordinatorType, NEW s, NEW L, NEW running, Reservations(c, s, worker, L, running),
         worker.pc = "done", NEW r \in L, r \in LaneSet, r \in Requests
  PROVE  LaneDone(c, r)
<1>1. PICK i \in 1 .. Len(worker.batch) : r = worker.batch[i]
  BY DEF LaneSet, Lane
<1>2. LaneOK(c, worker, i, r)
  BY <1>1 DEF Reservations
<1>3. CASE Bound(c, r)
  <2>1. LaneBound(c, worker, i, r)
    BY <1>2, <1>3 DEF LaneOK
  <2>2. CASE worker.outcome = "OK"
    BY <2>1, <2>2 DEF LaneBound, LaneDone, Settled
  <2>3. CASE worker.outcome = "PENDING"
    BY <2>1, <2>3 DEF LaneBound, LaneDone, Runs
  <2>4. CASE worker.outcome \notin {"OK", "PENDING"}
    <3>1. Settled(c, r) \/ Released(c, r)
      BY <2>1, <2>4 DEF LaneBound
    <3> QED
      BY <2>4, <3>1 DEF LaneDone, Settled, Released
  <2> QED
    BY <2>2, <2>3, <2>4
<1>4. CASE ~Bound(c, r)
  <2>1. c.req[r].ticket
    BY <1>2, <1>4 DEF LaneOK
  <2>2. ~c.req[r].token
    BY <1>4 DEF Reservations, TokenOK
  <2> QED
    BY <1>4, <2>1, <2>2 DEF LaneDone
<1> QED
  BY <1>3, <1>4

(* A lane ends with the run. *)
LaneEnds(b, c, d, s, L, staging, running, r) ==
  /\ d \in CoordinatorType /\ Sound(b, d, s, worker, L \ {r}, staging, running) /\ Decided(c, d)
(* Its result stays on the device. *)
LEMMA LanePends ==
  ASSUME NEW b, NEW c, NEW s, NEW L, NEW staging, NEW running,
         Sound(b, c, s, worker, L, staging, running), worker.pc = "done", NEW r \in L, r \in LaneSet,
         worker.outcome = "PENDING", NEW d, HandsOver(c, d, r, "pending")
  PROVE  LaneEnds(b, c, d, s, L, staging, running, r)
<1>1. Accounts(c, s, L, staging)
  BY DEF Sound
<1>2. /\ c \in CoordinatorType /\ d \in CoordinatorType /\ L \in SUBSET Requests /\ r \in Requests
      /\ \A q \in Requests : Placed(c.req[q], s[q].pc, s[q].victim, q \in L)
  BY <1>1, Parts DEF HandsOver
<1>3. c.req[r].state = "RUNNING" /\ c.req[r].result = "none" /\ s[r].pc = "accepted"
  BY <1>2 DEF Placed
<1>4. \A q \in Requests : q # r => d.req[q] = c.req[q]
  BY DEF HandsOver, Only
<1>5. \A q \in Requests : /\ SameClaims(c.req[q], d.req[q])
                          /\ d.req[q].spec = c.req[q].spec /\ d.req[q].cancel = c.req[q].cancel
                          /\ d.req[q].superseded = c.req[q].superseded
                          /\ d.req[q].result = IF q = r THEN "pending" ELSE c.req[q].result
                          /\ d.req[q].state = c.req[q].state
  BY <1>4 DEF HandsOver, SameClaims
<1>6. Accounts(d, s, L \ {r}, staging)
  <2>1. SameLists(c, d) /\ SameCounters(c, d)
    BY DEF HandsOver
  <2> QED
    BY <1>1, <1>2, <1>5, <2>1, PendKeeps
<1>7. Decided(c, d)
  BY <1>5 DEF Decided, Decides, Terminal
<1>8. ASSUME b PROVE Reservations(d, s, worker, L \ {r}, running)
  <2>1. Reservations(c, s, worker, L, running)
    BY <1>8 DEF Sound
  <2>2. /\ c.req[r].ticket /\ ~c.req[r].token
        /\ Bound(c, r) => ContextOf(c, r).token = r /\ ContextOf(c, r).state = "RUNNING"
    <3>1. LaneDone(c, r)
      BY <1>2, <2>1, LaneIsDone
    <3> QED
      BY <3>1 DEF LaneDone
  <2>3. /\ ~d.req[r].ticket /\ ~d.req[r].token /\ d.req[r].state = "RUNNING" /\ d.ctx = c.ctx
        /\ d.results = c.results /\ ContextOf(d, r) = ContextOf(c, r) /\ (Bound(d, r) <=> Bound(c, r))
    BY <1>3, <1>5, <2>2 DEF HandsOver, ContextOf, Bound
  <2>4. Elsewhere(c, d, {r})
    BY <1>4, <2>3 DEF Elsewhere, SameStay, SameHold
  <2>5. Aside(c, s, s, L, L \ {r}, {r})
    BY DEF Aside
  <2>6. /\ TicketOK(d.req[r], s[r].pc, s[r].victim, FALSE)
        /\ TokenOK(d, r, LeftBy(s, r), FALSE)
    BY <1>3, <2>2, <2>3 DEF TicketOK, TokenOK, Terminal
  <2>7. ASSUME NEW x \in Contexts PROVE HolderOK(d, x)
    <3>1. HolderOK(c, x)
      BY <2>1 DEF Reservations
    <3>2. c.ctx[x].token # NoRequest => c.ctx[x].token \in Requests
      BY <1>2 DEF CoordinatorType, ContextType
    <3>3. \A q \in Requests : d.req[q].spec = c.req[q].spec /\ d.req[q].state = c.req[q].state
      BY <1>5
    <3>4. \A q \in Requests : d.req[q].token = c.req[q].token
      BY <1>4 DEF HandsOver
    <3> QED
      BY <2>3, <3>1, <3>2, <3>3, <3>4 DEF HolderOK
  <2>8. Results(d, running)
    <3>1. Results(c, running)
      BY <2>1 DEF Reservations
    <3>2. \A q \in Requests : q # r => d.req[q].ticket = c.req[q].ticket
                                       /\ (Delivers(d.req[q]) <=> Delivers(c.req[q]))
      BY <1>4
    <3>3. /\ Release(c.req[r].ticket) = 1 /\ Release(d.req[r].ticket) = 0
          /\ Release(Delivers(c.req[r])) = 0 /\ Release(Delivers(d.req[r])) = 1
          /\ Release(running) \in Int
      <4>1. d.req[r].result = "pending"
        BY <1>2, <1>5
      <4>2. Delivers(d.req[r]) /\ ~Delivers(c.req[r])
        BY <1>3, <4>1 DEF Delivers
      <4>3. /\ Release(Delivers(c.req[r])) = 0 /\ Release(Delivers(d.req[r])) = 1
        BY <4>2 DEF Release
      <4>4. Release(c.req[r].ticket) = 1 /\ Release(d.req[r].ticket) = 0
        BY <2>2, <2>3 DEF Release
      <4> QED
        BY <4>3, <4>4, ReleaseCounts
    <3>4. c.results \in Int /\ c.results <= MaxResults
      BY <1>2, <3>1 DEF Results, CoordinatorType
    <3>5. /\ d.results = c.results - Release(c.req[r].ticket) + Release(d.req[r].ticket)
                           - Release(Delivers(c.req[r])) + Release(Delivers(d.req[r]))
                           - Release(running) + Release(running)
          /\ d.results <= MaxResults
      BY <2>3, <3>3, <3>4
    <3> QED
      BY <1>2, <3>1, <3>2, <3>5, ResultsOne
  <2>9. L \ {r} \in SUBSET Requests /\ {r} \in SUBSET Requests
    BY <1>2
  <2>10. \A q \in {r} : /\ q \notin L \ {r} /\ TicketOK(d.req[q], s[q].pc, s[q].victim, FALSE)
                        /\ TokenOK(d, q, LeftBy(s, q), FALSE)
    BY <2>6
  <2>11. \A x \in Contexts : d.ctx[x] # c.ctx[x] \/ c.ctx[x].token \in {r} => HolderOK(d, x)
    BY <2>7
  <2> QED
    BY <1>2, <2>1, <2>4, <2>5, <2>8, <2>9, <2>10, <2>11, AwayKeeps
<1> QED
  BY <1>2, <1>6, <1>7, <1>8 DEF LaneEnds, Sound

(* A lane that ran to its end, or failed, has ended. *)
LEMMA LaneFinishes ==
  ASSUME NEW b, NEW c, NEW s, NEW L, NEW staging, NEW running,
         Sound(b, c, s, worker, L, staging, running), worker.pc = "done", NEW r \in L, r \in LaneSet,
         NEW d, EndedAs(c, d, r, worker.at), b => EndedHold(c, d, r), b => d.results <= c.results
  PROVE  LaneEnds(b, c, d, s, L, staging, running, r)
<1>1. Accounts(c, s, L, staging)
  BY DEF Sound
<1>2. /\ c \in CoordinatorType /\ d \in CoordinatorType /\ L \in SUBSET Requests /\ r \in Requests
      /\ \A q \in Requests : Placed(c.req[q], s[q].pc, s[q].victim, q \in L)
  BY <1>1, Parts DEF EndedAs
<1>3. c.req[r].state = "RUNNING" /\ s[r].pc = "accepted"
  BY <1>2 DEF Placed
<1>4. Accounts(d, s, L \ {r}, staging)
  BY <1>1, <1>2, <1>3, EndKeeps
<1>5. Decided(c, d)
  <2>1. When(r) = worker.at
    BY DEF When
  <2> QED
    BY <1>2, <1>3, <2>1, EndDecided
<1>6. ASSUME b PROVE Reservations(d, s, worker, L \ {r}, running)
  <2>1. Reservations(c, s, worker, L, running)
    BY <1>6 DEF Sound
  <2>2. Only(c, d, r) /\ d.req[r].spec = c.req[r].spec /\ d.req[r].state \in Terminal
    BY DEF EndedAs
  <2> QED
    BY <1>2, <1>3, <1>6, <2>1, <2>2, EndHolds
<1> QED
  BY <1>2, <1>4, <1>5, <1>6 DEF LaneEnds, Sound

(* Its result was handed over first. *)
LEMMA HandedEnds ==
  ASSUME NEW c \in CoordinatorType, NEW r \in Requests, NEW e, HandsOver(c, e, r, "ready"),
         NEW d, NEW at, EndedAs(e, d, r, at)
  PROVE  EndedAs(c, d, r, at)
<1>1. Only(c, d, r)
  BY DEF HandsOver, EndedAs, Only
<1>2. /\ d.req[r].spec = c.req[r].spec /\ d.req[r].submitted = c.req[r].submitted
      /\ d.req[r].superseded = c.req[r].superseded /\ (c.req[r].cancel => d.req[r].cancel)
      /\ d.req[r].state \in Terminal /\ Clear(d.req[r])
      /\ d.req[r].result = IF d.req[r].state = "SUCCEEDED" THEN "held" ELSE "none"
  BY DEF HandsOver, EndedAs
<1>3. /\ c.req[r].superseded => d.req[r].state = "SUPERSEDED"
      /\ c.req[r].cancel /\ ~c.req[r].superseded => d.req[r].state = "CANCELLED"
  BY DEF HandsOver, EndedAs
<1>4. d.req[r].state = "SUCCEEDED" /\ Hard(c, r) => ~Late(c, r, at)
  BY DEF HandsOver, EndedAs, Hard, Late
<1>5. /\ d.inflight = c.inflight \ {r}
      /\ d.queue = c.queue /\ d.replacements = c.replacements /\ d.stopping = c.stopping
  BY DEF HandsOver, EndedAs, SameLists
<1>6. /\ e.req[r].counted = c.req[r].counted /\ e.req[r].bytes = c.req[r].bytes
      /\ e.req[r].claim = c.req[r].claim
  BY DEF HandsOver, SameClaims
<1>7. /\ d.requests = c.requests - Release(c.req[r].counted)
      /\ d.bytes = c.bytes - c.req[r].bytes
      /\ d.waiters = c.waiters - Release(c.req[r].claim)
  BY <1>6 DEF HandsOver, EndedAs, SameCounters
<1>8. d \in CoordinatorType
  BY DEF EndedAs
<1> QED
  BY <1>1, <1>2, <1>3, <1>4, <1>5, <1>7, <1>8 DEF EndedAs

(* One lane is retired. *)
LEMMA RetireLaneSound ==
  ASSUME NEW b, NEW c, NEW s, NEW L, NEW staging, NEW running,
         Sound(b, c, s, worker, L, staging, running), worker.pc = "done", NEW r \in L, r \in LaneSet
  PROVE  LaneEnds(b, c, RetireLane(c, r), s, L, staging, running, r)
<1> DEFINE d == RetireLane(c, r)
<1>1. Accounts(c, s, L, staging)
  BY DEF Sound
<1>2. /\ c \in CoordinatorType /\ staging \in Nat /\ r \in Requests /\ Counted(c, staging)
      /\ \A q \in Requests : Placed(c.req[q], s[q].pc, s[q].victim, q \in L)
  BY <1>1, Parts
<1>3. c.req[r].state = "RUNNING" /\ c.req[r].result = "none" /\ s[r].pc = "accepted" /\ c.req[r].budget
  BY <1>2 DEF Placed, Terminal, Claims
<1>4. c.req[r].bytes <= c.bytes
  BY <1>2, BytesIncluded
<1>5. b => LaneDone(c, r)
  <2>1. b => Reservations(c, s, worker, L, running)
    BY DEF Sound
  <2> QED
    BY <1>2, <2>1, LaneIsDone
<1>6. CASE worker.outcome = "PENDING"
  <2>1. HandsOver(c, d, r, "pending")
    BY <1>2, <1>6, ResultedEffect DEF RetireLane
  <2> HIDE DEF d
  <2>2. LaneEnds(b, c, d, s, L, staging, running, r)
    BY <1>6, <2>1, LanePends
  <2> QED
    BY <2>2 DEF d
<1>7. CASE worker.outcome = "OK"
  <2> DEFINE e == Resulted(c, r, "ready")
  <2>1. HandsOver(c, e, r, "ready")
    BY <1>2, ResultedEffect
  <2>2. d = Finish(e, r, "OK", worker.at)
    BY <1>7 DEF RetireLane
  <2> HIDE DEF d, e
  <2>3. e \in CoordinatorType /\ e.req[r].budget /\ e.req[r].bytes <= e.bytes
    BY <1>3, <1>4, <2>1 DEF HandsOver, SameClaims, SameCounters
  <2>4. EndedAs(e, d, r, worker.at) /\ (MayFinish(e, r, "OK") => EndedHold(e, d, r))
    BY <1>2, <2>2, <2>3, FinishEffect
  <2>5. EndedAs(c, d, r, worker.at)
    BY <1>2, <2>1, <2>4, HandedEnds
  <2>6. ASSUME b PROVE EndedHold(c, d, r) /\ d.results <= c.results
    <3>1. /\ c.req[r].ticket /\ ~c.req[r].token
          /\ Bound(c, r) => ContextOf(c, r).token = r /\ ContextOf(c, r).state \notin {"QUEUED", "RUNNING"}
      BY <1>5, <1>7, <2>6 DEF LaneDone
    <3>2. e.req[r].spec = c.req[r].spec /\ e.ctx = c.ctx /\ e.results = c.results
          /\ e.req[r].result = "ready" /\ ~e.req[r].ticket /\ ~e.req[r].token
      BY <2>1, <3>1 DEF HandsOver
    <3>3. ContextOf(e, r) = ContextOf(c, r) /\ (Bound(e, r) <=> Bound(c, r))
      BY <3>2 DEF ContextOf, Bound
    <3>4. MayFinish(e, r, "OK")
      BY <3>1, <3>2, <3>3 DEF MayFinish
    <3>5. EndedHold(e, d, r)
      BY <2>4, <3>4
    <3>6. /\ Release(c.req[r].ticket) = 1 /\ Release(e.req[r].ticket) = 0
          /\ Release(Delivers(c.req[r])) = 0 /\ Release(Delivers(e.req[r])) = 1
      <4>1. Delivers(e.req[r]) /\ ~Delivers(c.req[r])
        BY <1>3, <3>2 DEF Delivers
      <4> QED
        BY <3>1, <3>2, <4>1 DEF Release
    <3>7. Release(Delivers(d.req[r])) \in {0, 1} /\ c.results \in Int
      BY <1>2, ReleaseCounts DEF CoordinatorType
    <3>8. d.results = e.results - Release(e.req[r].ticket)
                        - Release(Delivers(e.req[r])) + Release(Delivers(d.req[r]))
      BY <3>5 DEF EndedHold
    <3>9. /\ d.results = c.results - Release(c.req[r].ticket)
                           - Release(Delivers(c.req[r])) + Release(Delivers(d.req[r]))
          /\ d.results <= c.results
      BY <3>2, <3>6, <3>7, <3>8
    <3>10. EndedHold(c, d, r)
      BY <3>2, <3>3, <3>5, <3>9 DEF EndedHold
    <3> QED
      BY <3>9, <3>10
  <2>7. LaneEnds(b, c, d, s, L, staging, running, r)
    BY <2>5, <2>6, LaneFinishes
  <2> QED
    BY <2>7 DEF d
<1>8. CASE worker.outcome \notin {"PENDING", "OK"}
  <2>1. d = Finish(c, r, "FAIL", worker.at)
    BY <1>8 DEF RetireLane
  <2> HIDE DEF d
  <2>2. /\ EndedAs(c, d, r, worker.at) /\ d.req[r].state # "SUCCEEDED"
        /\ MayFinish(c, r, "FAIL") => EndedHold(c, d, r)
    BY <1>2, <1>3, <1>4, <2>1, FinishEffect
  <2>3. ASSUME b PROVE EndedHold(c, d, r) /\ d.results <= c.results
    <3>1. /\ ~c.req[r].token
          /\ Bound(c, r) => IF ContextOf(c, r).token = r
                            THEN ContextOf(c, r).state \notin {"QUEUED", "RUNNING"}
                            ELSE ~c.req[r].ticket
      BY <1>5, <1>8, <2>3 DEF LaneDone
    <3>2. MayFinish(c, r, "FAIL")
      BY <1>3, <3>1 DEF MayFinish
    <3>3. EndedHold(c, d, r)
      BY <2>2, <3>2
    <3>4. d.req[r].result = "none"
      BY <2>2 DEF EndedAs
    <3>5. Release(Delivers(d.req[r])) = 0 /\ Release(Delivers(c.req[r])) = 0
      BY <1>3, <3>4 DEF Delivers, Release
    <3>6. Release(c.req[r].ticket) \in {0, 1} /\ c.results \in Int
      BY <1>2, ReleaseCounts DEF CoordinatorType
    <3>7. d.results <= c.results
      BY <3>3, <3>5, <3>6 DEF EndedHold
    <3> QED
      BY <3>3, <3>7
  <2>4. LaneEnds(b, c, d, s, L, staging, running, r)
    BY <2>2, <2>3, LaneFinishes
  <2> QED
    BY <2>4 DEF d
<1> QED
  BY <1>6, <1>7, <1>8

PutBytes(c, k) == [c EXCEPT !.bytes = k]
(* The stacked inputs are freed. *)
LEMMA BytesPut ==
  ASSUME NEW c \in CoordinatorType, NEW k \in Int
  PROVE  LET d == PutBytes(c, k)
         IN  /\ d \in CoordinatorType /\ d.req = c.req /\ d.ctx = c.ctx /\ d.results = c.results
BY DEF PutBytes, CoordinatorType

(* The worker without a batch. *)
LEMMA IdleTyped == Idle \in WorkerType /\ Idle.pc = "idle" /\ Idle.batch = <<>> /\ Idle.staging = 0
BY DEF Idle, WorkerType

(* The batch is retired. *)
LEMMA RetireSound ==
  ASSUME NEW b, IInv(b), Retire
  PROVE  Kept(b) /\ BatchOK(rt', worker')
<1> DEFINE running == direct # "none"  staging == worker.staging
           G == [X \in SUBSET LaneSet |-> {d \in CoordinatorType :
                   /\ Sound(b, d, submit, worker, LaneSet \ X, staging, running) /\ Decided(rt, d)}]
           e == FoldSet(LAMBDA r, c : RetireLane(c, r), rt, LaneSet)
<1>1. /\ Held(b) /\ rt \in CoordinatorType /\ LaneSet \in SUBSET Requests /\ BatchOK(rt, worker)
  BY HeldByInvariant
<1>2. /\ worker.pc = "done" /\ submit' = submit /\ direct' = direct /\ worker' = Idle
      /\ rt' = [e EXCEPT !.bytes = @ - staging]
  BY DEF Retire
<1>3. Sound(b, rt, submit, worker, LaneSet, staging, running)
  BY <1>1 DEF Held
<1> HIDE DEF running, staging
<1>4. rt \in G[{}]
  <2>1. Decided(rt, rt)
    BY DEF Decided, Decides, Terminal
  <2>2. LaneSet \ {} = LaneSet
    OBVIOUS
  <2> QED
    BY <1>1, <1>3, <2>1, <2>2
<1>5. ASSUME NEW X \in SUBSET LaneSet, NEW r \in X, NEW d \in G[X \ {r}]
      PROVE  RetireLane(d, r) \in G[X]
  <2> DEFINE M == LaneSet \ (X \ {r})  f == RetireLane(d, r)
  <2>1. /\ d \in CoordinatorType /\ Sound(b, d, submit, worker, M, staging, running) /\ Decided(rt, d)
    OBVIOUS
  <2>2. r \in M /\ r \in LaneSet /\ M \ {r} = LaneSet \ X
    OBVIOUS
  <2> HIDE DEF M
  <2>3. LaneEnds(b, d, f, submit, M, staging, running, r)
    BY <1>2, <2>1, <2>2, RetireLaneSound
  <2> HIDE DEF f
  <2>4. f \in CoordinatorType /\ Sound(b, f, submit, worker, LaneSet \ X, staging, running) /\ Decided(d, f)
    BY <2>2, <2>3 DEF LaneEnds
  <2>5. Decided(rt, f)
    BY <2>1, <2>4, DecidedIsTransitive
  <2> QED
    BY <2>4, <2>5 DEF f
<1> HIDE DEF G, e
<1>6. e \in G[LaneSet]
  BY <1>1, <1>4, <1>5, LaneEach DEF e
<1>7. e \in CoordinatorType /\ Sound(b, e, submit, worker, {}, staging, running) /\ Decided(rt, e)
  <2>1. LaneSet \ LaneSet = {} /\ LaneSet \in SUBSET LaneSet
    OBVIOUS
  <2> QED
    BY <1>6, <2>1 DEF G
<1> DEFINE d == PutBytes(e, e.bytes - staging)
<1>8. rt' = d /\ d = [e EXCEPT !.bytes = @ - staging]
  BY <1>2, <1>7 DEF PutBytes, CoordinatorType
<1>9. Accounts(e, submit, {}, staging)
  BY <1>7 DEF Sound
<1>10. Accounts(d, submit, {}, 0)
  BY <1>8, <1>9, UnstackedKeeps
<1>11. d \in CoordinatorType /\ d.req = e.req /\ d.ctx = e.ctx /\ d.results = e.results
  <2>1. e.bytes - staging \in Int
    <3>1. e.bytes \in Int /\ staging \in Nat
      BY <1>7, <1>9 DEF CoordinatorType, Accounts
    <3> QED
      BY <3>1
  <2> QED
    BY <1>7, <2>1, BytesPut
<1> HIDE DEF d
<1>12. ASSUME b PROVE Reservations(d, submit, worker, {}, running)
  <2>1. Reservations(e, submit, worker, {}, running)
    BY <1>7, <1>12 DEF Sound
  <2>2. \A q \in Requests : SameStay(e.req[q], d.req[q]) /\ (Delivers(d.req[q]) <=> Delivers(e.req[q]))
    BY <1>11 DEF SameStay, SameHold
  <2>3. {} \in SUBSET Requests
    OBVIOUS
  <2> QED
    BY <1>7, <1>11, <2>1, <2>2, <2>3, HoldsSame
<1>13. Sound(b, d, submit, worker, {}, 0, running)
  BY <1>10, <1>12 DEF Sound
<1>14. Sound(b, d, submit, Idle, {}, 0, running)
  BY <1>13, NoLanes
<1>15. worker'.batch = <<>> /\ worker'.staging = 0 /\ LaneSet' = {}
  BY <1>2, IdleTyped DEF LaneSet, Lane
<1>16. running = (direct' # "none")
  BY <1>2 DEF running
<1>17. Decided(rt, rt')
  BY <1>7, <1>8, <1>11 DEF Decided
<1>18. Kept(b)
  BY <1>2, <1>8, <1>14, <1>15, <1>16, <1>17 DEF Kept
<1>19. BatchOK(rt', worker')
  <2>1. IsInjective(worker'.batch)
    BY <1>15 DEF IsInjective
  <2> QED
    BY <1>2, <1>15, <2>1, IdleTyped DEF BatchOK
<1> QED
  BY <1>18, <1>19

-----------------------------------------------------------------------------
(* The specification.                                                      *)

(* A step that keeps the invariant and decides nothing anew. *)
Goes(b) ==
  /\ Kept(b) /\ BatchOK(rt', worker') /\ SwapsOver(submit')
  /\ now' \in Nat /\ direct' \in {"none", "run", "result"} /\ life' \in LifeType

(* The types that the invariant adds. *)
LEMMA PlacesTyped ==
  ASSUME NEW b, IInv(b)
  PROVE  /\ now \in Nat /\ direct \in {"none", "run", "result"} /\ life \in LifeType
         /\ Accounts(rt, submit, LaneSet, worker.staging) /\ BatchOK(rt, worker) /\ SwapsOver(submit)
BY DEF IInv

(* When the worker does not move, its batch is still in order. *)
LEMMA BatchRests ==
  ASSUME NEW b, IInv(b), Kept(b), worker' = worker
  PROVE  BatchOK(rt', worker')
<1>1. Accounts(rt, submit, LaneSet, worker.staging) /\ BatchOK(rt, worker) /\ Decided(rt, rt')
  BY PlacesTyped DEF Kept
<1>2. BatchOK(rt', worker)
  BY <1>1, BatchStays
<1> QED
  BY <1>2

(* A submission goes on. *)
LEMMA SubmissionKeeps ==
  ASSUME NEW b, IInv(b), NEW r \in Requests,
         (\E s \in Specs[r] : Create(r, s)) \/ Submitting(r)
  PROVE  Goes(b)
<1>1. Kept(b) /\ SwapsOver(submit')
  <2>1. CASE \E s \in Specs[r] : Create(r, s)
    <3>1. PICK s \in Specs[r] : Create(r, s)
      BY <2>1
    <3> QED
      BY <3>1, CreateSound
  <2>2. CASE Submitting(r)
    BY <2>2, AdmitSound, FinishSwapSound, AbandonSnapshotSound, CommitSound DEF Submitting
  <2> QED
    BY <2>1, <2>2
<1>2. UNCHANGED <<worker, direct, now>>
  BY DEF Create, Submitting, Admit, FinishSwap, AbandonSnapshot, Commit
<1>3. life' \in LifeType
  <2>1. life' = life \/ life' = [life EXCEPT !.created = TRUE]
    BY DEF Create, Submitting, Admit, FinishSwap, AbandonSnapshot, Commit
  <2> QED
    BY <2>1, PlacesTyped DEF LifeType
<1> QED
  BY <1>1, <1>2, <1>3, BatchRests, PlacesTyped DEF Goes

(* The worker goes on.  Only the settling of a lane needs that nobody has  *)
(* reserved the context it settles.                                        *)
LEMMA WorkerKeeps ==
  ASSUME NEW b, IInv(b), b => LaneUnclaimed, Working
  PROVE  Goes(b)
<1>1. Kept(b) /\ BatchOK(rt', worker')
  <2>1. CASE WorkerWake
    <3>1. /\ submit' = submit /\ direct' = direct /\ worker.pc \in {"idle", "pick"}
          /\ Step("pick") /\ rt' = Complete(rt)
      BY <2>1 DEF WorkerWake
    <3> QED
      BY <3>1, IdleSound
  <2>2. CASE WorkerExit
    <3>1. /\ submit' = submit /\ direct' = direct /\ worker.pc \in {"idle", "pick"}
          /\ Step("exited") /\ rt' = rt
      BY <2>2 DEF WorkerExit
    <3> QED
      BY <3>1, IdleSound
  <2>3. CASE WorkerPick
    BY <2>3, WorkerPickSound
  <2>4. CASE EnterRoute
    BY <2>4, EnterRouteSound
  <2>5. CASE RefuseSingle
    BY <2>5, RefuseSingleSound
  <2>6. CASE \E k \in 1 .. Len(worker.batch) : RefuseBatch(k)
    <3>1. PICK k \in 1 .. Len(worker.batch) : RefuseBatch(k)
      BY <2>6
    <3> QED
      BY <3>1, RefuseBatchSound
  <2>7. CASE UnreserveLane
    BY <2>7, UnreserveLaneSound
  <2>8. CASE SettleLane
    BY <2>8, SettleLaneSound
  <2>9. CASE Retire
    BY <2>9, RetireSound
  <2>10. CASE \E outcome \in {"OK", "FAIL", "PENDING", "REFUSED"} : RunEnd(outcome)
    <3>1. PICK outcome \in {"OK", "FAIL", "PENDING", "REFUSED"} : RunEnd(outcome)
      BY <2>10
    <3> QED
      BY <3>1, RunEndSound
  <2> QED
    BY <2>1, <2>2, <2>3, <2>4, <2>5, <2>6, <2>7, <2>8, <2>9, <2>10 DEF Working
<1>2. UNCHANGED <<submit, life, direct, now>>
  BY DEF Working, WorkerWake, WorkerExit, WorkerPick, EnterRoute, RefuseSingle, RefuseBatch,
         UnreserveLane, SettleLane, Retire, RunEnd
<1> QED
  BY <1>1, <1>2, PlacesTyped DEF Goes

(* A client, the device or a direct run goes on, or the clock does. *)
LEMMA ClientKeeps ==
  ASSUME NEW b, IInv(b),
         \/ \E r \in Requests : Arriving(r) \/ Cancel(r) \/ Discard(r)
         \/ \E x \in Contexts : CancelContext(x)
         \/ Poll \/ DirectBegin \/ DirectEnd \/ DirectRelease \/ Tick
  PROVE  Goes(b)
<1>1. Kept(b)
  <2>1. CASE \E r \in Requests : Arriving(r) \/ Cancel(r) \/ Discard(r)
    <3>1. PICK r \in Requests : Arriving(r) \/ Cancel(r) \/ Discard(r)
      BY <2>1
    <3>2. CASE Arriving(r)
      <4>1. PICK result \in {"arrived", "lost"} : DeviceDone(r, result)
        BY <3>2 DEF Arriving
      <4> QED
        BY <4>1, DeviceDoneSound
    <3> QED
      BY <3>1, <3>2, CancelSound, DiscardSound
  <2>2. CASE \E x \in Contexts : CancelContext(x)
    BY <2>2, CancelContextSound
  <2>3. CASE Poll
    <3>1. rt' = Complete(rt) /\ UNCHANGED <<submit, worker, direct>>
      BY <2>3 DEF Poll
    <3> QED
      BY <3>1, CompletesSound
  <2>4. CASE DirectBegin \/ DirectEnd \/ DirectRelease
    BY <2>4, DirectSound
  <2>5. CASE Tick
    <3>1. UNCHANGED <<rt, submit, worker, direct>>
      BY <2>5 DEF Tick
    <3> QED
      BY <3>1, NothingSound
  <2> QED
    BY <2>1, <2>2, <2>3, <2>4, <2>5
<1>2. UNCHANGED <<submit, worker, life>>
  BY DEF Arriving, DeviceDone, Cancel, Discard, CancelContext, Poll, DirectBegin, DirectEnd,
         DirectRelease, Tick
<1>3. now' \in Nat
  <2>1. now' = now \/ now' = now + 1
    BY DEF Arriving, DeviceDone, Cancel, Discard, CancelContext, Poll, DirectBegin, DirectEnd,
           DirectRelease, Tick
  <2> QED
    BY <2>1, PlacesTyped
<1>4. direct' \in {"none", "run", "result"}
  <2>1. direct' = direct \/ direct' \in {"none", "run", "result"}
    BY DEF Arriving, DeviceDone, Cancel, Discard, CancelContext, Poll, DirectBegin, DirectEnd,
           DirectRelease, Tick
  <2> QED
    BY <2>1, PlacesTyped
<1>5. SwapsOver(submit')
  BY <1>2, PlacesTyped
<1> QED
  BY <1>1, <1>2, <1>3, <1>4, <1>5, BatchRests, PlacesTyped DEF Goes

(* A thread in close goes on. *)
LEMMA CloseKeeps ==
  ASSUME NEW b, IInv(b), NEW k \in Closers, ClosingStep(k)
  PROVE  Goes(b)
<1>1. UNCHANGED <<submit, worker, direct, now>>
  BY DEF ClosingStep, CloseBegin, CloseStop, CloseDrain, CloseJoin, CloseComplete
<1>2. Kept(b)
  <2>1. CASE CloseBegin(k) \/ CloseJoin(k)
    <3>1. rt' = rt
      BY <2>1 DEF CloseBegin, CloseJoin
    <3> QED
      BY <1>1, <3>1, NothingSound
  <2>2. CASE CloseStop(k)
    BY <2>2, CloseStopSound
  <2>3. CASE CloseDrain(k)
    BY <2>3, CloseDrainSound
  <2>4. CASE CloseComplete(k)
    <3>1. rt' = Complete(rt)
      BY <2>4 DEF CloseComplete
    <3> QED
      BY <1>1, <3>1, CompletesSound
  <2> QED
    BY <2>1, <2>2, <2>3, <2>4 DEF ClosingStep
<1>3. life' \in LifeType
  <2>1. \/ life' = life \/ life' = [life EXCEPT !.closed = TRUE]
        \/ life' = [life EXCEPT !.joined = TRUE]
        \/ life' = [life EXCEPT !.joinStarted = @ \/ k # Callback]
    BY DEF ClosingStep, CloseBegin, CloseStop, CloseDrain, CloseJoin, CloseComplete
  <2> QED
    BY <2>1, PlacesTyped DEF LifeType
<1>4. SwapsOver(submit')
  BY <1>1, PlacesTyped
<1> QED
  BY <1>1, <1>2, <1>3, <1>4, BatchRests, PlacesTyped DEF Goes

(* Every step keeps the invariant, and lets the first cause decide. *)
LEMMA StepKeeps ==
  ASSUME NEW b, IInv(b), b => LaneUnclaimed, [Next]_vars
  PROVE  Goes(b)
<1>1. CASE \E r \in Requests : (\E s \in Specs[r] : Create(r, s)) \/ Submitting(r)
  BY <1>1, SubmissionKeeps
<1>2. CASE Working
  BY <1>2, WorkerKeeps
<1>3. CASE \/ \E r \in Requests : Arriving(r) \/ Cancel(r) \/ Discard(r)
           \/ \E x \in Contexts : CancelContext(x)
           \/ Poll \/ DirectBegin \/ DirectEnd \/ DirectRelease \/ Tick
  BY <1>3, ClientKeeps
<1>4. CASE \E k \in Closers : ClosingStep(k)
  BY <1>4, CloseKeeps
<1>5. CASE UNCHANGED vars
  <2>1. UNCHANGED <<rt, submit, worker, life, direct, now>>
    BY <1>5 DEF vars
  <2>2. Kept(b)
    BY <2>1, NothingSound
  <2>3. SwapsOver(submit')
    BY <2>1, PlacesTyped
  <2> QED
    BY <2>1, <2>2, <2>3, BatchRests, PlacesTyped DEF Goes
<1> QED
  BY <1>1, <1>2, <1>3, <1>4, <1>5 DEF Next

(* That is the invariant of the next state. *)
LEMMA InvariantKept ==
  ASSUME NEW b \in BOOLEAN, IInv(b), b => LaneUnclaimed, [Next]_vars
  PROVE  IInv(b)'
<1>1. Goes(b)
  BY StepKeeps
<1> QED
  BY <1>1 DEF Goes, Kept, Sound, IInv

(* Nobody has bytes. *)
LEMMA BytesZero ==
  ASSUME NEW c, \A r \in Requests : c.req[r].bytes = 0
  PROVE  Bytes(c) = 0
<1> DEFINE P == SUBSET Requests
           G == [X \in P |-> {0}]
<1>1. \A X \in P : X = {} => 0 \in G[X]
  OBVIOUS
<1>2. \A X \in P : X # {} =>
        /\ X \ {AnyOf(X)} \in P
        /\ \A n \in G[X \ {AnyOf(X)}] : SumOp(c, AnyOf(X), n) \in G[X]
  <2> TAKE X \in P
  <2> HAVE X # {}
  <2>1. AnyOf(X) \in X
    BY DEF AnyOf
  <2>2. c.req[AnyOf(X)].bytes + 0 = 0
    BY <2>1
  <2> QED
    BY <2>1, <2>2 DEF SumOp
<1>3. P \in SUBSET (SUBSET Requests) /\ Requests \in P
  OBVIOUS
<1>4. SumFold!Grounded(Requests) /\ SumFold!Chooses(Requests)
  BY RequestsGrounded
<1> HIDE DEF G, P
<1>5. SumFold!Fold(c, 0, Requests)[Requests] \in G[Requests]
  BY <1>1, <1>2, <1>3, <1>4, SumFold!Keeps
<1> QED
  BY <1>5, BytesFold DEF G, P

(* Before anything has happened. *)
LEMMA InitialCoordinator ==
  ASSUME Init
  PROVE  /\ rt \in CoordinatorType /\ submit \in SubmitType /\ worker = Idle
         /\ \A r \in Requests : /\ rt.req[r] = Unborn /\ submit[r].pc = "new"
                                /\ submit[r].victim = NoRequest
         /\ \A x \in Contexts : rt.ctx[x] = FreshContext
         /\ rt.queue = <<>> /\ rt.inflight = {} /\ rt.replacements = {}
         /\ rt.requests = 0 /\ rt.bytes = 0 /\ rt.waiters = 0 /\ rt.results = 0
         /\ direct = "none" /\ now = 0 /\ life \in LifeType
<1>1. Unborn \in RequestType
  <2>1. NoSpec \in Spec0
    BY RequestConstants, PolicyConstants DEF NoSpec, Spec0, Priorities
  <2> QED
    BY <2>1 DEF Unborn, RequestType, States
<1>2. FreshContext \in ContextType
  BY DEF FreshContext, ContextType, ContextStates
<1>3. /\ rt.req = [r \in Requests |-> Unborn] /\ rt.ctx = [x \in Contexts |-> FreshContext]
      /\ submit = [r \in Requests |-> [pc |-> "new", victim |-> NoRequest]]
      /\ rt.queue = <<>> /\ rt.inflight = {} /\ rt.replacements = {}
      /\ rt.requests = 0 /\ rt.bytes = 0 /\ rt.waiters = 0 /\ rt.results = 0
      /\ direct = "none" /\ now = 0 /\ worker = Idle
  BY DEF Init
<1>4. rt \in CoordinatorType
  BY <1>1, <1>2 DEF Init, CoordinatorType
<1>5. submit \in SubmitType
  BY DEF Init, SubmitType
<1>6. life \in LifeType
  BY DEF Init, LifeType
<1> QED
  BY <1>3, <1>4, <1>5, <1>6

(* Nothing is held, and nothing is counted. *)
LEMMA NothingCounted ==
  ASSUME NEW c, \A r \in Requests : c.req[r] = Unborn,
         c.requests = 0, c.waiters = 0, c.bytes = 0, c.results = 0
  PROVE  Counted(c, 0) /\ Results(c, FALSE)
<1>1. /\ {r \in Requests : c.req[r].counted} = {} /\ {r \in Requests : c.req[r].claim} = {}
      /\ {r \in Requests : c.req[r].ticket} = {}
      /\ {r \in Requests : c.req[r].result \notin {"none", "gone"}} = {}
  BY DEF Unborn
<1>2. Cardinality({}) = 0
  BY FS_EmptySet
<1>3. Bytes(c) = 0
  <2>1. \A r \in Requests : c.req[r].bytes = 0
    BY DEF Unborn
  <2>2. Bytes(c) = 0
    BY <2>1, BytesZero
  <2> QED
    BY <2>2
<1>4. MaxRequests \in Nat /\ MaxInputBytes \in Nat /\ MaxResults \in Nat
  BY RequestConstants
<1>5. Release(FALSE) = 0
  BY DEF Release
<1>6. Counted(c, 0)
  <2>1. /\ c.requests = Cardinality({r \in Requests : c.req[r].counted})
        /\ c.waiters = Cardinality({r \in Requests : c.req[r].claim})
    BY <1>1, <1>2
  <2>2. c.bytes = 0 + Bytes(c) /\ c.requests <= MaxRequests /\ c.bytes <= MaxInputBytes
    BY <1>3, <1>4
  <2> QED
    BY <2>1, <2>2 DEF Counted
<1>7. Results(c, FALSE)
  <2>1. /\ Cardinality({r \in Requests : c.req[r].ticket}) = 0
        /\ Cardinality({r \in Requests : c.req[r].result \notin {"none", "gone"}}) = 0
    BY <1>1, <1>2
  <2>2. c.results <= MaxResults
    BY <1>4
  <2>3. c.results = 0 + 0 + 0
    OBVIOUS
  <2> QED
    BY <1>5, <2>1, <2>2, <2>3 DEF Results
<1> QED
  BY <1>6, <1>7

(* The invariant holds at first. *)
LEMMA InvariantAtFirst ==
  ASSUME NEW b \in BOOLEAN, Init
  PROVE  IInv(b)
<1>1. LaneSet = {} /\ worker.batch = <<>> /\ worker.staging = 0 /\ worker.pc = "idle"
  BY InitialCoordinator, IdleTyped DEF LaneSet
<1>2. \A r \in Requests : /\ rt.req[r].spec = NoSpec /\ rt.req[r].state = "NONE"
                          /\ ~rt.req[r].cancel /\ ~rt.req[r].superseded /\ Clear(rt.req[r])
                          /\ rt.req[r].result = "none" /\ ~rt.req[r].ticket /\ ~rt.req[r].token
  BY InitialCoordinator DEF Unborn, Clear
<1>3. NoRequest \notin Requests /\ NoContext \notin Contexts
  BY RequestConstants
<1>4. Counted(rt, 0) /\ Results(rt, FALSE)
  BY InitialCoordinator, NothingCounted
<1>5. \A r \in Requests : Placed(rt.req[r], submit[r].pc, submit[r].victim, r \in LaneSet)
  BY <1>1, <1>2, InitialCoordinator DEF Placed, Absent, Terminal
<1>6. VictimsOK(rt, submit) /\ SwapsOver(submit)
  BY InitialCoordinator DEF VictimsOK, SwapsOver
<1>7. QueueOK(rt, submit)
  <2>1. Queued(rt) = {} /\ IsInjective(rt.queue)
    BY InitialCoordinator DEF Queued, IsInjective
  <2> QED
    BY <1>2, <2>1 DEF QueueOK
<1>8. ListsOK(rt, submit) /\ Streams(rt, submit)
  BY <1>2, InitialCoordinator DEF ListsOK, Streams, Deliverable
<1>9. Accounts(rt, submit, LaneSet, worker.staging)
  BY <1>1, <1>2, <1>4, <1>5, <1>6, <1>7, <1>8, InitialCoordinator DEF Accounts
<1>10. BatchOK(rt, worker)
  <2>1. IsInjective(worker.batch) /\ \A i \in 1 .. Len(worker.batch) : FALSE
    BY <1>1 DEF IsInjective
  <2> QED
    BY <1>1, <2>1, IdleTyped, InitialCoordinator DEF BatchOK
<1>11. Reservations(rt, submit, worker, LaneSet, FALSE)
  <2>1. \A r \in Requests : TicketOK(rt.req[r], submit[r].pc, submit[r].victim, r \in LaneSet)
    BY <1>1, <1>2, InitialCoordinator DEF TicketOK, Terminal
  <2>2. \A r \in Requests : TokenOK(rt, r, LeftBy(submit, r), r \in LaneSet)
    BY <1>1, <1>2, InitialCoordinator DEF TokenOK, Terminal
  <2>3. \A x \in Contexts : HolderOK(rt, x)
    BY InitialCoordinator DEF HolderOK, FreshContext
  <2>4. \A i \in 1 .. Len(worker.batch) : worker.batch[i] \notin LaneSet
    BY <1>1
  <2> QED
    BY <1>4, <2>1, <2>2, <2>3, <2>4 DEF Reservations
<1>12. direct = "none" /\ now \in Nat /\ life \in LifeType
  BY InitialCoordinator
<1> QED
  BY <1>6, <1>9, <1>10, <1>11, <1>12 DEF IInv

(* What the invariant says of one request, its submission and its context. *)
LEMMA RequestHolds ==
  ASSUME IInv(TRUE), NEW r \in Requests
  PROVE  /\ Placed(rt.req[r], submit[r].pc, submit[r].victim, r \in LaneSet)
         /\ TicketOK(rt.req[r], submit[r].pc, submit[r].victim, r \in LaneSet)
         /\ TokenOK(rt, r, LeftBy(submit, r), r \in LaneSet)
BY DEF IInv, Accounts, Reservations

(* A request that was not created, or was refused, asks for nothing. *)
LEMMA NoneIsAbsent ==
  ASSUME NEW b, IInv(b), NEW r \in Requests, rt.req[r].state = "NONE"
  PROVE  Absent(rt.req[r])
<1>1. Placed(rt.req[r], submit[r].pc, submit[r].victim, r \in LaneSet)
  BY HeldByInvariant
<1>2. submit[r].pc \in {"new", "admit", "swap", "snapshot", "accepted", "refused"}
  BY HeldByInvariant DEF SubmitType
<1> QED
  BY <1>1, <1>2 DEF Placed

(* The counters are natural numbers. *)
LEMMA CountersNatural ==
  ASSUME IInv(TRUE)
  PROVE  {rt.requests, rt.bytes, rt.waiters, rt.results} \subseteq Nat
<1>1. /\ rt \in CoordinatorType /\ worker.staging \in Nat
      /\ Counted(rt, worker.staging) /\ Results(rt, direct # "none")
  BY DEF IInv, Accounts, Reservations
<1>2. \A r \in Requests : rt.req[r].bytes \in Nat
  BY <1>1 DEF CoordinatorType, RequestType
<1>3. Bytes(rt) \in Nat
  BY <1>2, BytesBound
<1>4. /\ Cardinality({r \in Requests : rt.req[r].counted}) \in Nat
      /\ Cardinality({r \in Requests : rt.req[r].claim}) \in Nat
      /\ Cardinality({r \in Requests : rt.req[r].ticket}) \in Nat
      /\ Cardinality({r \in Requests : rt.req[r].result \notin {"none", "gone"}}) \in Nat
  BY RequestsGrounded
<1>5. Release(direct # "none") \in Nat
  BY DEF Release
<1>6. rt.requests \in Nat /\ rt.waiters \in Nat
  BY <1>1, <1>4 DEF Counted
<1>7. rt.bytes \in Nat
  BY <1>1, <1>3 DEF Counted
<1>8. rt.results \in Nat
  <2> DEFINE m == Cardinality({r \in Requests : rt.req[r].ticket})
             n == Cardinality({r \in Requests : rt.req[r].result \notin {"none", "gone"}})
             k == Release(direct # "none")
  <2>1. rt.results = m + k + n
    BY <1>1 DEF Results
  <2>2. m \in Nat /\ n \in Nat /\ k \in Nat
    BY <1>4, <1>5
  <2> HIDE DEF m, n, k
  <2> QED
    BY <2>1, <2>2
<1> QED
  BY <1>6, <1>7, <1>8

(* Every variable has its type. *)
LEMMA InvariantTypes ==
  ASSUME IInv(TRUE)
  PROVE  TypeOK
<1>1. rt \in CoordinatorType /\ submit \in SubmitType /\ BatchOK(rt, worker)
  BY DEF IInv, Accounts
<1>2. ASSUME NEW r \in Requests
      PROVE  /\ rt.req[r].spec \in Specs[r] \cup {NoSpec}
             /\ rt.req[r].state \in Terminal \cup {"NONE", "QUEUED", "RUNNING"}
             /\ rt.req[r].result \in {"none", "pending", "arrived", "lost", "ready",
                                      "held", "gone"}
             /\ submit[r].pc \in {"new", "admit", "swap", "snapshot", "accepted", "refused"}
             /\ submit[r].victim \in Requests \cup {NoRequest}
  <2>1. rt.req[r] \in RequestType
    BY <1>1 DEF CoordinatorType
  <2>2. rt.req[r].spec \in Specs[r] \cup {NoSpec}
    <3>1. rt.req[r].state # "NONE" => rt.req[r].spec \in Specs[r]
      BY DEF IInv, Accounts
    <3> QED
      BY <3>1, NoneIsAbsent DEF Absent
  <2>3. submit[r] \in [pc : {"new", "admit", "swap", "snapshot", "accepted", "refused"},
                       victim : Requests \cup {NoRequest}]
    BY <1>1 DEF SubmitType
  <2> QED
    BY <2>1, <2>2, <2>3 DEF RequestType, States
<1>3. ASSUME NEW x \in Contexts
      PROVE  /\ rt.ctx[x].state \in ContextStates
             /\ {rt.ctx[x].token, rt.ctx[x].call} \subseteq Requests \cup {NoRequest}
  <2>1. rt.ctx[x] \in ContextType
    BY <1>1 DEF CoordinatorType
  <2> QED
    BY <2>1 DEF ContextType
<1>4. rt.queue \in Seq(Requests) /\ IsInjective(rt.queue)
  BY <1>1 DEF CoordinatorType, IInv, Accounts, QueueOK
<1>5. /\ worker.pc \in {"idle", "pick", "route", "run", "settle", "unreserved", "done", "exited"}
      /\ direct \in {"none", "run", "result"}
  BY <1>1 DEF BatchOK, WorkerType, IInv
<1> QED
  BY <1>2, <1>3, <1>4, <1>5, CountersNatural DEF TypeOK

(* The counters are the sums of what is held. *)
LEMMA InvariantCounts ==
  ASSUME IInv(TRUE)
  PROVE  BudgetExact
<1>1. Counted(rt, worker.staging) /\ Results(rt, direct # "none")
  BY DEF IInv, Accounts, Reservations
<1>2. /\ Holding("counted") = {r \in Requests : rt.req[r].counted}
      /\ Holding("claim") = {r \in Requests : rt.req[r].claim}
      /\ Holding("ticket") = {r \in Requests : rt.req[r].ticket}
  BY DEF Holding
<1>3. /\ rt.requests = Cardinality(Holding("counted")) /\ rt.requests <= MaxRequests
      /\ rt.waiters = Cardinality(Holding("claim"))
  BY <1>1, <1>2 DEF Counted
<1>4. /\ rt.bytes = worker.staging + MapThenSumSet(LAMBDA r : rt.req[r].bytes, Requests)
      /\ rt.bytes <= MaxInputBytes
  BY <1>1 DEF Counted, Bytes
<1>5. /\ rt.results = Cardinality(Holding("ticket")) + Release(direct # "none") +
                        Cardinality({r \in Requests : rt.req[r].result \notin {"none", "gone"}})
      /\ rt.results <= MaxResults
  BY <1>1, <1>2 DEF Results
<1> QED
  BY <1>3, <1>4, <1>5 DEF BudgetExact

(* Who waits for a copy, and who is copied over. *)
LEMMA VictimsHeld ==
  ASSUME NEW r \in Requests
  PROVE  /\ r \in Victims("snapshot") <=> HeldBy(submit, r)
         /\ r \in Victims("swap") <=> LeftBy(submit, r)
<1>1. r # NoRequest
  BY RequestsAreNumbers
<1> QED
  BY <1>1 DEF Victims, HeldBy, LeftBy, At

Successors(r) == {q \in Requests : At(q, "snapshot") /\ submit[q].victim = r}

(* One frame at a time is replaced in a stream, so no frame is waited for  *)
(* by two successors.                                                      *)
LEMMA OnlyOneSuccessor ==
  ASSUME NEW b, IInv(b), NEW r \in Requests
  PROVE  Cardinality(Successors(r)) <= 1
<1> DEFINE S == Successors(r)
<1>1. VictimsOK(rt, submit) /\ ListsOK(rt, submit) /\ r # NoRequest
  BY RequestsAreNumbers DEF IInv, Accounts
<1>2. ASSUME NEW p \in S, NEW q \in S PROVE p = q
  <2>1. SameStream(rt, r, p) /\ SameStream(rt, r, q) /\ p \in Requests /\ q \in Requests
    BY <1>1 DEF VictimsOK, Successors
  <2>2. SameStream(rt, p, q) /\ rt.req[p].spec.freshness = "LATEST" /\ rt.req[q].spec.freshness = "LATEST"
    BY <2>1 DEF SameStream
  <2>3. p \in rt.replacements /\ q \in rt.replacements
    BY <1>1, <2>1, <2>2 DEF ListsOK, At, Successors
  <2> QED
    BY <1>1, <2>2, <2>3 DEF ListsOK
<1> HIDE DEF S
<1>3. CASE S = {}
  BY <1>3, FS_EmptySet DEF S
<1>4. CASE S # {}
  <2>1. PICK q \in S : TRUE
    BY <1>4
  <2>2. S = {q}
    BY <1>2, <2>1
  <2>3. Cardinality(S) = 1
    BY <2>2, FS_Singleton
  <2> QED
    BY <2>3 DEF S
<1> QED
  BY <1>3, <1>4

(* Every request is where it should be. *)
LEMMA InvariantAccounts ==
  ASSUME IInv(TRUE)
  PROVE  RequestsAccounted
<1>1. VictimsOK(rt, submit) /\ QueueOK(rt, submit) /\ ListsOK(rt, submit)
  BY DEF IInv, Accounts
<1>2. ASSUME NEW r \in Requests, At(r, "accepted"), r \in Live
      PROVE  /\ rt.req[r].claim /\ rt.req[r].counted
             /\ IF rt.req[r].state = "RUNNING"
                THEN r \in rt.inflight /\ r \notin Queued(rt) \cup Victims("snapshot")
                ELSE /\ r \notin rt.inflight
                     /\ r \in Queued(rt) <=> r \notin Victims("snapshot")
                     /\ Cardinality(Successors(r)) <= 1
  <2>1. submit[r].pc = "accepted" /\ rt.req[r].state \in {"QUEUED", "RUNNING"}
    BY <1>2 DEF At, Live
  <2>2. rt.req[r].claim /\ rt.req[r].counted
    BY <2>1, RequestHolds DEF Placed, Claims, Terminal
  <2>3. HeldBy(submit, r) => rt.req[r].state = "QUEUED"
    <3> SUFFICES ASSUME NEW q \in Requests, submit[q].pc = "snapshot", submit[q].victim = r
                 PROVE  rt.req[r].state = "QUEUED"
      BY DEF HeldBy
    <3> QED
      BY <1>1, RequestsAreNumbers DEF VictimsOK
  <2>4. CASE rt.req[r].state = "RUNNING"
    <3>1. r \in rt.inflight /\ r \notin Queued(rt)
      BY <1>1, <2>4 DEF ListsOK, QueueOK
    <3>2. r \notin Victims("snapshot")
      BY <2>3, <2>4, VictimsHeld
    <3> QED
      BY <2>2, <2>4, <3>1, <3>2
  <2>5. CASE rt.req[r].state = "QUEUED"
    <3>1. r \notin rt.inflight
      BY <1>1, <2>5 DEF ListsOK
    <3>2. r \in Queued(rt) <=> r \notin Victims("snapshot")
      BY <1>1, <2>1, <2>5, VictimsHeld DEF QueueOK
    <3>3. Cardinality(Successors(r)) <= 1
      BY OnlyOneSuccessor
    <3> QED
      BY <2>2, <2>5, <3>1, <3>2, <3>3
  <2> QED
    BY <2>1, <2>4, <2>5
<1>3. NothingLost
  BY <1>2 DEF NothingLost, Successors
<1>4. ASSUME NEW r \in Requests, rt.req[r].state \in Terminal
      PROVE  /\ r \notin Queued(rt) \cup rt.inflight
             /\ ~rt.req[r].budget /\ ~rt.req[r].counted /\ ~rt.req[r].claim
             /\ rt.req[r].bytes = 0
             /\ r \in Victims("swap") \/ (~rt.req[r].ticket /\ ~rt.req[r].token)
  <2>1. r \notin Queued(rt) /\ r \notin rt.inflight
    BY <1>1, <1>4 DEF QueueOK, ListsOK, Terminal
  <2>2. Clear(rt.req[r])
    BY <1>4, RequestHolds DEF Placed
  <2>3. ~rt.req[r].ticket
    BY <1>4, RequestHolds DEF TicketOK
  <2>4. rt.req[r].token => LeftBy(submit, r)
    BY <1>4, RequestHolds DEF TokenOK
  <2> QED
    BY <2>1, <2>2, <2>3, <2>4, VictimsHeld DEF Clear
<1>5. EndedHoldsNothing
  BY <1>4 DEF EndedHoldsNothing
<1> QED
  BY <1>3, <1>5 DEF RequestsAccounted

(* A context and the request that holds it agree. *)
LEMMA InvariantContexts ==
  ASSUME IInv(TRUE)
  PROVE  ContextsFollow
<1>1. rt \in CoordinatorType /\ \A x \in Contexts : HolderOK(rt, x)
  BY DEF IInv, Accounts, Reservations
<1>2. ASSUME NEW x \in Contexts, rt.ctx[x].token # NoRequest
      PROVE  /\ rt.ctx[x].token \in Live \cup Victims("swap")
             /\ rt.req[rt.ctx[x].token].spec.context = x
  <2>1. PICK r \in Requests : r = rt.ctx[x].token
    BY <1>1, <1>2 DEF CoordinatorType, ContextType
  <2>2. rt.req[r].spec.context = x /\ (rt.req[r].token \/ rt.req[r].state = "RUNNING")
    BY <1>1, <1>2, <2>1 DEF HolderOK
  <2>3. rt.req[r].state \in States
    BY <1>1 DEF CoordinatorType, RequestType
  <2>4. rt.req[r].state # "NONE"
    <3>1. x # NoContext
      BY RequestConstants
    <3>2. NoSpec.context = NoContext
      BY DEF NoSpec
    <3>3. rt.req[r].state = "NONE" => Absent(rt.req[r])
      BY NoneIsAbsent
    <3> QED
      BY <2>2, <3>1, <3>2, <3>3 DEF Absent
  <2>5. rt.req[r].token /\ rt.req[r].state \in Terminal => LeftBy(submit, r)
    BY RequestHolds DEF TokenOK
  <2>6. r \in Live \cup Victims("swap")
    BY <2>2, <2>3, <2>4, <2>5, VictimsHeld DEF Live, States, Terminal
  <2> QED
    BY <2>1, <2>2, <2>6
<1>3. ASSUME NEW r \in Holding("token")
      PROVE  ContextOf(rt, r).token = r
  BY <1>3, RequestHolds DEF Holding, TokenOK
<1> QED
  BY <1>2, <1>3 DEF ContextsFollow

(* The frames that can still be delivered are one per stream. *)
LEMMA InvariantStreams ==
  ASSUME NEW b, IInv(b)
  PROVE  OneFramePerStream
<1>1. /\ rt \in CoordinatorType /\ QueueOK(rt, submit) /\ ListsOK(rt, submit)
      /\ Streams(rt, submit) /\ Queued(rt) \subseteq Requests /\ rt.inflight \subseteq Requests
  BY PlacesTyped, Parts
<1>2. ASSUME NEW r \in Requests, r \in Queued(rt) \cup rt.inflight,
             ~rt.req[r].superseded, ~rt.req[r].cancel
      PROVE  Deliverable(rt, submit, r)
  <2>1. CASE r \in Queued(rt)
    BY <1>1, <1>2, <2>1 DEF QueueOK, Deliverable
  <2>2. CASE r \in rt.inflight
    <3>1. rt.req[r].state = "RUNNING"
      BY <1>1, <2>2 DEF ListsOK
    <3>2. submit[r].pc = "accepted"
      BY <3>1, HeldByInvariant DEF Placed
    <3> QED
      BY <1>2, <3>1, <3>2 DEF Deliverable
  <2> QED
    BY <1>2, <2>1, <2>2
<1> QED
  BY <1>1, <1>2 DEF OneFramePerStream, Streams

(* The properties that need no reservation: one frame of a stream can be   *)
(* delivered, and the first cause decides how a request ends.              *)
LEMMA GoesDecided ==
  ASSUME NEW b, IInv(b), Goes(b), NEW r \in Requests
  PROVE  LET old == rt.req[r]  new == rt'.req[r]
         IN  /\ old.state \in Terminal => new.state = old.state
             /\ old.state = "RUNNING" =>
                  /\ old.superseded => new.state \in {"RUNNING", "SUPERSEDED"}
                  /\ old.cancel /\ ~old.superseded => new.state \in {"RUNNING", "CANCELLED"}
                  /\ old.superseded => new.superseded
                  /\ old.cancel => new.cancel
             /\ new.result = "held" => new.state = "SUCCEEDED"
             /\ old.state = "RUNNING" /\ new.state = "SUCCEEDED" /\ Hard(rt, r) =>
                  ~Late(rt, r, IF r \in LaneSet THEN worker.at ELSE now)
<1>1. Decides(rt.req[r], rt'.req[r], When(r))
  BY DEF Goes, Kept, Decided
<1>2. Accounts(rt', submit', LaneSet', worker'.staging)
  BY DEF Goes, Kept, Sound
<1>3. /\ rt' \in CoordinatorType /\ submit' \in SubmitType
      /\ Placed(rt'.req[r], submit'[r].pc, submit'[r].victim, r \in LaneSet')
  BY <1>2 DEF Accounts
<1>4. /\ rt'.req[r].state \in States
      /\ submit'[r].pc \in {"new", "admit", "swap", "snapshot", "accepted", "refused"}
  BY <1>3 DEF CoordinatorType, RequestType, SubmitType
<1>5. rt'.req[r].result = "held" => rt'.req[r].state = "SUCCEEDED"
  BY <1>3, <1>4 DEF Placed, Absent, States, Terminal
<1> QED
  BY <1>1, <1>5 DEF Decides, When, Hard, Late

(* A batch of several consists of requests that may share one, and only    *)
(* such a batch is refused lane by lane.                                   *)
Companions ==
  /\ worker.pc \in {"settle", "unreserved"} => Len(worker.batch) > 1
  /\ Len(worker.batch) > 1 =>
       \A i \in 1 .. Len(worker.batch) : rt.req[worker.batch[i]].spec.batch

(* The lanes run, and what they asked for stays. *)
LEMMA BatchRemains ==
  ASSUME NEW b, IInv(b), Companions, Goes(b), worker'.batch = worker.batch,
         worker'.pc \in {"settle", "unreserved"} =>
           worker.pc \in {"settle", "unreserved"} \/ ~Single
  PROVE  Companions'
<1>1. /\ Decided(rt, rt') /\ worker.batch \in Seq(Requests) /\ Len(worker.batch) \in Nat
      /\ \A r \in Requests : Placed(rt.req[r], submit[r].pc, submit[r].victim, r \in LaneSet)
  BY HeldByInvariant DEF Goes, Kept, BatchOK, WorkerType
<1>2. ASSUME NEW i \in 1 .. Len(worker.batch)
      PROVE  rt'.req[worker.batch[i]].spec = rt.req[worker.batch[i]].spec
  <2>1. worker.batch[i] \in Requests /\ worker.batch[i] \in LaneSet
    BY <1>1 DEF LaneSet, Lane
  <2>2. rt.req[worker.batch[i]].state = "RUNNING"
    BY <1>1, <2>1 DEF Placed
  <2> QED
    BY <1>1, <2>1, <2>2 DEF Decided, Decides
<1>3. worker'.pc \in {"settle", "unreserved"} => Len(worker.batch) > 1
  <2>1. CASE worker.pc \in {"settle", "unreserved"}
    BY <2>1 DEF Companions
  <2>2. CASE worker'.pc \in {"settle", "unreserved"} /\ ~Single
    <3>1. worker'.pc \notin {"idle", "pick", "exited"}
      BY <2>2
    <3>2. worker'.batch # <<>>
      BY <3>1 DEF Goes, BatchOK
    <3>3. Len(worker.batch) # 0
      BY <1>1, <3>2
    <3>4. Len(worker.batch) \in Nat /\ Len(worker.batch) # 1
      BY <1>1, <2>2 DEF Single
    <3>5. \A n \in Nat : n # 0 /\ n # 1 => n > 1
      OBVIOUS
    <3>6. Len(worker.batch) > 1
      BY <3>3, <3>4, <3>5
    <3> QED
      BY <3>6
  <2> QED
    BY <2>1, <2>2
<1> QED
  BY <1>2, <1>3 DEF Companions

(* The worker takes up requests that may share a batch. *)
LEMMA PickedTogether ==
  ASSUME NEW b, IInv(b), WorkerPick, Companions
  PROVE  Companions'
<1>1. /\ rt \in CoordinatorType /\ BatchOK(rt, worker) /\ now \in Nat /\ worker.pc = "pick"
      /\ Held(b)
  BY HeldByInvariant DEF WorkerPick
<1>2. CASE (rt.queue = <<>> \/ Expired(rt) # {}) /\ rt' = Expire(rt) /\ Step("idle")
  <2>1. worker' = [worker EXCEPT !.pc = "idle"] /\ worker.batch = <<>> /\ worker \in WorkerType
    BY <1>1, <1>2 DEF BatchOK, Step
  <2>2. worker'.batch = <<>> /\ worker'.pc = "idle"
    BY <2>1 DEF WorkerType
  <2> QED
    BY <2>2 DEF Companions
<1>3. ASSUME rt.queue # <<>>, NEW n \in {1, LegalBatch(rt, Best(rt, Queued(rt)))},
             rt' = Dispatched(rt, Lanes(rt, Best(rt, Queued(rt)), n),
                              IF n = 1 THEN 0 ELSE Staging(rt, Best(rt, Queued(rt)), n)),
             worker' = PutBatch(Lanes(rt, Best(rt, Queued(rt)), n),
                                IF n = 1 THEN 0 ELSE Staging(rt, Best(rt, Queued(rt)), n))
      PROVE  Companions'
  <2> DEFINE first == Best(rt, Queued(rt))
             lanes == Lanes(rt, first, n)
             staging == IF n = 1 THEN 0 ELSE Staging(rt, first, n)
  <2>0. Queued(rt) \in SUBSET Requests
    BY PlacesTyped, Parts
  <2>1. Queued(rt) # {}
    <3>1. rt.queue \in Seq(Requests)
      BY <1>1 DEF CoordinatorType
    <3>2. Len(rt.queue) \in Nat /\ Len(rt.queue) # 0
      BY <1>3, <3>1
    <3>3. 1 \in 1 .. Len(rt.queue)
      BY <3>2
    <3> QED
      BY <3>3 DEF Queued
  <2>2. first \in Queued(rt) /\ first \in Requests
    BY <1>1, <2>0, <2>1, BestFound
  <2> HIDE DEF first
  <2>3. n \in Nat /\ n >= 1
    <3>1. n \in {1, LegalBatch(rt, first)}
      BY <1>3 DEF first
    <3> QED
      BY <1>1, <2>2, <3>1, LegalBatchFits
  <2>4. /\ lanes \in Seq(Requests) /\ IsInjective(lanes) /\ Len(lanes) \in 1 .. n
        /\ \A i \in 1 .. Len(lanes) : lanes[i] = first \/ Compatible(rt, first, lanes[i])
    BY <1>1, <2>2, <2>3, LanesFound
  <2>5. rt' = Dispatched(rt, lanes, staging) /\ worker' = PutBatch(lanes, staging)
    BY <1>3 DEF first
  <2> HIDE DEF lanes, staging
  <2>6. worker'.batch = lanes /\ worker'.pc = "route"
    BY <2>5 DEF PutBatch, Idle
  <2>7. ASSUME NEW q \in Requests PROVE rt'.req[q].spec = rt.req[q].spec
    <3>1. rt.req[q] \in RequestType
      BY <1>1 DEF CoordinatorType
    <3>2. \/ rt'.req[q] = rt.req[q] \/ rt'.req[q] = [rt.req[q] EXCEPT !.state = "RUNNING"]
      BY <1>1, <2>5 DEF Dispatched, CoordinatorType
    <3> QED
      BY <3>1, <3>2 DEF RequestType
  <2>8. ASSUME Len(lanes) > 1 PROVE \A i \in 1 .. Len(lanes) : rt.req[lanes[i]].spec.batch
    <3>1. 1 \in 1 .. Len(lanes) /\ 2 \in 1 .. Len(lanes) /\ lanes[1] # lanes[2]
      <4>1. Len(lanes) \in Nat /\ DOMAIN lanes = 1 .. Len(lanes)
        BY <2>4
      <4> QED
        BY <2>4, <2>8, <4>1 DEF IsInjective
    <3>2. rt.req[first].spec.batch
      BY <2>4, <3>1 DEF Compatible
    <3> QED
      BY <2>4, <3>2 DEF Compatible
  <2>9. \A i \in 1 .. Len(lanes) : lanes[i] \in Requests
    BY <2>4
  <2> QED
    BY <2>6, <2>7, <2>8, <2>9 DEF Companions
<1> QED
  <2>1. CASE ~((rt.queue = <<>> \/ Expired(rt) # {}) /\ rt' = Expire(rt) /\ Step("idle"))
    <3>0. rt.queue # <<>>
      BY <2>1 DEF WorkerPick
    <3>1. PICK n \in {1, LegalBatch(rt, Best(rt, Queued(rt)))} :
            /\ rt' = Dispatched(rt, Lanes(rt, Best(rt, Queued(rt)), n),
                                IF n = 1 THEN 0 ELSE Staging(rt, Best(rt, Queued(rt)), n))
            /\ worker' = PutBatch(Lanes(rt, Best(rt, Queued(rt)), n),
                                  IF n = 1 THEN 0 ELSE Staging(rt, Best(rt, Queued(rt)), n))
      BY <2>1 DEF WorkerPick, PutBatch
    <3> QED
      BY <1>3, <3>0, <3>1
  <2> QED
    BY <1>2, <2>1

(* A batch stays a batch of requests that may share one. *)
LEMMA CompanionsKept ==
  ASSUME NEW b, IInv(b), Companions, Goes(b), [Next]_vars
  PROVE  Companions'
<1>0. worker \in WorkerType
  BY HeldByInvariant DEF BatchOK
<1>1. CASE WorkerPick
  BY <1>1, PickedTogether
<1>2. CASE Retire
  <2>1. worker' = Idle
    BY <1>2 DEF Retire
  <2>2. worker'.pc = "idle" /\ worker'.batch = <<>>
    BY <2>1, IdleTyped
  <2> QED
    BY <2>2 DEF Companions
<1>3. CASE worker' = worker
  BY <1>3, BatchRemains
<1>4. CASE WorkerWake \/ WorkerExit \/ EnterRoute \/ RefuseSingle \/ \E outcome : RunEnd(outcome)
  <2>1. \/ \E pc \in {"pick", "exited", "run"} : worker' = [worker EXCEPT !.pc = pc]
        \/ \E outcome : worker' = [worker EXCEPT !.pc = "done", !.outcome = outcome, !.at = now]
    BY <1>4 DEF WorkerWake, WorkerExit, EnterRoute, RefuseSingle, RunEnd, Step
  <2>2. worker'.batch = worker.batch /\ worker'.pc \notin {"settle", "unreserved"}
    BY <1>0, <2>1 DEF WorkerType
  <2> QED
    BY <2>2, BatchRemains
<1>5. CASE UnreserveLane \/ SettleLane
  <2>1. worker.pc \in {"settle", "unreserved"}
    BY <1>5 DEF UnreserveLane, SettleLane
  <2>2. worker'.batch = worker.batch
    BY <1>0, <1>5 DEF UnreserveLane, SettleLane, Step, WorkerType
  <2> QED
    BY <2>1, <2>2, BatchRemains
<1>6. CASE \E k : RefuseBatch(k)
  <2>1. ~Single /\ worker'.batch = worker.batch
    BY <1>0, <1>6 DEF RefuseBatch, WorkerType
  <2> QED
    BY <2>1, BatchRemains
<1> QED
  <2>1. CASE Working
    BY <2>1, <1>1, <1>2, <1>4, <1>5, <1>6 DEF Working
  <2>2. CASE ~Working
    <3>1. worker' = worker
      BY <2>2 DEF Next, vars, Create, Submitting, Admit, FinishSwap, AbandonSnapshot, Commit,
            Arriving, DeviceDone, Cancel, Discard, CancelContext, ClosingStep, CloseBegin,
            CloseStop, CloseDrain, CloseJoin, CloseComplete, Poll, DirectBegin, DirectEnd,
            DirectRelease, Tick
    <3> QED
      BY <1>3, <3>1
  <2> QED
    BY <2>1, <2>2

(* No two requests ask for a context that takes part in batches. *)
Unshared ==
  \A q, r \in Requests : \A s \in Specs[q], t \in Specs[r] :
    s.batch /\ Reserves(s) /\ t.context = s.context => q = r

(* Then nobody can reserve the context that the worker has given back. *)
LEMMA UnsharedIsUnclaimed ==
  ASSUME Unshared, IInv(TRUE), Companions
  PROVE  LaneUnclaimed
<1> SUFFICES ASSUME worker.pc = "unreserved", ContextOf(rt, Lane(worker.lane)).token # NoRequest
             PROVE  FALSE
  BY DEF LaneUnclaimed
<1> DEFINE i == worker.lane
           r == Lane(i)
           x == rt.req[r].spec.context
<1>1. /\ rt \in CoordinatorType /\ BatchOK(rt, worker) /\ worker \in WorkerType
      /\ \A q \in Requests : rt.req[q].state # "NONE" => rt.req[q].spec \in Specs[q]
      /\ \A q \in Requests : Placed(rt.req[q], submit[q].pc, submit[q].victim, q \in LaneSet)
      /\ \A z \in Contexts : HolderOK(rt, z)
      /\ \A j \in 1 .. Len(worker.batch) :
           worker.batch[j] \in LaneSet => LaneOK(rt, worker, j, worker.batch[j])
  BY DEF IInv, Accounts, BatchOK, Reservations
<1>2. /\ i \in 1 .. Len(worker.batch) /\ i > worker.failed /\ Len(worker.batch) > 1
      /\ worker.failed \in Nat /\ i \in Nat /\ Bound(rt, worker.batch[1]) /\ worker.batch \in Seq(Requests)
  BY <1>1 DEF BatchOK, Companions, WorkerType
<1>3. 1 \in 1 .. Len(worker.batch)
  BY <1>2
<1>4. Bound(rt, r) /\ r \in LaneSet /\ r \in Requests /\ r = worker.batch[i] /\ rt.req[r].spec.batch
  BY <1>1, <1>2, <1>3 DEF BatchOK, LaneSet, Lane, Companions
<1> HIDE DEF r
<1>5. LaneOK(rt, worker, i, r)
  BY <1>1, <1>2, <1>4
<1>6. rt.req[r].state = "RUNNING" /\ rt.req[r].spec \in Specs[r]
  BY <1>1, <1>4 DEF Placed
<1>7. ~(i < i) /\ ~(i < worker.failed) /\ i # worker.failed
  BY <1>2
<1>8. Released(rt, r)
  BY <1>4, <1>5, <1>7 DEF LaneOK, LaneBound
<1>9. rt.ctx[x].token # r /\ rt.ctx[x].token # NoRequest
  BY <1>8 DEF Released, ContextOf, r
<1>10. x # NoContext /\ x \in Contexts
  <2>1. rt.req[r].spec \in Spec0
    BY <1>1, <1>4 DEF CoordinatorType, RequestType
  <2> QED
    BY <1>4, <2>1 DEF Bound, Spec0
<1>11. PICK q \in Requests : q = rt.ctx[x].token
  BY <1>1, <1>9, <1>10 DEF CoordinatorType, ContextType
<1>12. rt.req[q].spec.context = x
  BY <1>1, <1>9, <1>10, <1>11 DEF HolderOK
<1>13. rt.req[q].state # "NONE"
  <2>1. NoSpec.context = NoContext
    BY DEF NoSpec
  <2>2. rt.req[q].state = "NONE" => Absent(rt.req[q])
    BY NoneIsAbsent
  <2> QED
    BY <1>10, <1>12, <2>1, <2>2 DEF Absent
<1>14. rt.req[q].spec \in Specs[q]
  BY <1>1, <1>13
<1>15. r = q
  <2>1. Reserves(rt.req[r].spec)
    BY <1>10 DEF Reserves
  <2> QED
    BY <1>4, <1>6, <1>12, <1>14, <2>1 DEF Unshared
<1> QED
  BY <1>9, <1>11, <1>15

-----------------------------------------------------------------------------
(* The theorems.                                                           *)

(* In every state the requests, the queue and the batch are in order, the  *)
(* route's claims and the counts of requests, bytes and waiters are exact. *)
THEOREM AccountsKept == Spec => []IInv(FALSE)
<1>1. Init => IInv(FALSE)
  BY InvariantAtFirst
<1>2. IInv(FALSE) /\ [Next]_vars => IInv(FALSE)'
  BY InvariantKept
<1> QED
  BY <1>1, <1>2, PTL DEF Spec

(* Of a LATEST stream at most one admitted frame can still be delivered,   *)
(* whatever submissions, the worker, clients and close interleave.         *)
THEOREM OneFrameOfAStream == Spec => []OneFramePerStream
<1>1. IInv(FALSE) => OneFramePerStream
  BY InvariantStreams
<1> QED
  BY <1>1, AccountsKept, PTL

(* How a request ends is final, and the first cause decides it. *)
THEOREM TheFirstCauseDecides == Spec => FirstCauseDecides
<1>1. IInv(FALSE) /\ [Next]_vars =>
        [\A r \in Requests :
           LET old == rt.req[r]  new == rt'.req[r]
           IN  /\ old.state \in Terminal => new.state = old.state
               /\ old.state = "RUNNING" =>
                    /\ old.superseded => new.state \in {"RUNNING", "SUPERSEDED"}
                    /\ old.cancel /\ ~old.superseded => new.state \in {"RUNNING", "CANCELLED"}
                    /\ old.superseded => new.superseded
                    /\ old.cancel => new.cancel
               /\ new.result = "held" => new.state = "SUCCEEDED"
               /\ old.state = "RUNNING" /\ new.state = "SUCCEEDED" /\ Hard(rt, r) =>
                    ~Late(rt, r, IF r \in LaneSet THEN worker.at ELSE now)
        ]_vars
  <2> SUFFICES ASSUME IInv(FALSE), [Next]_vars, NEW r \in Requests
               PROVE  LET old == rt.req[r]  new == rt'.req[r]
                      IN  /\ old.state \in Terminal => new.state = old.state
                          /\ old.state = "RUNNING" =>
                               /\ old.superseded => new.state \in {"RUNNING", "SUPERSEDED"}
                               /\ old.cancel /\ ~old.superseded => new.state \in {"RUNNING", "CANCELLED"}
                               /\ old.superseded => new.superseded
                               /\ old.cancel => new.cancel
                          /\ new.result = "held" => new.state = "SUCCEEDED"
                          /\ old.state = "RUNNING" /\ new.state = "SUCCEEDED" /\ Hard(rt, r) =>
                               ~Late(rt, r, IF r \in LaneSet THEN worker.at ELSE now)
    OBVIOUS
  <2>1. Goes(FALSE)
    BY StepKeeps
  <2> QED
    BY <2>1, GoesDecided
<1> QED
  BY <1>1, AccountsKept, PTL DEF Spec, FirstCauseDecides

(* As long as nobody reserves a context between the two steps in which the *)
(* worker lets go of a lane that was not begun, tickets and contexts are   *)
(* in order as well.                                                       *)
THEOREM ReservationsKept == Spec /\ []LaneUnclaimed => []IInv(TRUE)
<1>1. Init => IInv(TRUE)
  BY InvariantAtFirst
<1>2. IInv(TRUE) /\ LaneUnclaimed /\ [Next]_vars => IInv(TRUE)'
  BY InvariantKept
<1> QED
  BY <1>1, <1>2, PTL DEF Spec

(* Where contexts that take part in batches are not shared, that is always *)
(* the case.                                                               *)
THEOREM UnsharedNeverClaimed ==
  ASSUME Unshared
  PROVE  Spec => [](LaneUnclaimed /\ IInv(TRUE))
<1> DEFINE Strong == IInv(TRUE) /\ Companions
<1>1. Init => Strong
  <2> SUFFICES ASSUME Init PROVE Strong
    OBVIOUS
  <2>1. IInv(TRUE)
    BY InvariantAtFirst
  <2>2. worker.pc = "idle" /\ Len(worker.batch) = 0
    BY IdleTyped DEF Init
  <2>3. ~(Len(worker.batch) > 1)
    BY <2>2
  <2>4. Companions
    BY <2>2, <2>3 DEF Companions
  <2> QED
    BY <2>1, <2>4
<1>2. Strong => LaneUnclaimed /\ IInv(TRUE)
  BY UnsharedIsUnclaimed
<1>3. Strong /\ [Next]_vars => Strong'
  <2> SUFFICES ASSUME IInv(TRUE), Companions, [Next]_vars PROVE Strong'
    OBVIOUS
  <2>1. LaneUnclaimed
    BY UnsharedIsUnclaimed
  <2>2. Goes(TRUE) /\ IInv(TRUE)'
    BY <2>1, StepKeeps, InvariantKept
  <2>3. Companions'
    BY <2>2, CompanionsKept
  <2> QED
    BY <2>2, <2>3
<1> HIDE DEF Strong
<1> QED
  BY <1>1, <1>2, <1>3, PTL DEF Spec

(* Every variable has its type, and no counter goes below zero. *)
THEOREM RequestTypes == Spec /\ []LaneUnclaimed => []TypeOK
BY InvariantTypes, ReservationsKept, PTL

(* The four counters of the budget are exact, and within their limits. *)
THEOREM BudgetIsExact == Spec /\ []LaneUnclaimed => []BudgetExact
BY InvariantCounts, ReservationsKept, PTL

(* Every accepted request is in one place until it ends, and holds nothing *)
(* after it.                                                               *)
THEOREM NoRequestIsLost == Spec /\ []LaneUnclaimed => []RequestsAccounted
BY InvariantAccounts, ReservationsKept, PTL

(* A context is held by the request that may still use it. *)
THEOREM ContextsAreFollowed == Spec /\ []LaneUnclaimed => []ContextsFollow
BY InvariantContexts, ReservationsKept, PTL

(* All of them, of any runtime whose batched contexts are not shared. *)
THEOREM AllIsAccountedFor ==
  ASSUME Unshared
  PROVE  Spec => [](TypeOK /\ BudgetExact /\ RequestsAccounted /\ ContextsFollow)
<1>1. IInv(TRUE) => TypeOK /\ BudgetExact /\ RequestsAccounted /\ ContextsFollow
  BY InvariantTypes, InvariantCounts, InvariantAccounts, InvariantContexts
<1>2. Spec => [](LaneUnclaimed /\ IInv(TRUE))
  BY UnsharedNeverClaimed
<1> QED
  BY <1>1, <1>2, PTL
=============================================================================
