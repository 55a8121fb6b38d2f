----------------------- MODULE RuntimeRequestsLemmas -----------------------
(***************************************************************************)
(* What the proofs about RuntimeRequests rest on: the scheduler's order,   *)
(* for any quantum, priority range and saturation bound; the inductive     *)
(* invariant; sums, counts and queues; and what each operator on the       *)
(* coordinator does to the requests and contexts it touches, and leaves    *)
(* alone.                                                                  *)
(***************************************************************************)
EXTENDS RuntimeRequests, SequenceTheorems, FiniteSetTheorems, WellFoundedInduction, TLAPS

-----------------------------------------------------------------------------
(* The order in which the coordinator looks at requests.                   *)

Policed == [priority : Priorities, submitted : Nat, deadline : Nat, id : Nat]

(* The quotient by a positive divisor is a natural number that never falls   *)
(* when the dividend grows.                                                  *)
LEMMA QuotientGrows ==
  ASSUME NEW q \in Nat \ {0}, NEW x \in Nat, NEW y \in Nat, x <= y
  PROVE  /\ x \div q \in Nat
         /\ x \div q <= y \div q
  BY Z3

(* Age is a natural number. *)
LEMMA AgeTyped ==
  ASSUME NEW submitted \in Nat, NEW at \in Nat
  PROVE  AgePoints(submitted, at) \in Nat
<1>1. at - submitted <= at - submitted
  OBVIOUS
<1>2. QED
  BY <1>1, QuotientGrows, PolicyConstants DEF AgePoints

(* Age grows with the clock. *)
LEMMA AgeGrows ==
  ASSUME NEW submitted \in Nat, NEW at \in Nat, NEW later \in Nat, at <= later
  PROVE  AgePoints(submitted, at) <= AgePoints(submitted, later)
  BY QuotientGrows, PolicyConstants DEF AgePoints

(* Effective priorities are integers between the lowest authored priority    *)
(* and the saturation bound: the sum in the code cannot overflow.            *)
THEOREM EffectiveBounded ==
  ASSUME NEW priority \in Priorities, NEW submitted \in Nat, NEW at \in Nat
  PROVE  EffectivePriority(priority, submitted, at) \in -PriorityMax .. EffectiveMax
<1>1. AgePoints(submitted, at) \in Nat
  BY AgeTyped
<1>2. QED
  BY <1>1, PolicyConstants DEF EffectivePriority, Priorities

(* Waiting never lowers a request's effective priority, saturation included. *)
THEOREM PriorityNeverFalls ==
  ASSUME NEW priority \in Priorities, NEW submitted \in Nat,
         NEW at \in Nat, NEW later \in Nat, at <= later
  PROVE  EffectivePriority(priority, submitted, at)
           <= EffectivePriority(priority, submitted, later)
<1>1. /\ AgePoints(submitted, at) \in Nat
      /\ AgePoints(submitted, later) \in Nat
      /\ AgePoints(submitted, at) <= AgePoints(submitted, later)
  BY AgeTyped, AgeGrows
<1>2. QED
  BY <1>1, PolicyConstants DEF EffectivePriority, Priorities

(* At any time Precedes is a strict order that ranks any two requests of   *)
(* different identity: the coordinator's single pass over its queue finds    *)
(* the same best request whatever the order of the queue.                    *)
THEOREM PrecedesIsStrictTotalOrder ==
  ASSUME NEW at \in Nat
  PROVE  /\ \A a \in Policed : ~Precedes(a, a, at)
         /\ \A a, b, c \in Policed :
              Precedes(a, b, at) /\ Precedes(b, c, at) => Precedes(a, c, at)
         /\ \A a, b \in Policed :
              a.id # b.id => Precedes(a, b, at) \/ Precedes(b, a, at)
<1> DEFINE Eff(a) == EffectivePriority(a.priority, a.submitted, at)
<1>1. \A a \in Policed : /\ Eff(a) \in Int
                          /\ a.deadline \in Nat
                          /\ a.id \in Nat
  <2> TAKE a \in Policed
  <2>1. Eff(a) \in -PriorityMax .. EffectiveMax
    BY EffectiveBounded DEF Policed
  <2>2. QED
    BY <2>1, PolicyConstants DEF Policed
<1>2. \A a, b \in Policed :
        Precedes(a, b, at) <=>
          \/ Eff(a) > Eff(b)
          \/ Eff(a) = Eff(b) /\ Earlier(a.deadline, b.deadline)
          \/ Eff(a) = Eff(b) /\ a.deadline = b.deadline /\ a.id < b.id
  BY DEF Precedes
<1> HIDE DEF Eff
<1>3. \A a \in Policed : ~Precedes(a, a, at)
  BY <1>1, <1>2 DEF Earlier
<1>4. \A a, b, c \in Policed :
        Precedes(a, b, at) /\ Precedes(b, c, at) => Precedes(a, c, at)
  BY <1>1, <1>2 DEF Earlier
<1>5. \A a, b \in Policed :
        a.id # b.id => Precedes(a, b, at) \/ Precedes(b, a, at)
  BY <1>1, <1>2 DEF Earlier
<1>6. QED
  BY <1>3, <1>4, <1>5

(* A whole number of quanta more of waiting is that many points more.        *)
LEMMA QuotientShift ==
  ASSUME NEW q \in Nat \ {0}, NEW x \in Nat, NEW k \in Nat
  PROVE  (x + k * q) \div q = (x \div q) + k
  BY Z3

(* Nothing divided is nothing. *)
LEMMA ZeroQuotient == \A q \in Nat \ {0} : 0 \div q = 0
  BY Z3

(* A request submitted 2 * PriorityMax + 1 quanta before another goes first, *)
(* whatever the priorities and deadlines of the two, until its age           *)
(* saturates: no stream of later requests can pass it for ever.              *)
THEOREM AgeBeatsPriority ==
  ASSUME NEW a \in Policed, NEW b \in Policed, NEW at \in Nat,
         a.submitted + (2 * PriorityMax + 1) * AgingQuantum <= b.submitted,
         b.submitted <= at,
         AgePoints(a.submitted, at) <= EffectiveMax - PriorityMax
  PROVE  Precedes(a, b, at)
<1> DEFINE Lead == 2 * PriorityMax + 1
           Younger == at - b.submitted
           Older == at - a.submitted
           Aged(r) == AgePoints(r.submitted, at)
<1>1. /\ a.submitted \in Nat /\ b.submitted \in Nat
      /\ a.priority \in -PriorityMax .. PriorityMax
      /\ b.priority \in -PriorityMax .. PriorityMax
  BY DEF Policed, Priorities
<1>2. /\ Lead \in Nat \ {0} /\ AgingQuantum \in Nat \ {0}
      /\ Lead * AgingQuantum \in Nat
  BY PolicyConstants
<1>3. /\ Younger \in Nat /\ Older \in Nat
      /\ Younger + Lead * AgingQuantum \in Nat
      /\ Younger + Lead * AgingQuantum <= Older
  BY <1>1, <1>2
<1>4. (Younger \div AgingQuantum) + Lead <= Older \div AgingQuantum
  <2>1. (Younger + Lead * AgingQuantum) \div AgingQuantum <= Older \div AgingQuantum
    BY <1>2, <1>3, QuotientGrows
  <2>2. QED
    BY <1>2, <1>3, <2>1, QuotientShift
<1>5. Aged(a) >= Aged(b) + Lead
  <2>1. Aged(b) = Younger \div AgingQuantum
    <3>1. CASE at > b.submitted
      BY <3>1 DEF AgePoints
    <3>2. CASE at = b.submitted
      <4>1. Younger = 0 /\ Aged(b) = 0
        BY <1>1, <3>2 DEF AgePoints
      <4>2. \A q \in Nat \ {0} : 0 \div q = 0
        BY ZeroQuotient
      <4>3. QED
        BY <1>2, <4>1, <4>2
    <3>3. QED
      BY <1>1, <3>1, <3>2
  <2>2. Aged(a) = Older \div AgingQuantum
    <3>1. Lead * AgingQuantum > 0
      BY <1>2, Z3
    <3>2. at > a.submitted
      BY <1>1, <1>2, <3>1
    <3>3. QED
      BY <3>2 DEF AgePoints
  <2>3. QED
    BY <1>4, <2>1, <2>2
<1>6. Aged(a) \in Nat /\ Aged(b) \in Nat
  BY <1>1, AgeTyped
<1> HIDE DEF Aged, Younger, Older
<1>7. EffectivePriority(a.priority, a.submitted, at)
        > EffectivePriority(b.priority, b.submitted, at)
  BY <1>1, <1>5, <1>6, PolicyConstants DEF EffectivePriority, Aged
<1>8. QED
  BY <1>7 DEF Precedes

-----------------------------------------------------------------------------
(* The invariant, of any coordinator c, submitters s, worker w, with the   *)
(* lanes L of its batch that have not been retired.                        *)

States == Terminal \cup {"NONE", "QUEUED", "RUNNING"}
RequestType ==
  [spec : Spec0, submitted : Nat, state : States, cancel : BOOLEAN, superseded : BOOLEAN,
   budget : BOOLEAN, counted : BOOLEAN, bytes : Nat, claim : BOOLEAN, ticket : BOOLEAN,
   token : BOOLEAN, result : {"none", "pending", "arrived", "lost", "ready", "held", "gone"}]
ContextType ==
  [state : ContextStates, call : Requests \cup {NoRequest}, token : Requests \cup {NoRequest},
   cancel : BOOLEAN]
CoordinatorType ==
  [req : [Requests -> RequestType], ctx : [Contexts -> ContextType], queue : Seq(Requests),
   inflight : SUBSET Requests, replacements : SUBSET Requests,
   requests : Int, bytes : Int, waiters : Int, results : Int, stopping : BOOLEAN]
SubmitType ==
  [Requests -> [pc : {"new", "admit", "swap", "snapshot", "accepted", "refused"},
                victim : Requests \cup {NoRequest}]]
WorkerType ==
  [pc : {"idle", "pick", "route", "run", "settle", "unreserved", "done", "exited"},
   batch : Seq(Requests), failed : Nat, lane : Nat, staging : Nat,
   outcome : {"none", "OK", "FAIL", "PENDING", "REFUSED"}, at : Nat]

(* v waits outside of the queue for what becomes of its successor's copy;  *)
(* its successor copies over what v has left.                              *)
HeldBy(s, v) == \E r \in Requests : s[r].pc = "snapshot" /\ s[r].victim = v
LeftBy(s, v) == \E r \in Requests : s[r].pc = "swap" /\ s[r].victim = v

Claims(q) == q.budget /\ q.counted /\ q.claim /\ q.bytes = q.spec.bytes
Clear(q) == ~q.budget /\ ~q.counted /\ ~q.claim /\ q.bytes = 0
Absent(q) ==
  /\ q.spec = NoSpec /\ q.state = "NONE" /\ ~q.cancel /\ ~q.superseded
  /\ q.result = "none" /\ Clear(q)

(* What a request holds of the budget at each place.                       *)
Placed(q, pc, victim, lane) ==
  /\ pc \in {"new", "refused"} => Absent(q)
  /\ pc \in {"admit", "swap", "snapshot"} => q.state = "QUEUED"
  /\ pc = "accepted" => q.state # "NONE"
  /\ q.state \in Terminal \cup {"RUNNING"} => pc = "accepted"
  /\ q.state = "QUEUED" => ~q.cancel /\ ~q.superseded /\ q.result = "none"
  /\ pc = "admit" => Clear(q)
  /\ pc = "swap" => Claims(q)
  /\ pc = "snapshot" => /\ q.budget /\ ~q.claim /\ q.bytes = q.spec.bytes
                        /\ q.counted <=> victim = NoRequest
  /\ pc = "accepted" /\ q.state \notin Terminal => Claims(q)
  /\ q.state = "RUNNING" => /\ q.result \in {"none", "pending", "arrived", "lost"}
                            /\ q.result = "none" <=> lane
  /\ q.state \in Terminal => /\ Clear(q) /\ q.result \in {"none", "held", "gone"}
                             /\ q.result # "none" <=> q.state = "SUCCEEDED"
  /\ lane => q.state = "RUNNING"

VictimsOK(c, s) ==
  \A r \in Requests : s[r].victim # NoRequest =>
    /\ s[r].pc \in {"swap", "snapshot"} /\ s[s[r].victim].pc = "accepted"
    /\ SameStream(c, s[r].victim, r)
    /\ c.req[s[r].victim].state = IF s[r].pc = "swap" THEN "SUPERSEDED" ELSE "QUEUED"

QueueOK(c, s) ==
  /\ IsInjective(c.queue)
  /\ \A r \in Requests : r \in Queued(c) <=>
       s[r].pc = "accepted" /\ c.req[r].state = "QUEUED" /\ ~HeldBy(s, r)

ListsOK(c, s) ==
  /\ \A r \in Requests : r \in c.inflight <=> c.req[r].state = "RUNNING"
  /\ \A r \in Requests : r \in c.replacements <=>
       s[r].pc \in {"swap", "snapshot"} /\ c.req[r].spec.freshness = "LATEST"
  /\ \A q, r \in c.replacements : SameStream(c, q, r) => q = r

Deliverable(c, s, r) ==
  /\ s[r].pc = "accepted" /\ c.req[r].state \in {"QUEUED", "RUNNING"}
  /\ ~c.req[r].superseded /\ ~c.req[r].cancel
Streams(c, s) ==
  \A q, r \in Requests :
    Deliverable(c, s, q) /\ Deliverable(c, s, r) /\ SameStream(c, q, r) => q = r

Bytes(c) == MapThenSumSet(LAMBDA r : c.req[r].bytes, Requests)
Counted(c, staging) ==
  /\ c.requests = Cardinality({r \in Requests : c.req[r].counted})
  /\ c.waiters = Cardinality({r \in Requests : c.req[r].claim})
  /\ c.bytes = staging + Bytes(c)
  /\ c.requests <= MaxRequests /\ c.bytes <= MaxInputBytes

Accounts(c, s, L, staging) ==
  /\ c \in CoordinatorType /\ s \in SubmitType /\ L \in SUBSET Requests /\ staging \in Nat
  /\ \A r \in Requests : Placed(c.req[r], s[r].pc, s[r].victim, r \in L)
  /\ \A r \in Requests : c.req[r].state # "NONE" => c.req[r].spec \in Specs[r]
  /\ VictimsOK(c, s) /\ QueueOK(c, s) /\ ListsOK(c, s) /\ Streams(c, s)
  /\ Counted(c, staging)

(* Tickets and contexts.                                                   *)
Reserved(c, r) == c.req[r].token /\ c.req[r].ticket
Runs(c, r) ==
  /\ ~c.req[r].token /\ c.req[r].ticket
  /\ ContextOf(c, r).token = r /\ ContextOf(c, r).state = "RUNNING"
Settled(c, r) ==
  /\ ~c.req[r].token
  /\ ContextOf(c, r).token = r /\ ContextOf(c, r).state \notin {"QUEUED", "RUNNING"}
Released(c, r) == ~c.req[r].token /\ ~c.req[r].ticket /\ ContextOf(c, r).token # r

(* The i-th lane of a batch of requests with contexts.                     *)
LaneBound(c, w, i, r) ==
  CASE w.pc = "route" -> Reserved(c, r)
    [] w.pc = "run" -> Runs(c, r)
    [] w.pc \in {"settle", "unreserved"} ->
         IF i < w.lane THEN Settled(c, r) \/ Released(c, r)
         ELSE IF i < w.failed THEN Runs(c, r)
         ELSE IF i = w.failed THEN Settled(c, r)
         ELSE IF i = w.lane /\ w.pc = "unreserved" THEN Released(c, r)
         ELSE Reserved(c, r)
    [] w.pc = "done" ->
         CASE w.outcome = "OK" -> Settled(c, r) /\ c.req[r].ticket
           [] w.outcome = "PENDING" -> Runs(c, r)
           [] OTHER -> Settled(c, r) \/ Released(c, r)
    [] OTHER -> FALSE
LaneOK(c, w, i, r) ==
  IF Bound(c, r) THEN LaneBound(c, w, i, r)
  ELSE c.req[r].ticket

TicketOK(q, pc, victim, lane) ==
  /\ q.state = "NONE" => ~q.ticket
  /\ pc = "admit" => (q.ticket <=> TicketEarly(q.spec))
  /\ pc = "snapshot" => (q.ticket <=> victim = NoRequest)
  /\ pc = "swap" => q.ticket
  /\ pc = "accepted" /\ q.state = "QUEUED" => q.ticket
  /\ q.state \in Terminal => ~q.ticket
  /\ q.state = "RUNNING" /\ ~lane => ~q.ticket

TokenOK(c, r, left, lane) ==
  /\ c.req[r].token => /\ Bound(c, r)
                       /\ ContextOf(c, r).token = r /\ ContextOf(c, r).call = r
                       /\ ContextOf(c, r).state \in {"QUEUED", "CANCELLED"}
  /\ c.req[r].state = "QUEUED" /\ Bound(c, r) => c.req[r].token
  /\ c.req[r].state \in Terminal /\ c.req[r].token => left
  /\ c.req[r].state = "RUNNING" /\ ~lane =>
       /\ ~c.req[r].token
       /\ Bound(c, r) => ContextOf(c, r).token = r /\ ContextOf(c, r).state = "RUNNING"

HolderOK(c, x) ==
  /\ c.ctx[x].token # NoRequest =>
       LET q == c.req[c.ctx[x].token]
       IN  q.spec.context = x /\ (q.token \/ q.state = "RUNNING")
  /\ c.ctx[x].state \in {"QUEUED", "RUNNING"} => c.ctx[x].token # NoRequest

Results(c, running) ==
  /\ c.results = Cardinality({r \in Requests : c.req[r].ticket}) + Release(running)
                 + Cardinality({r \in Requests : c.req[r].result \notin {"none", "gone"}})
  /\ c.results <= MaxResults

Reservations(c, s, w, L, running) ==
  /\ \A r \in Requests : /\ TicketOK(c.req[r], s[r].pc, s[r].victim, r \in L)
                          /\ TokenOK(c, r, LeftBy(s, r), r \in L)
  /\ \A x \in Contexts : HolderOK(c, x)
  /\ \A i \in 1 .. Len(w.batch) : w.batch[i] \in L => LaneOK(c, w, i, w.batch[i])
  /\ Results(c, running)

BatchOK(c, w) ==
  /\ w \in WorkerType /\ IsInjective(w.batch)
  /\ w.pc \in {"idle", "pick", "exited"} => w.batch = <<>> /\ w.staging = 0
  /\ w.pc \notin {"idle", "pick", "exited"} => w.batch # <<>>
  /\ \A i, j \in 1 .. Len(w.batch) : Bound(c, w.batch[i]) = Bound(c, w.batch[j])
  /\ w.pc \in {"settle", "unreserved"} =>
       /\ w.failed \in 1 .. Len(w.batch) /\ w.lane \in 1 .. Len(w.batch)
       /\ w.pc = "unreserved" => w.lane > w.failed
       /\ Bound(c, w.batch[1])

(* What a finding of the runs breaks: nobody reserves the context that the *)
(* worker has given back and will still settle.                            *)
LaneUnclaimed ==
  worker.pc = "unreserved" => ContextOf(rt, Lane(worker.lane)).token = NoRequest

(* Who overwrites a predecessor's storage has one. *)
SwapsOver(s) == \A r \in Requests : s[r].pc = "swap" => s[r].victim \in Requests

LifeType == [closed : BOOLEAN, created : BOOLEAN, joinStarted : BOOLEAN, joined : BOOLEAN]

IInv(b) ==
  /\ Accounts(rt, submit, LaneSet, worker.staging)
  /\ BatchOK(rt, worker) /\ SwapsOver(submit)
  /\ now \in Nat /\ direct \in {"none", "run", "result"} /\ life \in LifeType
  /\ b => Reservations(rt, submit, worker, LaneSet, direct # "none")

-----------------------------------------------------------------------------
(* Every family of parts of S has a minimal member, as of a finite set. *)
Grounded(S) ==
  \A C \in SUBSET (SUBSET S) : C # {} => \E X \in C : \A Y \in C : Y \subseteq X => Y = X

(* An interval is finite. *)
LEMMA IntervalGrounded == \A m, n \in Int : Grounded(m .. n)
<1> TAKE m, n \in Int
<1>1. IsFiniteSet(m .. n)
  BY FS_Interval
<1>2. FiniteSubsetsOf(m .. n) = SUBSET (m .. n)
  BY <1>1, FS_FiniteSubsetsOfFinite
<1>3. SUFFICES ASSUME NEW C \in SUBSET (SUBSET (m .. n)), C # {}
               PROVE  \E X \in C : \A Y \in C : Y \subseteq X => Y = X
  BY DEF Grounded
<1> DEFINE S == m .. n
<1> HIDE DEF S
<1>4. IsWellFoundedOn(StrictSubsetOrdering(S), FiniteSubsetsOf(S))
  BY FS_StrictSubsetOrderingWellFounded
<1>5. \E X \in C : \A Y \in C : ~ (<<Y, X>> \in StrictSubsetOrdering(S))
  BY <1>2, <1>3, <1>4, WFMin DEF S
<1> USE DEF S
<1> QED
  BY <1>3, <1>5 DEF StrictSubsetOrdering

-----------------------------------------------------------------------------
(* Folds, sums and counts.                                                 *)

AnyOf(S) == CHOOSE x \in S : TRUE
SumOp(c, r, sum) == c.req[r].bytes + sum
SumFold == INSTANCE Folding WITH Op <- SumOp, Choose <- AnyOf

(* The requests are finitely many. *)
LEMMA RequestsGrounded ==
  ASSUME NEW S \in SUBSET Requests
  PROVE  /\ IsFiniteSet(S) /\ Cardinality(S) \in Nat
         /\ SumFold!Grounded(S) /\ SumFold!Chooses(S)
<1>1. IsFiniteSet(S) /\ Cardinality(S) \in Nat
  BY RequestConstants, FS_Subset, FS_CardinalityType
<1>2. SumFold!Grounded(S)
  <2>1. Cardinality(Requests) \in Nat
    BY RequestConstants, FS_CardinalityType
  <2>2. SumFold!Grounded(1 .. Cardinality(Requests))
    <3>1. Grounded(1 .. Cardinality(Requests))
      BY <2>1, IntervalGrounded
    <3> QED
      BY <3>1 DEF Grounded, SumFold!Grounded
  <2>3. SumFold!Grounded(Requests)
    BY <2>2, RequestConstants
  <2> QED
    BY <2>3 DEF SumFold!Grounded
<1>3. SumFold!Chooses(S)
  BY DEF SumFold!Chooses, AnyOf
<1> QED
  BY <1>1, <1>2, <1>3

(* Requests are positive integers. *)
LEMMA RequestsAreNumbers ==
  /\ Requests \in SUBSET Nat /\ Cardinality(Requests) \in Nat
  /\ Requests = 1 .. Cardinality(Requests) /\ NoRequest \notin Requests
<1>1. Cardinality(Requests) \in Nat
  BY RequestConstants, FS_CardinalityType
<1> QED
  BY <1>1, RequestConstants

(* The bytes of all requests, as the fold of Folding. *)
LEMMA BytesFold ==
  ASSUME NEW c
  PROVE  Bytes(c) = SumFold!Fold(c, 0, Requests)[Requests]
BY DEF Bytes, MapThenSumSet, MapThenFoldSet, SumFold!Fold, SumFold!Iteration, SumOp, AnyOf

(* The sum is natural, and no request has more. *)
LEMMA BytesBound ==
  ASSUME NEW c, \A r \in Requests : c.req[r].bytes \in Nat
  PROVE  Bytes(c) \in Nat /\ \A r \in Requests : c.req[r].bytes <= Bytes(c)
<1> DEFINE P == SUBSET Requests
           G == [X \in P |-> {n \in Nat : \A r \in X : c.req[r].bytes <= n}]
<1>1. \A X \in P : X = {} => 0 \in G[X]
  OBVIOUS
<1>2. \A X \in P : X # {} =>
        /\ X \ {AnyOf(X)} \in P
        /\ \A n \in G[X \ {AnyOf(X)}] : SumOp(c, AnyOf(X), n) \in G[X]
  <2> TAKE X \in P
  <2> HAVE X # {}
  <2>1. AnyOf(X) \in X
    BY DEF AnyOf
  <2>2. ASSUME NEW r \in X, NEW n \in G[X \ {r}]
        PROVE  c.req[r].bytes + n \in G[X]
    <3>1. n \in Nat /\ \A q \in X \ {r} : c.req[q].bytes <= n
      BY <2>2
    <3>2. c.req[r].bytes \in Nat /\ \A q \in X : c.req[q].bytes \in Nat
      OBVIOUS
    <3>3. \A q \in X : c.req[q].bytes <= c.req[r].bytes + n
      BY <3>1, <3>2
    <3> QED
      BY <3>1, <3>2, <3>3
  <2> HIDE DEF G
  <2> QED
    BY <2>1, <2>2 DEF SumOp
<1>3. P \in SUBSET (SUBSET Requests) /\ Requests \in P
  OBVIOUS
<1>4. SumFold!Grounded(Requests) /\ SumFold!Chooses(Requests)
  BY RequestsGrounded
<1> HIDE DEF G, P
<1>5. SumFold!Fold(c, 0, Requests)[Requests] \in G[Requests]
  BY <1>1, <1>2, <1>3, <1>4, SumFold!Keeps
<1> QED
  BY <1>5, BytesFold DEF G, P

(* One request's bytes change, or none. *)
LEMMA BytesChange ==
  ASSUME NEW c, NEW d, NEW r, NEW delta \in Int,
         \A q \in Requests : c.req[q].bytes \in Nat,
         \A q \in Requests : d.req[q].bytes = c.req[q].bytes + IF q = r THEN delta ELSE 0
  PROVE  Bytes(d) = Bytes(c) + IF r \in Requests THEN delta ELSE 0
<1> DEFINE P == SUBSET Requests
           sum == SumFold!Fold(c, 0, Requests)
           G == [X \in P |-> {sum[X] + IF r \in X THEN delta ELSE 0} \cap {n \in Int : sum[X] \in Int}]
<1>4. SumFold!Grounded(Requests) /\ SumFold!Chooses(Requests)
  BY RequestsGrounded
<1>0. sum = SumFold!Iteration(c, 0, Requests, sum)
  BY <1>4, SumFold!Solved
<1> HIDE DEF sum
<1>1. \A X \in P : X = {} => 0 \in G[X]
  BY <1>0 DEF SumFold!Iteration
<1>2. \A X \in P : X # {} =>
        /\ X \ {AnyOf(X)} \in P
        /\ \A n \in G[X \ {AnyOf(X)}] : SumOp(d, AnyOf(X), n) \in G[X]
  <2> TAKE X \in P
  <2> HAVE X # {}
  <2>1. AnyOf(X) \in X
    BY DEF AnyOf
  <2> DEFINE x == AnyOf(X)  Y == X \ {x}
  <2>3. sum[X] = c.req[x].bytes + sum[Y]
    BY <1>0 DEF SumFold!Iteration, SumOp
  <2>2. ASSUME NEW n \in G[Y]
        PROVE  d.req[x].bytes + n \in G[X]
    <3>0. Y \in P
      OBVIOUS
    <3>1. sum[Y] \in Int /\ n = sum[Y] + IF r \in Y THEN delta ELSE 0
      BY <2>2, <3>0
    <3>2. c.req[x].bytes \in Nat /\ d.req[x].bytes = c.req[x].bytes + IF x = r THEN delta ELSE 0
      BY <2>1
    <3>6. x \in X
      BY <2>1
    <3> HIDE DEF x
    <3>3. r \in X <=> (r \in Y \/ x = r)
      BY <3>6
    <3>4. ~(r \in Y /\ x = r)
      OBVIOUS
    <3> HIDE DEF Y
    <3>5. sum[X] \in Int /\ d.req[x].bytes + n = sum[X] + IF r \in X THEN delta ELSE 0
      BY <2>3, <3>1, <3>2, <3>3, <3>4
    <3> QED
      BY <3>1, <3>2, <3>5
  <2> HIDE DEF G
  <2> QED
    BY <2>1, <2>2 DEF SumOp
<1>3. P \in SUBSET (SUBSET Requests) /\ Requests \in P
  OBVIOUS
<1> HIDE DEF G, P
<1>5. SumFold!Fold(d, 0, Requests)[Requests] \in G[Requests]
  BY <1>1, <1>2, <1>3, <1>4, SumFold!Keeps
<1>6. Bytes(d) = sum[Requests] + IF r \in Requests THEN delta ELSE 0
  BY <1>5, BytesFold DEF G, P
<1> QED
  BY <1>6, BytesFold DEF sum

(* Two sets of requests that differ at most at r. *)
LEMMA CountChange ==
  ASSUME NEW S \in SUBSET Requests, NEW T \in SUBSET Requests, NEW r \in Requests,
         \A q \in Requests : q # r => (q \in S <=> q \in T)
  PROVE  /\ Cardinality(S) \in Nat /\ Cardinality(T) \in Nat
         /\ Cardinality(T) = Cardinality(S) - Release(r \in S) + Release(r \in T)
<1>1. IsFiniteSet(S) /\ IsFiniteSet(T) /\ Cardinality(S) \in Nat /\ Cardinality(T) \in Nat
  BY RequestsGrounded
<1>2. CASE r \in S <=> r \in T
  <2>1. S = T
    BY <1>2
  <2> QED
    BY <1>1, <2>1 DEF Release
<1>3. CASE r \in S /\ r \notin T
  <2>1. T = S \ {r}
    BY <1>3
  <2> QED
    BY <1>1, <1>3, <2>1, FS_RemoveElement DEF Release
<1>4. CASE r \notin S /\ r \in T
  <2>1. S = T \ {r}
    BY <1>4
  <2>2. Cardinality(S) = Cardinality(T) - 1
    BY <1>1, <1>4, <2>1, FS_RemoveElement
  <2> QED
    BY <1>1, <1>4, <2>2 DEF Release
<1> QED
  BY <1>2, <1>3, <1>4

-----------------------------------------------------------------------------
(* The queue without some of its requests.                                 *)

Members(queue) == {queue[i] : i \in 1 .. Len(queue)}
KeepOp(p, i, kept) == IF p.queue[i] \in p.out THEN kept ELSE Append(kept, p.queue[i])
KeepFold == INSTANCE Folding WITH Op <- KeepOp, Choose <- Max

(* Without, as the fold of Folding. *)
LEMMA WithoutFold ==
  ASSUME NEW queue \in Seq(Requests), NEW S
  PROVE  Without(queue, S)
           = KeepFold!Fold([queue |-> queue, out |-> S], <<>>, 1 .. Len(queue))[1 .. Len(queue)]
<1>1. DOMAIN queue = 1 .. Len(queue)
  OBVIOUS
<1> QED
  BY <1>1 DEF Without, FoldLeft, MapThenFoldSet, KeepFold!Fold, KeepFold!Iteration, KeepOp

(* One more at the end. *)
LEMMA AppendMembers ==
  ASSUME NEW queue \in Seq(Requests), NEW r \in Requests
  PROVE  /\ Append(queue, r) \in Seq(Requests)
         /\ Members(Append(queue, r)) = Members(queue) \cup {r}
         /\ IsInjective(queue) /\ r \notin Members(queue) => IsInjective(Append(queue, r))
<1> DEFINE new == Append(queue, r)  n == Len(queue)
<1>1. /\ new \in Seq(Requests) /\ n \in Nat /\ Len(new) = n + 1 /\ new[n + 1] = r
      /\ \A i \in 1 .. n : new[i] = queue[i]
      /\ DOMAIN new = 1 .. n + 1 /\ DOMAIN queue = 1 .. n
  BY AppendProperties
<1>2. 1 .. n + 1 = (1 .. n) \cup {n + 1}
  BY <1>1
<1> HIDE DEF new, n
<1>3. Members(new) = Members(queue) \cup {r}
  BY <1>1, <1>2 DEF Members, n
<1>4. IsInjective(queue) /\ r \notin Members(queue) => IsInjective(new)
  BY <1>1, <1>2 DEF Members, IsInjective, n
<1> QED
  BY <1>1, <1>3, <1>4 DEF new

(* What remains is what was there and is not taken out, once. *)
LEMMA WithoutMembers ==
  ASSUME NEW queue \in Seq(Requests), NEW S
  PROVE  /\ Without(queue, S) \in Seq(Requests)
         /\ Members(Without(queue, S)) = Members(queue) \ S
         /\ IsInjective(queue) => IsInjective(Without(queue, S))
<1> DEFINE n == Len(queue)  p == [queue |-> queue, out |-> S]
           From(X) == {queue[i] : i \in X}
           Fine(X, kept) ==
             /\ Members(kept) = From(X) \ S
             /\ IsInjective(queue) => IsInjective(kept)
           G == [X \in KeepFold!Segments(n) |-> {kept \in Seq(Requests) : Fine(X, kept)}]
<1>1. n \in Nat /\ DOMAIN queue = 1 .. n
  OBVIOUS
<1> HIDE DEF n
<1>4. KeepFold!Grounded(1 .. n)
  <2>1. Grounded(1 .. n)
    BY <1>1, IntervalGrounded
  <2> QED
    BY <2>1 DEF Grounded, KeepFold!Grounded
<1>5. /\ KeepFold!Segments(n) \in SUBSET (SUBSET (1 .. n)) /\ 1 .. n \in KeepFold!Segments(n)
      /\ {} \in KeepFold!Segments(n)
      /\ \A X \in KeepFold!Segments(n) : X # {} =>
           \E i \in 1 .. n : /\ Max(X) = i /\ X = 1 .. i
                             /\ X \ {i} = 1 .. i - 1 /\ X \ {i} \in KeepFold!Segments(n)
  <2>1. \A X : KeepFold!Max(X) = Max(X)
    BY DEF KeepFold!Max, Max
  <2> QED
    BY <1>1, <1>4, <2>1, KeepFold!SegmentsInOrder
<1>6. KeepFold!Chooses(1 .. n)
  <2>1. \A X \in SUBSET (1 .. n) : X # {} => Max(X) \in X
    <3> TAKE X \in SUBSET (1 .. n)
    <3> HAVE X # {}
    <3>1. KeepFold!Max(X) = Max(X)
      BY DEF KeepFold!Max, Max
    <3>2. 1 \in Int /\ n \in Int
      BY <1>1
    <3>3. KeepFold!Max(X) \in X
      BY <1>4, <3>2, KeepFold!Ends
    <3> QED
      BY <3>1, <3>3
  <2> QED
    BY <2>1 DEF KeepFold!Chooses
<1>7. \A X \in KeepFold!Segments(n) : X = {} => <<>> \in G[X]
  <2>1. <<>> \in Seq(Requests) /\ Members(<<>>) = {} /\ IsInjective(<<>>)
    BY DEF Members, IsInjective
  <2> QED
    BY <2>1
<1>8. \A X \in KeepFold!Segments(n) : X # {} =>
        /\ X \ {Max(X)} \in KeepFold!Segments(n)
        /\ \A kept \in G[X \ {Max(X)}] : KeepOp(p, Max(X), kept) \in G[X]
  <2> TAKE X \in KeepFold!Segments(n)
  <2> HAVE X # {}
  <2>1. PICK i \in 1 .. n : /\ Max(X) = i /\ X = 1 .. i
                            /\ X \ {i} = 1 .. i - 1 /\ X \ {i} \in KeepFold!Segments(n)
    BY <1>5
  <2>2. ASSUME NEW kept \in G[X \ {i}]
        PROVE  KeepOp(p, i, kept) \in G[X]
    <3>1. kept \in Seq(Requests) /\ Fine(X \ {i}, kept)
      BY <2>1, <2>2
    <3>2. queue[i] \in Requests
      BY <1>1, <2>1
    <3>3. KeepOp(p, i, kept) = IF queue[i] \in S THEN kept ELSE Append(kept, queue[i])
      BY DEF KeepOp
    <3>4. From(X) = From(X \ {i}) \cup {queue[i]}
      BY <2>1
    <3>5. CASE queue[i] \in S
      <4>1. Fine(X, kept)
        BY <3>1, <3>4, <3>5
      <4> QED
        BY <3>1, <3>3, <3>5, <4>1
    <3>6. CASE queue[i] \notin S
      <4> DEFINE new == Append(kept, queue[i])
      <4>1. /\ new \in Seq(Requests) /\ Members(new) = Members(kept) \cup {queue[i]}
            /\ IsInjective(kept) /\ queue[i] \notin Members(kept) => IsInjective(new)
        BY <3>1, <3>2, AppendMembers
      <4> HIDE DEF new
      <4>2. IsInjective(queue) => queue[i] \notin Members(kept)
        <5> SUFFICES ASSUME IsInjective(queue), queue[i] \in From(X \ {i}) PROVE FALSE
          BY <3>1
        <5>1. PICK j \in X \ {i} : queue[j] = queue[i]
          BY <2>1
        <5> QED
          BY <1>1, <2>1, <5>1 DEF IsInjective
      <4>3. Fine(X, new)
        BY <3>1, <3>4, <3>6, <4>1, <4>2
      <4> QED
        BY <3>3, <3>6, <4>1, <4>3 DEF new
    <3> QED
      BY <3>5, <3>6
  <2> HIDE DEF G
  <2> QED
    BY <2>1, <2>2
<1> HIDE DEF G, p
<1>9. KeepFold!Fold(p, <<>>, 1 .. n)[1 .. n] \in G[1 .. n]
  <2> DEFINE D == 1 .. n
             P == KeepFold!Segments(n)
  <2> HIDE DEF D, P
  <2>1. KeepFold!Grounded(D) /\ KeepFold!Chooses(D) /\ P \in SUBSET (SUBSET D) /\ D \in P
    BY <1>5, <1>4, <1>6 DEF D, P
  <2>2. \A X \in P : X = {} => <<>> \in G[X]
    BY <1>7 DEF P
  <2>3. \A X \in P : X # {} =>
          /\ X \ {Max(X)} \in P
          /\ \A kept \in G[X \ {Max(X)}] : KeepOp(p, Max(X), kept) \in G[X]
    BY <1>8 DEF P
  <2>4. KeepFold!Fold(p, <<>>, D)[D] \in G[D]
    BY <2>1, <2>2, <2>3, KeepFold!Keeps
  <2> QED
    BY <2>4 DEF D
<1>10. Without(queue, S) \in G[1 .. n]
  BY <1>9, WithoutFold DEF p, n
<1>11. Without(queue, S) \in Seq(Requests) /\ Fine(1 .. n, Without(queue, S))
  BY <1>5, <1>10 DEF G
<1> QED
  BY <1>11 DEF Members, n

(* First finds a member of the queue. *)
LEMMA FirstFound ==
  ASSUME NEW c, c.queue \in Seq(Requests), NEW S, S # {}, S \subseteq Queued(c)
  PROVE  First(c, S) \in S
<1> DEFINE X == {i \in 1 .. Len(c.queue) : c.queue[i] \in S}
<1>1. X # {} /\ X \in SUBSET (1 .. Len(c.queue)) /\ 1 \in Int /\ Len(c.queue) \in Int
  BY DEF Queued
<1>2. SumFold!Min(X) = Min(X)
  BY DEF SumFold!Min, Min
<1>3. SumFold!Min(X) \in X
  <2>1. SumFold!Grounded(1 .. Len(c.queue))
    <3>1. Grounded(1 .. Len(c.queue))
      BY <1>1, IntervalGrounded
    <3> QED
      BY <3>1 DEF Grounded, SumFold!Grounded
  <2> HIDE DEF X
  <2> QED
    BY <1>1, <2>1, SumFold!Ends
<1> QED
  BY <1>2, <1>3 DEF First

-----------------------------------------------------------------------------
(* The order of the queue, and the lanes of a batch.                       *)

(* Before orders the requests strictly and totally. *)
LEMMA BeforeIsOrder ==
  ASSUME NEW c \in CoordinatorType, now \in Nat
  PROVE  /\ \A q \in Requests : ~Before(c, q, q)
         /\ \A p, q, r \in Requests : Before(c, p, q) /\ Before(c, q, r) => Before(c, p, r)
         /\ \A q, r \in Requests : q # r => Before(c, q, r) \/ Before(c, r, q)
<1> DEFINE Key(i) == [priority |-> c.req[i].spec.priority, submitted |-> c.req[i].submitted,
                      deadline |-> c.req[i].spec.deadline, id |-> i]
<1>1. \A i \in Requests : Key(i) \in Policed /\ Key(i).id = i
  <2> TAKE i \in Requests
  <2>1. c.req[i] \in RequestType
    BY DEF CoordinatorType
  <2>2. c.req[i].spec \in Spec0 /\ c.req[i].submitted \in Nat
    BY <2>1 DEF RequestType
  <2>3. c.req[i].spec.priority \in Priorities /\ c.req[i].spec.deadline \in 0 .. MaxTime + 1
    BY <2>2 DEF Spec0
  <2>4. c.req[i].spec.deadline \in Nat
    BY <2>3, RequestConstants
  <2> QED
    BY <2>2, <2>3, <2>4, RequestsAreNumbers DEF Policed
<1>2. \A q, r \in Requests : Before(c, q, r) <=> Precedes(Key(q), Key(r), now)
  BY DEF Before
<1> HIDE DEF Key
<1> QED
  BY <1>1, <1>2, PrecedesIsStrictTotalOrder

(* Every place in the order of some requests is taken by one of them. *)
LEMMA RankOnto ==
  ASSUME NEW c \in CoordinatorType, now \in Nat, NEW S \in SUBSET Requests
  PROVE  \A i \in 0 .. Cardinality(S) - 1 : \E r \in S : Rank(c, S, r) = i
<1> DEFINE n == Cardinality(S)
           Ahead(r) == {q \in S : Before(c, q, r)}
           f == [r \in S |-> Cardinality(Ahead(r))]
           T == 0 .. n - 1
<1>0. \A r \in S : Rank(c, S, r) = f[r]
  BY DEF Rank
<1>1. IsFiniteSet(S) /\ n \in Nat
  BY RequestsGrounded
<1>2. \A r \in S : IsFiniteSet(Ahead(r)) /\ f[r] \in T
  <2> TAKE r \in S
  <2>1. Ahead(r) \in SUBSET (S \ {r})
    BY BeforeIsOrder
  <2>2. IsFiniteSet(S \ {r}) /\ Cardinality(S \ {r}) = n - 1
    BY <1>1, FS_RemoveElement
  <2> HIDE DEF Ahead, n
  <2>3. IsFiniteSet(Ahead(r)) /\ Cardinality(Ahead(r)) <= n - 1
    BY <2>1, <2>2, FS_Subset
  <2>4. Cardinality(Ahead(r)) \in Nat
    BY <2>3, FS_CardinalityType
  <2> QED
    BY <1>1, <2>3, <2>4
<1>3. ASSUME NEW q \in S, NEW r \in S, Before(c, q, r)
      PROVE  f[q] # f[r]
  <2>1. Ahead(q) \in SUBSET Ahead(r) /\ q \in Ahead(r) /\ q \notin Ahead(q)
    BY <1>3, BeforeIsOrder
  <2> HIDE DEF Ahead
  <2>2. Cardinality(Ahead(r)) # Cardinality(Ahead(q))
    BY <1>2, <2>1, FS_Subset
  <2> QED
    BY <2>2
<1>4. f \in Injection(S, T)
  <2>1. \A q, r \in S : f[q] = f[r] => q = r
    <3> SUFFICES ASSUME NEW q \in S, NEW r \in S, q # r PROVE f[q] # f[r]
      OBVIOUS
    <3>1. Before(c, q, r) \/ Before(c, r, q)
      BY BeforeIsOrder
    <3> QED
      BY <1>3, <3>1
  <2>2. f \in [S -> T]
    BY <1>2
  <2> HIDE DEF f, T
  <2> QED
    BY <2>1, <2>2 DEF Injection, IsInjective
<1>5. IsFiniteSet(T) /\ Cardinality(T) = n
  <2>1. 0 \in Int /\ n - 1 \in Int
    BY <1>1
  <2>2. IsFiniteSet(T) /\ Cardinality(T) = IF 0 > n - 1 THEN 0 ELSE (n - 1) - 0 + 1
    BY <2>1, FS_Interval
  <2> QED
    BY <1>1, <2>2
<1> HIDE DEF f, T
<1>6. f \in Surjection(S, T)
  BY <1>4, <1>5, FS_Injection
<1>7. \A i \in T : \E r \in S : f[r] = i
  BY <1>6 DEF Surjection
<1> QED
  BY <1>0, <1>7 DEF T

(* The coordinator's pass finds a best request. *)
LEMMA BestFound ==
  ASSUME NEW c \in CoordinatorType, now \in Nat, NEW S \in SUBSET Requests, S # {}
  PROVE  Best(c, S) \in S
<1>1. IsFiniteSet(S) /\ Cardinality(S) \in Nat
  BY RequestsGrounded
<1>2. Cardinality(S) # 0
  BY <1>1, FS_EmptySet
<1>3. PICK r \in S : Rank(c, S, r) = 0
  <2>1. 0 \in 0 .. Cardinality(S) - 1
    BY <1>1, <1>2
  <2> QED
    BY <2>1, RankOnto
<1>4. {q \in S : Before(c, q, r)} = {}
  <2>1. IsFiniteSet({q \in S : Before(c, q, r)})
    BY <1>1, FS_Subset
  <2> QED
    BY <1>3, <2>1, FS_EmptySet DEF Rank
<1>5. \A q \in S \ {r} : Before(c, r, q)
  BY <1>4, BeforeIsOrder
<1> QED
  BY <1>5 DEF Best

(* The lanes are different queued requests, the anchor and its mates. *)
LEMMA LanesFound ==
  ASSUME NEW c \in CoordinatorType, now \in Nat, NEW first \in Queued(c), NEW n \in Nat, n >= 1
  PROVE  LET lanes == Lanes(c, first, n)
         IN  /\ lanes \in Seq(Requests) /\ IsInjective(lanes)
             /\ Len(lanes) \in 1 .. n /\ lanes[1] = first
             /\ \A i \in 1 .. Len(lanes) :
                  /\ lanes[i] \in Queued(c)
                  /\ lanes[i] = first \/ Compatible(c, first, lanes[i])
<1> DEFINE mates == {r \in Queued(c) \ {first} : Compatible(c, first, r)}
           m == Min({n, Cardinality(mates) + 1})
           Mate(i) == CHOOSE r \in mates : Rank(c, mates, r) = i - 2
           lanes == Lanes(c, first, n)
<1>0. lanes = [i \in 1 .. m |-> IF i = 1 THEN first ELSE Mate(i)]
  BY DEF Lanes
<1>1. Queued(c) \in SUBSET Requests
  BY DEF Queued, CoordinatorType
<1>2. mates \in SUBSET Requests /\ Cardinality(mates) \in Nat
  BY <1>1, RequestsGrounded
<1>3. m \in 1 .. n /\ m <= Cardinality(mates) + 1
  <2> DEFINE X == {n, Cardinality(mates) + 1}  k == n + Cardinality(mates) + 1
  <2>1. X \in SUBSET (1 .. k) /\ X # {} /\ 1 \in Int /\ k \in Int
    BY <1>2
  <2>2. SumFold!Min(X) = Min(X)
    BY DEF SumFold!Min, Min
  <2>3. SumFold!Min(X) \in X /\ \A y \in X : SumFold!Min(X) <= y
    <3> HIDE DEF X, k
    <3>1. SumFold!Grounded(1 .. k)
      <4>1. Grounded(1 .. k)
        BY <2>1, IntervalGrounded
      <4> QED
        BY <4>1 DEF Grounded, SumFold!Grounded
    <3> QED
      BY <2>1, <3>1, SumFold!Ends
  <2> QED
    BY <1>2, <2>2, <2>3
<1> HIDE DEF m, lanes
<1>4. ASSUME NEW i \in 1 .. m, i # 1
      PROVE  Mate(i) \in mates /\ Rank(c, mates, Mate(i)) = i - 2
  <2>1. i - 2 \in 0 .. Cardinality(mates) - 1
    BY <1>2, <1>3, <1>4
  <2> HIDE DEF mates
  <2>2. \E r \in mates : Rank(c, mates, r) = i - 2
    BY <1>2, <2>1, RankOnto
  <2> QED
    BY <2>2
<1> HIDE DEF Mate
<1>5. \A i \in 1 .. m : lanes[i] = IF i = 1 THEN first ELSE Mate(i)
  BY <1>0
<1>6. \A i \in 1 .. m : lanes[i] \in Queued(c) /\ (lanes[i] = first \/ Compatible(c, first, lanes[i]))
  BY <1>4, <1>5
<1>7. lanes \in Seq(Requests) /\ Len(lanes) = m /\ DOMAIN lanes = 1 .. m
  <2>1. lanes \in [1 .. m -> Requests]
    BY <1>0, <1>1, <1>5, <1>6
  <2>2. m \in Nat
    BY <1>3
  <2> QED
    BY <2>1, <2>2
<1>8. IsInjective(lanes)
  <2> SUFFICES ASSUME NEW i \in 1 .. m, NEW j \in 1 .. m, lanes[i] = lanes[j] PROVE i = j
    BY <1>7 DEF IsInjective
  <2>1. CASE i = 1 /\ j = 1
    BY <2>1
  <2>2. CASE i = 1 /\ j # 1
    BY <1>4, <1>5, <2>2
  <2>3. CASE i # 1 /\ j = 1
    BY <1>4, <1>5, <2>3
  <2>4. CASE i # 1 /\ j # 1
    <3>1. i - 2 = j - 2
      BY <1>4, <1>5, <2>4
    <3> QED
      BY <1>3, <3>1
  <2> QED
    BY <2>1, <2>2, <2>3, <2>4
<1>9. lanes[1] = first
  BY <1>3, <1>5
<1> QED
  BY <1>3, <1>6, <1>7, <1>8, <1>9 DEF lanes

(* A batch larger than one request fits in the input budget. *)
LEMMA LegalBatchFits ==
  ASSUME NEW c \in CoordinatorType, NEW first \in Requests
  PROVE  LET n == LegalBatch(c, first)
         IN  /\ n \in Nat /\ n >= 1
             /\ n # 1 => /\ c.req[first].spec.batch
                         /\ Staging(c, first, n) <= MaxInputBytes - c.bytes
<1> DEFINE mates == {r \in Queued(c) : Compatible(c, first, r)}
           k == Cardinality(mates)
           legal == {n \in 2 .. k :
                      /\ n <= MaxBatch /\ n <= MaxRequests /\ n >= MinBatch
                      /\ n % MultipleOf = 0
                      /\ Staging(c, first, n) <= MaxInputBytes - c.bytes}
<1>1. LegalBatch(c, first) = IF c.req[first].spec.batch /\ legal # {} THEN Max(legal) ELSE 1
  BY DEF LegalBatch
<1>2. k \in Nat
  <2>1. mates \in SUBSET Requests
    BY DEF Queued, CoordinatorType
  <2> QED
    BY <2>1, RequestsGrounded
<1>3. legal # {} => Max(legal) \in legal
  <2>1. SumFold!Max(legal) = Max(legal)
    BY DEF SumFold!Max, Max
  <2>2. legal \in SUBSET (2 .. k) /\ 2 \in Int /\ k \in Int
    BY <1>2
  <2> HIDE DEF legal
  <2>3. SumFold!Grounded(2 .. k)
    <3>1. Grounded(2 .. k)
      BY <2>2, IntervalGrounded
    <3> QED
      BY <3>1 DEF Grounded, SumFold!Grounded
  <2>4. legal # {} => SumFold!Max(legal) \in legal
    BY <2>2, <2>3, SumFold!Ends
  <2> QED
    BY <2>1, <2>4
<1>4. \A n \in legal : n \in Nat /\ n >= 1 /\ Staging(c, first, n) <= MaxInputBytes - c.bytes
  BY <1>2
<1> HIDE DEF legal
<1>5. CASE c.req[first].spec.batch /\ legal # {}
  <2>1. LegalBatch(c, first) \in legal
    BY <1>1, <1>3, <1>5
  <2> QED
    BY <1>4, <1>5, <2>1
<1>6. CASE ~(c.req[first].spec.batch /\ legal # {})
  <2>1. LegalBatch(c, first) = 1
    BY <1>1, <1>6
  <2> QED
    BY <2>1
<1> QED
  BY <1>5, <1>6

-----------------------------------------------------------------------------
(* What the operators do to the coordinator, field by field.               *)

SameLists(c, d) ==
  /\ d.queue = c.queue /\ d.inflight = c.inflight /\ d.replacements = c.replacements
  /\ d.stopping = c.stopping
SameCounters(c, d) == d.requests = c.requests /\ d.bytes = c.bytes /\ d.waiters = c.waiters
Only(c, d, r) == \A q \in Requests : q # r => d.req[q] = c.req[q]

(* Two requests that differ at most in what they hold of outputs and       *)
(* contexts, or at most in their claims on the budget.                     *)
SameClaims(p, q) ==
  q.budget = p.budget /\ q.counted = p.counted /\ q.bytes = p.bytes /\ q.claim = p.claim
SameCourse(p, q) ==
  /\ q.spec = p.spec /\ q.submitted = p.submitted /\ q.state = p.state
  /\ q.cancel = p.cancel /\ q.superseded = p.superseded /\ q.result = p.result
SameHold(p, q) == q.ticket = p.ticket /\ q.token = p.token
SameCore(p, q) == SameClaims(p, q) /\ SameCourse(p, q)

(* A step that concerns outputs and contexts only. *)
Light(c, d) ==
  /\ d \in CoordinatorType
  /\ \A r \in Requests : SameCore(c.req[r], d.req[r])
  /\ SameLists(c, d) /\ SameCounters(c, d)

(* Light steps follow each other. *)
LEMMA LightIsTransitive ==
  ASSUME NEW c, NEW d, NEW e, Light(c, d), Light(d, e)
  PROVE  Light(c, e)
BY DEF Light, SameCore, SameClaims, SameCourse, SameLists, SameCounters

(* The records of a typed coordinator are typed, a bound request's context *)
(* with them.                                                              *)
LEMMA Typed ==
  ASSUME NEW c \in CoordinatorType
  PROVE  /\ \A r \in Requests : c.req[r] \in RequestType
         /\ \A x \in Contexts : c.ctx[x] \in ContextType
         /\ \A r \in Requests : Bound(c, r) => c.req[r].spec.context \in Contexts /\ ContextOf(c, r) \in ContextType
<1>1. \A r \in Requests : c.req[r] \in RequestType
  BY DEF CoordinatorType
<1>2. \A x \in Contexts : c.ctx[x] \in ContextType
  BY DEF CoordinatorType
<1>3. \A r \in Requests : Bound(c, r) => c.req[r].spec.context \in Contexts
  <2> TAKE r \in Requests
  <2>1. c.req[r].spec \in Spec0
    BY <1>1 DEF RequestType
  <2>2. c.req[r].spec.context \in Contexts \cup {NoContext}
    BY <2>1 DEF Spec0
  <2> QED
    BY <2>2 DEF Bound
<1> QED
  BY <1>1, <1>2, <1>3 DEF ContextOf

(* One request's record is replaced, and perhaps counters. *)
PutReq(c, r, q) == [c EXCEPT !.req[r] = q]
PutTicket(c, r, q, k) == [c EXCEPT !.results = k, !.req[r] = q]
PutClaims(c, r, q, i, j, k) ==
  [c EXCEPT !.requests = i, !.bytes = j, !.waiters = k, !.req[r] = q]

(* One request's record is replaced. *)
LEMMA ReplacedRecord ==
  ASSUME NEW c \in CoordinatorType, NEW r \in Requests, NEW q \in RequestType
  PROVE  LET d == PutReq(c, r, q)
         IN  /\ d \in CoordinatorType /\ d.req[r] = q /\ Only(c, d, r)
             /\ d.ctx = c.ctx /\ d.results = c.results /\ SameLists(c, d) /\ SameCounters(c, d)
BY DEF PutReq, CoordinatorType, Only, SameLists, SameCounters

(* One request's record and the count of results are replaced. *)
LEMMA ReplacedRecordTicket ==
  ASSUME NEW c \in CoordinatorType, NEW r \in Requests, NEW q \in RequestType, NEW k \in Int
  PROVE  LET d == PutTicket(c, r, q, k)
         IN  /\ d \in CoordinatorType /\ d.req[r] = q /\ Only(c, d, r)
             /\ d.ctx = c.ctx /\ d.results = k /\ SameLists(c, d) /\ SameCounters(c, d)
BY DEF PutTicket, CoordinatorType, Only, SameLists, SameCounters

(* One request's record and the counts of its claims are replaced. *)
LEMMA ReplacedRecordClaims ==
  ASSUME NEW c \in CoordinatorType, NEW r \in Requests, NEW q \in RequestType,
         NEW i \in Int, NEW j \in Int, NEW k \in Int
  PROVE  LET d == PutClaims(c, r, q, i, j, k)
         IN  /\ d \in CoordinatorType /\ d.req[r] = q /\ Only(c, d, r)
             /\ d.ctx = c.ctx /\ d.results = c.results /\ SameLists(c, d)
             /\ d.requests = i /\ d.bytes = j /\ d.waiters = k
BY DEF PutClaims, CoordinatorType, Only, SameLists, SameCounters

(* One field of a request. *)
LEMMA CancelField ==
  ASSUME NEW q \in RequestType, NEW b \in BOOLEAN
  PROVE  LET p == [q EXCEPT !.cancel = b]
         IN  /\ p \in RequestType /\ p.cancel = b /\ SameHold(q, p) /\ SameClaims(q, p)
             /\ p.spec = q.spec /\ p.submitted = q.submitted /\ p.state = q.state
             /\ p.superseded = q.superseded /\ p.result = q.result
BY DEF RequestType, SameHold, SameClaims

(* A record whose token is set. *)
LEMMA TokenField ==
  ASSUME NEW q \in RequestType, NEW b \in BOOLEAN
  PROVE  LET p == [q EXCEPT !.token = b]
         IN  p \in RequestType /\ p.token = b /\ p.ticket = q.ticket /\ SameCore(q, p)
BY DEF RequestType, SameClaims, SameCore, SameCourse

(* A record whose ticket is set. *)
LEMMA TicketField ==
  ASSUME NEW q \in RequestType, NEW b \in BOOLEAN
  PROVE  LET p == [q EXCEPT !.ticket = b]
         IN  p \in RequestType /\ p.ticket = b /\ p.token = q.token /\ SameCore(q, p)
BY DEF RequestType, SameClaims, SameCore, SameCourse

(* A record whose state is set. *)
LEMMA StateField ==
  ASSUME NEW q \in RequestType, NEW state \in States
  PROVE  LET p == [q EXCEPT !.state = state]
         IN  /\ p \in RequestType /\ p.state = state /\ SameHold(q, p) /\ SameClaims(q, p)
             /\ p.spec = q.spec /\ p.submitted = q.submitted /\ p.cancel = q.cancel
             /\ p.superseded = q.superseded /\ p.result = q.result
BY DEF RequestType, SameHold, SameClaims

(* The functions on a context keep its type. *)
LEMMA ContextFunctions ==
  ASSUME NEW x \in ContextType, NEW r \in Requests, NEW outcome
  PROVE  /\ Reserve(x, r) \in ContextType /\ Unreserve(x, r) \in ContextType
         /\ Claim(x) \in ContextType /\ Settle(x, outcome) \in ContextType
         /\ FinishReserved(x, r) \in ContextType /\ CancelReserved(x, r) \in ContextType
         /\ CancelExecution(x) \in ContextType
<1>2. {"READY", "QUEUED", "RUNNING", "CANCELLED", "FAILED"} \subseteq ContextStates /\ x.state \in ContextStates
  BY DEF ContextStates, ContextType
<1>3. Reserve(x, r) \in ContextType
  BY <1>2 DEF ContextType, Reserve
<1>4. Unreserve(x, r) \in ContextType
  BY <1>2 DEF ContextType, Unreserve
<1>5. Claim(x) \in ContextType
  BY <1>2 DEF ContextType, Claim
<1>6. Settle(x, outcome) \in ContextType
  <2>1. CASE x.cancel /\ outcome # "FAIL"
    BY <1>2, <2>1 DEF ContextType, Settle
  <2>2. CASE outcome = "FAIL"
    BY <1>2, <2>2 DEF ContextType, Settle
  <2>3. CASE ~(x.cancel /\ outcome # "FAIL") /\ outcome # "FAIL"
    BY <1>2, <2>3 DEF ContextType, Settle
  <2> QED
    BY <2>1, <2>2, <2>3
<1>7. FinishReserved(x, r) \in ContextType
  BY <1>2 DEF ContextType, FinishReserved
<1>8. CancelReserved(x, r) \in ContextType /\ CancelExecution(x) \in ContextType
  <2>1. (IF x.state = "RUNNING" THEN x.state ELSE "CANCELLED") \in ContextStates
    BY <1>2
  <2>2. CancelExecution(x) \in ContextType
    BY <2>1 DEF ContextType, CancelExecution
  <2>3. CancelReserved(x, r) \in ContextType
    BY <2>1 DEF ContextType, CancelReserved
  <2> QED
    BY <2>2, <2>3
<1> QED
  BY <1>3, <1>4, <1>5, <1>6, <1>7, <1>8

(* A step that only touches what one request holds is light. *)
LEMMA CoreOfSelf ==
  ASSUME NEW c, NEW d, NEW r, d \in CoordinatorType, Only(c, d, r), SameCore(c.req[r], d.req[r]),
         SameLists(c, d), SameCounters(c, d)
  PROVE  Light(c, d)
BY DEF Light, Only, SameCore, SameClaims, SameCourse

(* A request is marked as cancelled. *)
LEMMA MarkCancelled ==
  ASSUME NEW c \in CoordinatorType, NEW r \in Requests
  PROVE  LET d == SetReq(c, r, "cancel", TRUE)
         IN  /\ d \in CoordinatorType /\ Only(c, d, r)
             /\ d.req[r].cancel /\ SameHold(c.req[r], d.req[r]) /\ SameClaims(c.req[r], d.req[r])
             /\ d.req[r].spec = c.req[r].spec /\ d.req[r].submitted = c.req[r].submitted
             /\ d.req[r].state = c.req[r].state /\ d.req[r].superseded = c.req[r].superseded
             /\ d.req[r].result = c.req[r].result
             /\ d.ctx = c.ctx /\ d.results = c.results /\ SameLists(c, d) /\ SameCounters(c, d)
<1> DEFINE p == [c.req[r] EXCEPT !.cancel = TRUE]
<1>1. c.req[r] \in RequestType /\ TRUE \in BOOLEAN
  BY Typed
<1>2. /\ p \in RequestType /\ p.cancel = TRUE /\ SameHold(c.req[r], p) /\ SameClaims(c.req[r], p)
      /\ p.spec = c.req[r].spec /\ p.submitted = c.req[r].submitted /\ p.state = c.req[r].state
      /\ p.superseded = c.req[r].superseded /\ p.result = c.req[r].result
  BY <1>1, CancelField
<1> DEFINE d == SetReq(c, r, "cancel", TRUE)
<1>3. d = PutReq(c, r, p)
  BY DEF SetReq, PutReq
<1> HIDE DEF p, d
<1>4. /\ d \in CoordinatorType /\ d.req[r] = p /\ Only(c, d, r)
      /\ d.ctx = c.ctx /\ d.results = c.results /\ SameLists(c, d) /\ SameCounters(c, d)
  BY <1>2, <1>3, ReplacedRecord
<1> QED
  BY <1>2, <1>4 DEF d

(* A request forgets its reservation. *)
LEMMA TokenDropped ==
  ASSUME NEW c \in CoordinatorType, NEW r \in Requests
  PROVE  LET d == SetReq(c, r, "token", FALSE)
         IN  /\ Light(c, d) /\ Only(c, d, r)
             /\ ~d.req[r].token /\ d.req[r].ticket = c.req[r].ticket
             /\ d.ctx = c.ctx /\ d.results = c.results
<1> DEFINE p == [c.req[r] EXCEPT !.token = FALSE]
<1>1. c.req[r] \in RequestType /\ FALSE \in BOOLEAN
  BY Typed
<1>2. p \in RequestType /\ p.token = FALSE /\ p.ticket = c.req[r].ticket /\ SameCore(c.req[r], p)
  BY <1>1, TokenField
<1> DEFINE d == SetReq(c, r, "token", FALSE)
<1>3. d = PutReq(c, r, p)
  BY DEF SetReq, PutReq
<1> HIDE DEF p, d
<1>4. /\ d \in CoordinatorType /\ d.req[r] = p /\ Only(c, d, r)
      /\ d.ctx = c.ctx /\ d.results = c.results /\ SameLists(c, d) /\ SameCounters(c, d)
  BY <1>2, <1>3, ReplacedRecord
<1> QED
  BY <1>2, <1>4, CoreOfSelf DEF d

(* A request gives its output ticket back. *)
LEMMA TicketReleased ==
  ASSUME NEW c \in CoordinatorType, NEW r \in Requests
  PROVE  LET d == TicketRelease(c, r)
         IN  /\ Light(c, d) /\ Only(c, d, r)
             /\ ~d.req[r].ticket /\ d.req[r].token = c.req[r].token
             /\ d.ctx = c.ctx /\ d.results = c.results - Release(c.req[r].ticket)
<1> DEFINE p == [c.req[r] EXCEPT !.ticket = FALSE]
           k == c.results - Release(c.req[r].ticket)
<1>1. c.req[r] \in RequestType /\ FALSE \in BOOLEAN
  BY Typed
<1>2. p \in RequestType /\ p.ticket = FALSE /\ p.token = c.req[r].token /\ SameCore(c.req[r], p)
  BY <1>1, TicketField
<1>3. TicketRelease(c, r) = PutTicket(c, r, p, k)
  BY DEF TicketRelease, PutTicket
<1>4. k \in Int
  BY DEF CoordinatorType, Release
<1> HIDE DEF p, k
<1>5. LET d == TicketRelease(c, r)
      IN  /\ d \in CoordinatorType /\ d.req[r] = p /\ Only(c, d, r)
          /\ d.ctx = c.ctx /\ d.results = k /\ SameLists(c, d) /\ SameCounters(c, d)
  BY <1>2, <1>3, <1>4, ReplacedRecordTicket
<1> QED
  BY <1>2, <1>5, CoreOfSelf DEF k

(* A request's context is replaced, if it has one. *)
LEMMA ContextSet ==
  ASSUME NEW c \in CoordinatorType, NEW r \in Requests, NEW x, Bound(c, r) => x \in ContextType
  PROVE  LET d == SetCtx(c, r, x)  y == c.req[r].spec.context
         IN  /\ Light(c, d) /\ d.req = c.req /\ d.results = c.results
             /\ Bound(c, r) => /\ d.ctx[y] = x /\ ContextOf(d, r) = x
                               /\ \A z \in Contexts : z # y => d.ctx[z] = c.ctx[z]
             /\ ~Bound(c, r) => d.ctx = c.ctx
<1> DEFINE y == c.req[r].spec.context
           f == [c.ctx EXCEPT ![y] = x]
           d == SetCtx(c, r, x)
<1>1. d = [c EXCEPT !.ctx = f]
  BY DEF SetCtx, CoordinatorType
<1>2. c.ctx \in [Contexts -> ContextType]
  BY DEF CoordinatorType
<1>3. CASE Bound(c, r)
  <2>1. y \in Contexts /\ x \in ContextType
    BY <1>3, Typed
  <2>2. f \in [Contexts -> ContextType] /\ f[y] = x /\ \A z \in Contexts : z # y => f[z] = c.ctx[z]
    BY <1>2, <2>1
  <2> HIDE DEF f, y
  <2>3. /\ d \in CoordinatorType /\ d.req = c.req /\ d.results = c.results /\ d.ctx = f
        /\ SameLists(c, d) /\ SameCounters(c, d)
    BY <1>1, <2>2 DEF CoordinatorType, SameLists, SameCounters
  <2> HIDE DEF d
  <2>4. Light(c, d)
    BY <2>3 DEF Light, SameCore, SameClaims, SameCourse
  <2> QED
    BY <1>3, <2>2, <2>3, <2>4 DEF d, y, ContextOf
<1>4. CASE ~Bound(c, r)
  <2>1. y \notin Contexts
    BY <1>4, RequestConstants DEF Bound
  <2>2. f = c.ctx
    BY <1>2, <2>1
  <2> HIDE DEF f
  <2>3. /\ d \in CoordinatorType /\ d.req = c.req /\ d.results = c.results /\ d.ctx = c.ctx
        /\ SameLists(c, d) /\ SameCounters(c, d)
    BY <1>1, <2>2 DEF CoordinatorType, SameLists, SameCounters
  <2> HIDE DEF d
  <2>4. Light(c, d)
    BY <2>3 DEF Light, SameCore, SameClaims, SameCourse
  <2> QED
    BY <1>4, <2>3, <2>4 DEF d
<1> QED
  BY <1>3, <1>4

(* An unused reservation is given back, and the ticket with it. *)
LEMMA InputsCleared ==
  ASSUME NEW c \in CoordinatorType, NEW r \in Requests
  PROVE  LET d == InputsClear(c, r)  x == ContextOf(c, r)  y == c.req[r].spec.context
         IN  /\ Light(c, d) /\ Only(c, d, r) /\ ~d.req[r].token
             /\ ~c.req[r].token => d = c
             /\ c.req[r].token /\ Bound(c, r) /\ UnreserveOK(x, r) =>
                  /\ ~d.req[r].ticket /\ d.results = c.results - Release(c.req[r].ticket)
                  /\ d.ctx[y] = Unreserve(x, r)
                  /\ \A z \in Contexts : z # y => d.ctx[z] = c.ctx[z]
<1> DEFINE x == ContextOf(c, r)
           a == SetCtx(c, r, Unreserve(x, r))
           e == SetReq(a, r, "token", FALSE)
           d == InputsClear(c, r)
<1>1. d = IF ~c.req[r].token THEN c ELSE IF UnreserveOK(x, r) THEN TicketRelease(e, r) ELSE e
  BY DEF InputsClear
<1>2. Light(c, c) /\ Only(c, c, r)
  BY DEF Light, Only, SameCore, SameClaims, SameCourse, SameLists, SameCounters
<1>3. Bound(c, r) => Unreserve(x, r) \in ContextType
  <2>1. Bound(c, r) => x \in ContextType
    BY Typed
  <2> QED
    BY <2>1, ContextFunctions
<1>4. /\ Light(c, a) /\ a.req = c.req /\ a.results = c.results
      /\ Bound(c, r) => /\ a.ctx[c.req[r].spec.context] = Unreserve(x, r)
                        /\ \A z \in Contexts : z # c.req[r].spec.context => a.ctx[z] = c.ctx[z]
  BY <1>3, ContextSet
<1> HIDE DEF a
<1>5. a \in CoordinatorType
  BY <1>4 DEF Light
<1>6. /\ Light(a, e) /\ Only(a, e, r) /\ ~e.req[r].token /\ e.req[r].ticket = a.req[r].ticket
      /\ e.ctx = a.ctx /\ e.results = a.results
  BY <1>5, TokenDropped
<1> HIDE DEF e
<1>7. e \in CoordinatorType /\ Light(c, e)
  BY <1>4, <1>6, LightIsTransitive DEF Light
<1>8. LET g == TicketRelease(e, r)
      IN  /\ Light(e, g) /\ Only(e, g, r)
          /\ ~g.req[r].ticket /\ g.req[r].token = e.req[r].token
          /\ g.ctx = e.ctx /\ g.results = e.results - Release(e.req[r].ticket)
  BY <1>7, TicketReleased
<1>9. Light(c, TicketRelease(e, r))
  BY <1>7, <1>8, LightIsTransitive
<1>10. CASE ~c.req[r].token
  BY <1>1, <1>2, <1>10
<1>11. CASE c.req[r].token /\ UnreserveOK(x, r)
  <2>1. d = TicketRelease(e, r)
    BY <1>1, <1>11
  <2> HIDE DEF d, x
  <2> QED
    BY <1>4, <1>6, <1>8, <1>9, <1>11, <2>1 DEF Only, d, x
<1>12. CASE c.req[r].token /\ ~UnreserveOK(x, r)
  <2>1. d = e
    BY <1>1, <1>12
  <2> HIDE DEF d, x
  <2> QED
    BY <1>4, <1>6, <1>7, <1>12, <2>1 DEF Only, d, x
<1> QED
  BY <1>10, <1>11, <1>12

(* The claim on the budget is given back. *)
LEMMA BudgetReleased ==
  ASSUME NEW c \in CoordinatorType, NEW r \in Requests, c.req[r].budget, c.req[r].bytes <= c.bytes
  PROVE  LET d == BudgetRelease(c, r)
         IN  /\ d \in CoordinatorType /\ Only(c, d, r) /\ SameCourse(c.req[r], d.req[r])
             /\ SameHold(c.req[r], d.req[r]) /\ Clear(d.req[r])
             /\ d.ctx = c.ctx /\ d.results = c.results /\ SameLists(c, d)
             /\ d.requests = c.requests - Release(c.req[r].counted)
             /\ d.bytes = c.bytes - c.req[r].bytes
             /\ d.waiters = c.waiters - Release(c.req[r].claim)
<1> DEFINE q == c.req[r]
           p == [q EXCEPT !.budget = FALSE, !.counted = FALSE, !.bytes = 0, !.claim = FALSE]
           i == c.requests - Release(q.counted)
           j == c.bytes - q.bytes
           k == c.waiters - Release(q.claim)
<1>1. q \in RequestType
  BY Typed
<1>2. p \in RequestType /\ SameCourse(q, p) /\ SameHold(q, p) /\ Clear(p)
  <2> HIDE DEF q
  <2>1. p \in RequestType /\ SameCourse(q, p) /\ SameHold(q, p)
    BY <1>1 DEF RequestType, SameCourse, SameHold
  <2>2. p.budget = FALSE /\ p.counted = FALSE /\ p.bytes = 0 /\ p.claim = FALSE
    BY <1>1 DEF RequestType
  <2> QED
    BY <2>1, <2>2 DEF Clear
<1>3. i \in Int /\ j \in Int /\ k \in Int
  BY <1>1 DEF CoordinatorType, RequestType, Release
<1>4. BudgetRelease(c, r) = PutClaims(c, r, p, i, j, k)
  BY DEF BudgetRelease, PutClaims
<1> HIDE DEF p, i, j, k
<1>5. LET d == BudgetRelease(c, r)
      IN  /\ d \in CoordinatorType /\ d.req[r] = p /\ Only(c, d, r)
          /\ d.ctx = c.ctx /\ d.results = c.results /\ SameLists(c, d)
          /\ d.requests = i /\ d.bytes = j /\ d.waiters = k
  BY <1>2, <1>3, <1>4, ReplacedRecordClaims
<1> QED
  BY <1>2, <1>5 DEF i, j, k

(* A request leaves the queue in a terminal state, and gives back what it  *)
(* has of the budget.                                                      *)
Left(c, d, r, state) ==
  /\ d \in CoordinatorType /\ \A q \in Requests : q # r => SameCore(c.req[q], d.req[q])
  /\ d.req[r].spec = c.req[r].spec /\ d.req[r].submitted = c.req[r].submitted
  /\ d.req[r].superseded = c.req[r].superseded /\ d.req[r].result = c.req[r].result
  /\ d.req[r].state = state /\ Clear(d.req[r])
  /\ d.queue = Without(c.queue, {r}) /\ d.inflight = c.inflight
  /\ d.replacements = c.replacements /\ d.stopping = c.stopping
  /\ d.requests = c.requests - Release(c.req[r].counted)
  /\ d.bytes = c.bytes - c.req[r].bytes
  /\ d.waiters = c.waiters - Release(c.req[r].claim)

(* It holds its context, if it has one, as a reservation. *)
HasReservation(c, r) ==
  IF Bound(c, r) THEN c.req[r].token /\ UnreserveOK(ContextOf(c, r), r) ELSE ~c.req[r].token

(* It lets go of its context and its output ticket. *)
LetsGo(c, d, r) ==
  /\ Only(c, d, r) /\ ~d.req[r].ticket /\ ~d.req[r].token
  /\ d.results = c.results - Release(c.req[r].ticket)
  /\ \A z \in Contexts : d.ctx[z] = IF Bound(c, r) /\ z = c.req[r].spec.context
                                    THEN Unreserve(c.ctx[z], r) ELSE c.ctx[z]

(* What a request that leaves the queue gives back. *)
LEMMA RetiredEffect ==
  ASSUME NEW c \in CoordinatorType, NEW r \in Requests, NEW state \in States,
         c.req[r].budget, c.req[r].bytes <= c.bytes
  PROVE  LET d == Retired(c, r, state)
         IN  /\ Left(c, d, r, state) /\ Only(c, d, r) /\ d.req[r].cancel = c.req[r].cancel
             /\ HasReservation(c, r) => LetsGo(c, d, r)
<1> DEFINE a == BudgetRelease(c, r)
           b == InputsClear(a, r)
           e == IF Bound(c, r) THEN b ELSE TicketRelease(b, r)
           f == [e EXCEPT !.queue = Without(@, {r})]
           d == Retired(c, r, state)
           y == c.req[r].spec.context
<1>0. d = SetReq(f, r, "state", state)
  BY DEF Retired
<1>1. /\ a \in CoordinatorType /\ Only(c, a, r) /\ SameCourse(c.req[r], a.req[r])
      /\ SameHold(c.req[r], a.req[r]) /\ Clear(a.req[r])
      /\ a.ctx = c.ctx /\ a.results = c.results /\ SameLists(c, a)
      /\ a.requests = c.requests - Release(c.req[r].counted)
      /\ a.bytes = c.bytes - c.req[r].bytes
      /\ a.waiters = c.waiters - Release(c.req[r].claim)
  BY BudgetReleased
<1> HIDE DEF a
<1>2. /\ Light(a, b) /\ Only(a, b, r) /\ ~b.req[r].token
      /\ ~a.req[r].token => b = a
      /\ a.req[r].token /\ Bound(a, r) /\ UnreserveOK(ContextOf(a, r), r) =>
           /\ ~b.req[r].ticket /\ b.results = a.results - Release(a.req[r].ticket)
           /\ b.ctx[a.req[r].spec.context] = Unreserve(ContextOf(a, r), r)
           /\ \A z \in Contexts : z # a.req[r].spec.context => b.ctx[z] = a.ctx[z]
  BY <1>1, InputsCleared
<1> HIDE DEF b
<1>3. a.req[r].spec = c.req[r].spec /\ ContextOf(a, r) = ContextOf(c, r) /\ (Bound(a, r) <=> Bound(c, r))
  BY <1>1 DEF SameCourse, ContextOf, Bound
<1>4. b \in CoordinatorType
  BY <1>2 DEF Light
<1>5. LET g == TicketRelease(b, r)
      IN  /\ Light(b, g) /\ Only(b, g, r) /\ ~g.req[r].ticket /\ g.req[r].token = b.req[r].token
          /\ g.ctx = b.ctx /\ g.results = b.results - Release(b.req[r].ticket)
  BY <1>4, TicketReleased
<1>6. Light(b, b) /\ Only(b, b, r)
  BY <1>4 DEF Light, Only, SameCore, SameClaims, SameCourse, SameLists, SameCounters
<1>7. Light(b, e) /\ Only(b, e, r) /\ ~e.req[r].token
  BY <1>2, <1>5, <1>6
<1>8. HasReservation(c, r) =>
        /\ ~e.req[r].ticket /\ e.results = c.results - Release(c.req[r].ticket)
        /\ \A z \in Contexts : e.ctx[z] = IF Bound(c, r) /\ z = y
                                          THEN Unreserve(c.ctx[z], r) ELSE c.ctx[z]
  <2> HAVE HasReservation(c, r)
  <2>1. CASE Bound(c, r)
    <3>1. e = b
      BY <2>1
    <3> HIDE DEF e
    <3>2. a.req[r].token /\ UnreserveOK(ContextOf(a, r), r) /\ a.req[r].ticket = c.req[r].ticket
      BY <1>1, <1>3, <2>1 DEF HasReservation, SameHold
    <3> QED
      BY <1>1, <1>2, <1>3, <2>1, <3>1, <3>2 DEF ContextOf
  <2>2. CASE ~Bound(c, r)
    <3>1. e = TicketRelease(b, r)
      BY <2>2
    <3> HIDE DEF e
    <3>2. ~a.req[r].token /\ a.req[r].ticket = c.req[r].ticket
      BY <1>1, <2>2 DEF HasReservation, SameHold
    <3> QED
      BY <1>1, <1>2, <1>5, <2>2, <3>1, <3>2
  <2> QED
    BY <2>1, <2>2
<1> HIDE DEF e
<1>9. e \in CoordinatorType
  BY <1>7 DEF Light
<1>10. Without(e.queue, {r}) \in Seq(Requests)
  <2>1. e.queue \in Seq(Requests)
    BY <1>9 DEF CoordinatorType
  <2> QED
    BY <2>1, WithoutMembers
<1>11. /\ f \in CoordinatorType /\ f.req = e.req /\ f.ctx = e.ctx /\ f.results = e.results
       /\ f.queue = Without(e.queue, {r}) /\ f.inflight = e.inflight
       /\ f.replacements = e.replacements /\ f.stopping = e.stopping /\ SameCounters(e, f)
  BY <1>9, <1>10 DEF CoordinatorType, SameCounters
<1> HIDE DEF f
<1> DEFINE p == [f.req[r] EXCEPT !.state = state]
<1>12. /\ p \in RequestType /\ p.state = state /\ SameHold(f.req[r], p) /\ SameClaims(f.req[r], p)
       /\ p.spec = f.req[r].spec /\ p.submitted = f.req[r].submitted /\ p.cancel = f.req[r].cancel
       /\ p.superseded = f.req[r].superseded /\ p.result = f.req[r].result
  <2>1. f.req[r] \in RequestType
    BY <1>11, Typed
  <2> QED
    BY <2>1, StateField
<1>13. d = PutReq(f, r, p)
  BY <1>0 DEF SetReq, PutReq
<1> HIDE DEF p, d
<1>14. /\ d \in CoordinatorType /\ d.req[r] = p /\ Only(f, d, r)
       /\ d.ctx = f.ctx /\ d.results = f.results /\ SameLists(f, d) /\ SameCounters(f, d)
  BY <1>11, <1>12, <1>13, ReplacedRecord
<1>15. Only(c, d, r)
  BY <1>1, <1>2, <1>7, <1>11, <1>14 DEF Only
<1>16. \A q \in Requests : q # r => SameCore(c.req[q], d.req[q])
  BY <1>15 DEF Only, SameCore, SameClaims, SameCourse
<1>17. /\ SameCore(a.req[r], b.req[r]) /\ SameCore(b.req[r], e.req[r])
       /\ SameLists(a, b) /\ SameLists(b, e) /\ SameCounters(a, b) /\ SameCounters(b, e)
  BY <1>2, <1>7 DEF Light
<1>18. /\ d.req[r].spec = c.req[r].spec /\ d.req[r].submitted = c.req[r].submitted
       /\ d.req[r].superseded = c.req[r].superseded /\ d.req[r].result = c.req[r].result
       /\ d.req[r].state = state /\ d.req[r].cancel = c.req[r].cancel
  BY <1>1, <1>11, <1>12, <1>14, <1>17 DEF SameCore, SameCourse
<1>19. Clear(d.req[r])
  BY <1>1, <1>11, <1>12, <1>14, <1>17 DEF SameCore, SameClaims, Clear
<1>20. /\ d.queue = Without(c.queue, {r}) /\ d.inflight = c.inflight
       /\ d.replacements = c.replacements /\ d.stopping = c.stopping
  BY <1>1, <1>11, <1>14, <1>17 DEF SameLists
<1>21. /\ d.requests = c.requests - Release(c.req[r].counted)
       /\ d.bytes = c.bytes - c.req[r].bytes
       /\ d.waiters = c.waiters - Release(c.req[r].claim)
  BY <1>1, <1>11, <1>14, <1>17 DEF SameCounters
<1>22. Left(c, d, r, state)
  BY <1>14, <1>16, <1>18, <1>19, <1>20, <1>21 DEF Left
<1>23. HasReservation(c, r) => LetsGo(c, d, r)
  BY <1>7, <1>8, <1>11, <1>12, <1>14, <1>15 DEF LetsGo, SameHold, y
<1> QED
  BY <1>15, <1>18, <1>22, <1>23 DEF d

(* The same, for a request that is cancelled as it leaves. *)
LEMMA WithdrawnEffect ==
  ASSUME NEW c \in CoordinatorType, NEW r \in Requests, NEW state \in States,
         c.req[r].budget, c.req[r].bytes <= c.bytes
  PROVE  LET d == Withdrawn(c, r, state)
         IN  /\ Left(c, d, r, state) /\ Only(c, d, r) /\ d.req[r].cancel
             /\ HasReservation(c, r) => LetsGo(c, d, r)
<1> DEFINE e == SetReq(c, r, "cancel", TRUE)
           d == Withdrawn(c, r, state)
<1>1. d = Retired(e, r, state)
  BY DEF Withdrawn
<1>2. /\ e \in CoordinatorType /\ Only(c, e, r)
      /\ e.req[r].cancel /\ SameHold(c.req[r], e.req[r]) /\ SameClaims(c.req[r], e.req[r])
      /\ e.req[r].spec = c.req[r].spec /\ e.req[r].submitted = c.req[r].submitted
      /\ e.req[r].state = c.req[r].state /\ e.req[r].superseded = c.req[r].superseded
      /\ e.req[r].result = c.req[r].result
      /\ e.ctx = c.ctx /\ e.results = c.results /\ SameLists(c, e) /\ SameCounters(c, e)
  BY MarkCancelled
<1> HIDE DEF e, d
<1>3. e.req[r].budget /\ e.req[r].bytes <= e.bytes
  BY <1>2 DEF SameClaims, SameCounters
<1>4. /\ Left(e, d, r, state) /\ Only(e, d, r) /\ d.req[r].cancel = e.req[r].cancel
      /\ HasReservation(e, r) => LetsGo(e, d, r)
  BY <1>1, <1>2, <1>3, RetiredEffect
<1>5. Only(c, d, r)
  BY <1>2, <1>4 DEF Only
<1>6. \A q \in Requests : q # r => SameCore(c.req[q], d.req[q])
  BY <1>5 DEF Only, SameCore, SameClaims, SameCourse
<1>7. Left(c, d, r, state)
  BY <1>2, <1>4, <1>6 DEF Left, SameLists, SameCounters, SameClaims
<1>8. HasReservation(c, r) => HasReservation(e, r)
  BY <1>2 DEF HasReservation, Bound, ContextOf, SameHold
<1>9. HasReservation(c, r) => LetsGo(c, d, r)
  BY <1>2, <1>4, <1>5, <1>8 DEF LetsGo, Bound, SameHold
<1> QED
  BY <1>2, <1>4, <1>5, <1>7, <1>9 DEF d

(* A running request ends, by the first cause there is. *)
EndedAs(c, d, r, at) ==
  /\ d \in CoordinatorType /\ Only(c, d, r)
  /\ d.req[r].spec = c.req[r].spec /\ d.req[r].submitted = c.req[r].submitted
  /\ d.req[r].superseded = c.req[r].superseded /\ (c.req[r].cancel => d.req[r].cancel)
  /\ d.req[r].state \in Terminal /\ Clear(d.req[r])
  /\ d.req[r].result = IF d.req[r].state = "SUCCEEDED" THEN "held" ELSE "none"
  /\ c.req[r].superseded => d.req[r].state = "SUPERSEDED"
  /\ c.req[r].cancel /\ ~c.req[r].superseded => d.req[r].state = "CANCELLED"
  /\ d.req[r].state = "SUCCEEDED" /\ Hard(c, r) => ~Late(c, r, at)
  /\ d.inflight = c.inflight \ {r}
  /\ d.queue = c.queue /\ d.replacements = c.replacements /\ d.stopping = c.stopping
  /\ d.requests = c.requests - Release(c.req[r].counted)
  /\ d.bytes = c.bytes - c.req[r].bytes
  /\ d.waiters = c.waiters - Release(c.req[r].claim)

Delivers(q) == q.result \notin {"none", "gone"}

(* What it held of outputs and contexts is given back, but for its result. *)
EndedHold(c, d, r) ==
  /\ ~d.req[r].ticket /\ ~d.req[r].token
  /\ d.results = c.results - Release(c.req[r].ticket)
                   - Release(Delivers(c.req[r])) + Release(Delivers(d.req[r]))
  /\ Bound(c, r) => d.ctx[c.req[r].spec.context].token # r
  /\ \A z \in Contexts :
       \/ d.ctx[z] = c.ctx[z]
       \/ /\ Bound(c, r) /\ z = c.req[r].spec.context /\ c.ctx[z].token = r
          /\ d.ctx[z].token = NoRequest /\ d.ctx[z].state \notin {"QUEUED", "RUNNING"}

(* The context has settled, or is not the request's any more. *)
MayFinish(c, r, outcome) ==
  /\ ~c.req[r].token /\ c.req[r].result # "gone"
  /\ outcome = "OK" => c.req[r].result # "none"
  /\ Bound(c, r) => IF ContextOf(c, r).token = r
                    THEN ContextOf(c, r).state \notin {"QUEUED", "RUNNING"}
                    ELSE ~c.req[r].ticket

(* How a running request ends and what it gives back. *)
LEMMA FinishEffect ==
  ASSUME NEW c \in CoordinatorType, NEW r \in Requests, NEW outcome, NEW at,
         c.req[r].budget, c.req[r].bytes <= c.bytes
  PROVE  LET d == Finish(c, r, outcome, at)
         IN  /\ EndedAs(c, d, r, at) /\ (d.req[r].state = "SUCCEEDED" => outcome = "OK")
             /\ MayFinish(c, r, outcome) => EndedHold(c, d, r)
<1> DEFINE a == BudgetRelease(c, r)
           b == InputsClear(a, r)
           state == FinishState(c, r, outcome, at)
           kept == state = "SUCCEEDED"
           held == c.req[r].result # "none"
           result == IF kept THEN "held" ELSE "none"
           p == [b.req[r] EXCEPT !.state = state, !.result = result]
           k == b.results - Release(held /\ ~kept)
           e == [b EXCEPT !.inflight = @ \ {r}, !.results = @ - Release(held /\ ~kept),
                          !.req[r] = [@ EXCEPT !.state = state, !.result = IF kept THEN "held" ELSE "none"]]
           g == TicketRelease(e, r)
           d == Finish(c, r, outcome, at)
           y == c.req[r].spec.context
<1>1. /\ a \in CoordinatorType /\ Only(c, a, r) /\ SameCourse(c.req[r], a.req[r])
      /\ SameHold(c.req[r], a.req[r]) /\ Clear(a.req[r])
      /\ a.ctx = c.ctx /\ a.results = c.results /\ SameLists(c, a)
      /\ a.requests = c.requests - Release(c.req[r].counted)
      /\ a.bytes = c.bytes - c.req[r].bytes
      /\ a.waiters = c.waiters - Release(c.req[r].claim)
  BY BudgetReleased
<1>2. d = IF ~Bound(c, r) THEN g
          ELSE IF FinishReservedOK(ContextOf(e, r), r)
          THEN SetCtx(g, r, FinishReserved(ContextOf(e, r), r)) ELSE e
  BY DEF Finish
<1>3. /\ state \in Terminal /\ state \in States
      /\ c.req[r].superseded => state = "SUPERSEDED"
      /\ c.req[r].cancel /\ ~c.req[r].superseded => state = "CANCELLED"
      /\ kept /\ Hard(c, r) => ~Late(c, r, at)
      /\ kept => outcome = "OK"
  BY DEF FinishState, Terminal, States
<1> HIDE DEF a, d, state
<1>4. /\ Light(a, b) /\ Only(a, b, r) /\ ~b.req[r].token /\ (~a.req[r].token => b = a)
  BY <1>1, InputsCleared
<1> HIDE DEF b
<1>5. b \in CoordinatorType /\ b.req[r] \in RequestType
  BY <1>4, Typed DEF Light
<1>6. result \in {"none", "pending", "arrived", "lost", "ready", "held", "gone"}
  OBVIOUS
<1>7. /\ p \in RequestType /\ p.state = state /\ p.result = result
      /\ SameHold(b.req[r], p) /\ SameClaims(b.req[r], p)
      /\ p.spec = b.req[r].spec /\ p.submitted = b.req[r].submitted /\ p.cancel = b.req[r].cancel
      /\ p.superseded = b.req[r].superseded
  <2>1. ASSUME NEW v \in {"none", "pending", "arrived", "lost", "ready", "held", "gone"}
        PROVE  LET w == [b.req[r] EXCEPT !.state = state, !.result = v]
               IN  /\ w \in RequestType /\ w.state = state /\ w.result = v
                   /\ SameHold(b.req[r], w) /\ SameClaims(b.req[r], w)
                   /\ w.spec = b.req[r].spec /\ w.submitted = b.req[r].submitted
                   /\ w.cancel = b.req[r].cancel /\ w.superseded = b.req[r].superseded
    BY <1>3, <1>5 DEF RequestType, SameHold, SameClaims
  <2> HIDE DEF result
  <2> QED
    BY <1>6, <2>1
<1>8. e = [PutTicket(b, r, p, k) EXCEPT !.inflight = b.inflight \ {r}]
  BY <1>5 DEF PutTicket, CoordinatorType
<1>9. k \in Int
  BY <1>5 DEF CoordinatorType, Release
<1> HIDE DEF p, k, e
<1> DEFINE h == PutTicket(b, r, p, k)
<1>10. /\ h \in CoordinatorType /\ h.req[r] = p /\ Only(b, h, r)
       /\ h.ctx = b.ctx /\ h.results = k /\ SameLists(b, h) /\ SameCounters(b, h)
  BY <1>5, <1>7, <1>9, ReplacedRecordTicket
<1> HIDE DEF h
<1>11. /\ e \in CoordinatorType /\ e.req[r] = p /\ Only(b, e, r) /\ e.ctx = b.ctx /\ e.results = k
       /\ e.queue = b.queue /\ e.inflight = b.inflight \ {r}
       /\ e.replacements = b.replacements /\ e.stopping = b.stopping /\ SameCounters(b, e)
  <2>1. e = [h EXCEPT !.inflight = b.inflight \ {r}]
    BY <1>8 DEF h
  <2>2. b.inflight \ {r} \in SUBSET Requests
    BY <1>5 DEF CoordinatorType
  <2>3. /\ e \in CoordinatorType /\ e.req = h.req /\ e.ctx = h.ctx /\ e.results = h.results
        /\ e.queue = h.queue /\ e.inflight = b.inflight \ {r}
        /\ e.replacements = h.replacements /\ e.stopping = h.stopping /\ SameCounters(h, e)
    BY <1>10, <2>1, <2>2 DEF CoordinatorType, SameCounters
  <2> QED
    BY <1>10, <2>3 DEF Only, SameLists, SameCounters
<1>12. /\ SameCore(a.req[r], b.req[r]) /\ SameLists(a, b) /\ SameCounters(a, b)
  BY <1>4 DEF Light
<1>13. /\ e.req[r].spec = c.req[r].spec /\ e.req[r].submitted = c.req[r].submitted
       /\ e.req[r].superseded = c.req[r].superseded /\ e.req[r].cancel = c.req[r].cancel
       /\ e.req[r].state = state /\ e.req[r].result = result /\ Clear(e.req[r])
  BY <1>1, <1>7, <1>11, <1>12 DEF SameCore, SameCourse, SameClaims, Clear
<1>14. /\ Only(c, e, r) /\ e.queue = c.queue /\ e.inflight = c.inflight \ {r}
       /\ e.replacements = c.replacements /\ e.stopping = c.stopping
       /\ e.requests = c.requests - Release(c.req[r].counted)
       /\ e.bytes = c.bytes - c.req[r].bytes
       /\ e.waiters = c.waiters - Release(c.req[r].claim)
  BY <1>1, <1>4, <1>11, <1>12 DEF Only, SameLists, SameCounters
<1>15. /\ Light(e, g) /\ Only(e, g, r) /\ ~g.req[r].ticket /\ g.req[r].token = e.req[r].token
       /\ g.ctx = e.ctx /\ g.results = e.results - Release(e.req[r].ticket)
  BY <1>11, TicketReleased
<1> HIDE DEF g
<1>16. g \in CoordinatorType /\ g.req[r].spec = e.req[r].spec
  BY <1>15 DEF Light, SameCore, SameCourse
<1>17. Bound(g, r) <=> Bound(c, r)
  BY <1>13, <1>16 DEF Bound
<1>18. Bound(c, r) => ContextOf(e, r) \in ContextType
  <2>1. Bound(c, r) => Bound(e, r)
    BY <1>13 DEF Bound
  <2> QED
    BY <1>11, <2>1, Typed
<1> DEFINE w == SetCtx(g, r, FinishReserved(ContextOf(e, r), r))
<1>19. /\ Light(g, w) /\ w.req = g.req /\ w.results = g.results
       /\ Bound(g, r) =>
            /\ w.ctx[g.req[r].spec.context] = FinishReserved(ContextOf(e, r), r)
            /\ \A z \in Contexts : z # g.req[r].spec.context => w.ctx[z] = g.ctx[z]
  <2>1. Bound(g, r) => FinishReserved(ContextOf(e, r), r) \in ContextType
    BY <1>17, <1>18, ContextFunctions
  <2> QED
    BY <1>16, <2>1, ContextSet
<1> HIDE DEF w
<1>20. Light(e, e) /\ Only(e, e, r)
  BY <1>11 DEF Light, Only, SameCore, SameClaims, SameCourse, SameLists, SameCounters
<1>21. Light(e, w) /\ Only(e, w, r)
  BY <1>15, <1>19, LightIsTransitive DEF Only
<1>22. Light(e, d) /\ Only(e, d, r)
  BY <1>2, <1>15, <1>20, <1>21 DEF w
<1>23. EndedAs(c, d, r, at) /\ (d.req[r].state = "SUCCEEDED" => outcome = "OK")
  <2>1. d \in CoordinatorType /\ SameCore(e.req[r], d.req[r]) /\ SameLists(e, d) /\ SameCounters(e, d)
    BY <1>22 DEF Light
  <2>2. Only(c, d, r)
    BY <1>14, <1>22 DEF Only
  <2>3. /\ d.req[r].spec = c.req[r].spec /\ d.req[r].submitted = c.req[r].submitted
        /\ d.req[r].superseded = c.req[r].superseded /\ d.req[r].cancel = c.req[r].cancel
        /\ d.req[r].state = state /\ d.req[r].result = result
    BY <1>13, <2>1 DEF SameCore, SameCourse
  <2>4. Clear(d.req[r])
    BY <1>13, <2>1 DEF SameCore, SameClaims, Clear
  <2>5. /\ d.inflight = c.inflight \ {r}
        /\ d.queue = c.queue /\ d.replacements = c.replacements /\ d.stopping = c.stopping
        /\ d.requests = c.requests - Release(c.req[r].counted)
        /\ d.bytes = c.bytes - c.req[r].bytes
        /\ d.waiters = c.waiters - Release(c.req[r].claim)
    BY <1>14, <2>1 DEF SameLists, SameCounters
  <2> QED
    BY <1>3, <2>1, <2>2, <2>3, <2>4, <2>5 DEF EndedAs
<1>24. ASSUME MayFinish(c, r, outcome)
       PROVE  EndedHold(c, d, r)
  <2>1. ~c.req[r].token /\ ~a.req[r].token
    BY <1>1, <1>24 DEF MayFinish, SameHold
  <2>2. b = a
    BY <1>4, <2>1
  <2>3. /\ ~e.req[r].token /\ e.req[r].ticket = c.req[r].ticket /\ e.ctx = c.ctx
        /\ e.results = c.results - Release(held /\ ~kept)
    BY <1>1, <1>4, <1>7, <1>11, <2>2 DEF SameHold, k
  <2>4. ContextOf(e, r) = ContextOf(c, r)
    BY <1>13, <2>3 DEF ContextOf
  <2>5. /\ Delivers(c.req[r]) <=> held
        /\ Delivers(e.req[r]) <=> kept
        /\ kept => held
    BY <1>3, <1>13, <1>24 DEF MayFinish, Delivers
  <2>6. Delivers(d.req[r]) <=> Delivers(e.req[r])
    BY <1>22 DEF Light, SameCore, SameCourse, Delivers
  <2>7. c.results \in Int
    BY DEF CoordinatorType
  <2>8. c.results - Release(held /\ ~kept) - Release(c.req[r].ticket)
          = c.results - Release(c.req[r].ticket) - Release(Delivers(c.req[r]))
              + Release(Delivers(d.req[r]))
    BY <2>5, <2>6, <2>7 DEF Release
  <2>9. CASE ~Bound(c, r)
    <3>1. d = g
      BY <1>2, <2>9
    <3> QED
      BY <1>15, <2>3, <2>8, <2>9, <3>1 DEF EndedHold
  <2>10. CASE Bound(c, r) /\ ContextOf(c, r).token = r
    <3>1. ContextOf(c, r).state \notin {"QUEUED", "RUNNING"} /\ ContextOf(c, r) \in ContextType /\ y \in Contexts
      BY <1>24, <2>10, Typed DEF MayFinish
    <3>2. d = w
      BY <1>2, <2>4, <2>10, <3>1 DEF FinishReservedOK, w
    <3>3. g.req[r].spec.context = y
      BY <1>13, <1>16
    <3>4. /\ w.ctx[y] = FinishReserved(ContextOf(c, r), r)
          /\ \A z \in Contexts : z # y => w.ctx[z] = c.ctx[z]
      BY <1>15, <1>17, <1>19, <2>3, <2>4, <2>10, <3>3
    <3>5. w.ctx[y].token = NoRequest /\ w.ctx[y].state = ContextOf(c, r).state
      BY <3>1, <3>4 DEF FinishReserved, ContextType
    <3>6. /\ ~d.req[r].ticket /\ ~d.req[r].token
          /\ d.results = c.results - Release(held /\ ~kept) - Release(c.req[r].ticket)
      BY <1>15, <1>19, <2>3, <3>2
    <3>7. NoRequest # r
      BY RequestConstants
    <3> QED
      BY <2>8, <2>10, <3>1, <3>2, <3>4, <3>5, <3>6, <3>7 DEF EndedHold, ContextOf
  <2>11. CASE Bound(c, r) /\ ContextOf(c, r).token # r
    <3>1. ~c.req[r].ticket
      BY <1>24, <2>11 DEF MayFinish
    <3>2. d = e
      BY <1>2, <2>4, <2>11 DEF FinishReservedOK
    <3>3. c.results - Release(held /\ ~kept) = c.results - Release(held /\ ~kept) - Release(c.req[r].ticket)
      BY <2>7, <3>1 DEF Release
    <3> QED
      BY <2>3, <2>8, <2>11, <3>1, <3>2, <3>3 DEF EndedHold, ContextOf
  <2> QED
    BY <2>9, <2>10, <2>11
<1> QED
  BY <1>23, <1>24 DEF d

-----------------------------------------------------------------------------
(* Accounts, step by step.                                                 *)

(* Streams are a matter of the specifications. *)
LEMMA StreamsOfSpecs ==
  ASSUME NEW c, NEW d, NEW q, NEW r, d.req[q].spec = c.req[q].spec, d.req[r].spec = c.req[r].spec
  PROVE  SameStream(d, q, r) <=> SameStream(c, q, r)
BY DEF SameStream

(* To be of one stream is symmetric and transitive. *)
LEMMA StreamsAreEquivalence ==
  ASSUME NEW c
  PROVE  /\ \A q, r : SameStream(c, q, r) => SameStream(c, r, q)
         /\ \A p, q, r : SameStream(c, p, q) /\ SameStream(c, q, r) => SameStream(c, p, r)
         /\ \A q, r : SameStream(c, q, r) =>
              c.req[q].spec.freshness = "LATEST" /\ c.req[r].spec.freshness = "LATEST"
<1>1. \A q, r : SameStream(c, q, r) => SameStream(c, r, q)
  BY DEF SameStream
<1>2. \A p, q, r : SameStream(c, p, q) /\ SameStream(c, q, r) => SameStream(c, p, r)
  BY DEF SameStream
<1> QED
  BY <1>1, <1>2 DEF SameStream

Summed(c, staging) ==
  /\ c.requests = Cardinality({r \in Requests : c.req[r].counted})
  /\ c.waiters = Cardinality({r \in Requests : c.req[r].claim})
  /\ c.bytes = staging + Bytes(c)

(* The counters are sums within their limits. *)
LEMMA CountedIsSummed ==
  ASSUME NEW c, NEW staging
  PROVE  Counted(c, staging) <=>
           Summed(c, staging) /\ c.requests <= MaxRequests /\ c.bytes <= MaxInputBytes
BY DEF Counted, Summed

(* The claims of one request change, and the counters with them. *)
LEMMA SummedOne ==
  ASSUME NEW c \in CoordinatorType, NEW d \in CoordinatorType, NEW r \in Requests,
         NEW staging \in Nat, Summed(c, staging),
         \A q \in Requests : q # r => SameClaims(c.req[q], d.req[q]),
         d.requests = c.requests - Release(c.req[r].counted) + Release(d.req[r].counted),
         d.waiters = c.waiters - Release(c.req[r].claim) + Release(d.req[r].claim),
         d.bytes = c.bytes - c.req[r].bytes + d.req[r].bytes
  PROVE  Summed(d, staging)
<1>1. \A q \in Requests : c.req[q] \in RequestType /\ d.req[q] \in RequestType
  BY Typed
<1>2. d.requests = Cardinality({q \in Requests : d.req[q].counted})
  <2> DEFINE S == {q \in Requests : c.req[q].counted}
             T == {q \in Requests : d.req[q].counted}
  <2>1. \A q \in Requests : q # r => (q \in S <=> q \in T)
    BY DEF SameClaims
  <2>2. S \in SUBSET Requests /\ T \in SUBSET Requests
    OBVIOUS
  <2>3. (r \in S <=> c.req[r].counted) /\ (r \in T <=> d.req[r].counted)
    OBVIOUS
  <2>4. c.requests = Cardinality(S)
    BY DEF Summed
  <2> HIDE DEF S, T
  <2>5. Cardinality(T) = Cardinality(S) - Release(r \in S) + Release(r \in T)
    BY <2>1, <2>2, CountChange
  <2>6. Release(r \in S) = Release(c.req[r].counted) /\ Release(r \in T) = Release(d.req[r].counted)
    BY <2>3 DEF Release
  <2> QED
    BY <2>4, <2>5, <2>6 DEF T
<1>3. d.waiters = Cardinality({q \in Requests : d.req[q].claim})
  <2> DEFINE S == {q \in Requests : c.req[q].claim}
             T == {q \in Requests : d.req[q].claim}
  <2>1. \A q \in Requests : q # r => (q \in S <=> q \in T)
    BY DEF SameClaims
  <2>2. S \in SUBSET Requests /\ T \in SUBSET Requests
    OBVIOUS
  <2>3. (r \in S <=> c.req[r].claim) /\ (r \in T <=> d.req[r].claim)
    OBVIOUS
  <2>4. c.waiters = Cardinality(S)
    BY DEF Summed
  <2> HIDE DEF S, T
  <2>5. Cardinality(T) = Cardinality(S) - Release(r \in S) + Release(r \in T)
    BY <2>1, <2>2, CountChange
  <2>6. Release(r \in S) = Release(c.req[r].claim) /\ Release(r \in T) = Release(d.req[r].claim)
    BY <2>3 DEF Release
  <2> QED
    BY <2>4, <2>5, <2>6 DEF T
<1>4. d.bytes = staging + Bytes(d)
  <2> DEFINE delta == d.req[r].bytes - c.req[r].bytes
  <2>1. \A q \in Requests : c.req[q].bytes \in Nat /\ d.req[q].bytes \in Nat
    BY <1>1 DEF RequestType
  <2>2. delta \in Int
    BY <2>1
  <2>3. \A q \in Requests : d.req[q].bytes = c.req[q].bytes + IF q = r THEN delta ELSE 0
    BY <2>1 DEF SameClaims
  <2>4. Bytes(c) \in Nat
    BY <2>1, BytesBound
  <2>5. Bytes(d) = Bytes(c) + IF r \in Requests THEN delta ELSE 0
    <3> HIDE DEF delta
    <3> QED
      BY <2>1, <2>2, <2>3, BytesChange
  <2> QED
    BY <2>1, <2>4, <2>5 DEF Summed
<1> QED
  BY <1>2, <1>3, <1>4 DEF Summed

(* No claims change. *)
LEMMA CountedSame ==
  ASSUME NEW c \in CoordinatorType, NEW d \in CoordinatorType,
         NEW staging \in Nat, Counted(c, staging),
         \A q \in Requests : SameClaims(c.req[q], d.req[q]), SameCounters(c, d)
  PROVE  Counted(d, staging)
<1>1. {q \in Requests : d.req[q].counted} = {q \in Requests : c.req[q].counted}
  BY DEF SameClaims
<1>2. {q \in Requests : d.req[q].claim} = {q \in Requests : c.req[q].claim}
  BY DEF SameClaims
<1>3. Bytes(d) = Bytes(c)
  <2>1. \A q \in Requests : c.req[q].bytes \in Nat
    BY Typed DEF RequestType
  <2>2. \A q \in Requests : d.req[q].bytes = c.req[q].bytes + IF q = NoRequest THEN 0 ELSE 0
    BY <2>1 DEF SameClaims
  <2>3. Bytes(d) = Bytes(c) + IF NoRequest \in Requests THEN 0 ELSE 0
    <3>1. 0 \in Int
      OBVIOUS
    <3> QED
      BY <2>1, <2>2, <3>1, BytesChange
  <2>4. Bytes(c) \in Nat
    BY <2>1, BytesBound
  <2> QED
    BY <2>3, <2>4
<1> QED
  BY <1>1, <1>2, <1>3 DEF Counted, SameCounters

(* What has a claim on the input bytes is among them. *)
LEMMA BytesIncluded ==
  ASSUME NEW c \in CoordinatorType, NEW staging \in Nat, Counted(c, staging)
  PROVE  c.bytes \in Nat /\ \A r \in Requests : c.req[r].bytes <= c.bytes
<1>1. \A q \in Requests : c.req[q].bytes \in Nat
  BY Typed DEF RequestType
<1>2. Bytes(c) \in Nat /\ \A q \in Requests : c.req[q].bytes <= Bytes(c)
  BY <1>1, BytesBound
<1> QED
  BY <1>1, <1>2 DEF Counted

(* Running requests are marked, results arrive and are taken, and what     *)
(* outputs and contexts are held may change.                               *)
Eased(p, q) ==
  /\ SameClaims(p, q)
  /\ q.spec = p.spec /\ q.submitted = p.submitted /\ q.state = p.state
  /\ (p.cancel => q.cancel) /\ (p.superseded => q.superseded)
  /\ (p.cancel => q.superseded = p.superseded)
  /\ p.state # "RUNNING" => q.cancel = p.cancel /\ q.superseded = p.superseded
  /\ \/ q.result = p.result
     \/ p.result = "pending" /\ q.result \in {"arrived", "lost"}
     \/ p.result = "held" /\ q.result = "gone"
Eases(c, d) ==
  /\ d \in CoordinatorType /\ \A r \in Requests : Eased(c.req[r], d.req[r])
  /\ SameLists(c, d) /\ SameCounters(c, d)

(* A light step eases. *)
LEMMA LightEases ==
  ASSUME NEW c, NEW d, Light(c, d)
  PROVE  Eases(c, d)
BY DEF Light, Eases, Eased, SameCore, SameCourse

(* A light step after one that eases eases. *)
LEMMA EasesLight ==
  ASSUME NEW c, NEW d, NEW e, Eases(c, d), Light(d, e)
  PROVE  Eases(c, e)
BY DEF Light, Eases, Eased, SameCore, SameCourse, SameClaims, SameLists, SameCounters

(* A step that eases keeps the accounts in order. *)
LEMMA EaseKeeps ==
  ASSUME NEW c, NEW s, NEW L, NEW staging, Accounts(c, s, L, staging), NEW d, Eases(c, d)
  PROVE  Accounts(d, s, L, staging)
<1>1. /\ c \in CoordinatorType /\ d \in CoordinatorType
      /\ s \in SubmitType /\ L \in SUBSET Requests /\ staging \in Nat
      /\ \A r \in Requests : Eased(c.req[r], d.req[r])
      /\ SameLists(c, d) /\ SameCounters(c, d)
  BY DEF Accounts, Eases
<1>2. \A r \in Requests : Placed(d.req[r], s[r].pc, s[r].victim, r \in L)
  <2> TAKE r \in Requests
  <2>1. Placed(c.req[r], s[r].pc, s[r].victim, r \in L) /\ Eased(c.req[r], d.req[r])
    BY <1>1 DEF Accounts
  <2> QED
    BY <2>1 DEF Placed, Eased, SameClaims, Claims, Clear, Absent
<1>3. \A q, r \in Requests : SameStream(d, q, r) <=> SameStream(c, q, r)
  BY <1>1, StreamsOfSpecs DEF Eased
<1>4. \A r \in Requests : d.req[r].state # "NONE" => d.req[r].spec \in Specs[r]
  BY <1>1 DEF Accounts, Eased
<1>5. VictimsOK(d, s)
  BY <1>1, <1>3 DEF Accounts, VictimsOK, Eased, SubmitType
<1>6. QueueOK(d, s)
  BY <1>1 DEF Accounts, QueueOK, Queued, SameLists, Eased
<1>7. ListsOK(d, s)
  <2>1. \A r \in d.replacements : r \in Requests
    BY <1>1 DEF CoordinatorType
  <2> QED
    BY <1>1, <1>3, <2>1 DEF Accounts, ListsOK, SameLists, Eased
<1>8. Streams(d, s)
  BY <1>1, <1>3 DEF Accounts, Streams, Deliverable, Eased
<1>9. Counted(d, staging)
  BY <1>1, CountedSame DEF Accounts, Eased
<1> QED
  BY <1>1, <1>2, <1>4, <1>5, <1>6, <1>7, <1>8, <1>9 DEF Accounts

(* One submitting thread goes on. *)
Moves(s, t, r, pc, victim) ==
  /\ t \in SubmitType /\ t[r].pc = pc /\ t[r].victim = victim
  /\ \A q \in Requests : q # r => t[q] = s[q]

(* What it means that the accounts are in order, part by part. *)
LEMMA Parts ==
  ASSUME NEW c, NEW s, NEW L, NEW staging, Accounts(c, s, L, staging)
  PROVE  /\ c \in CoordinatorType /\ s \in SubmitType /\ L \in SUBSET Requests /\ staging \in Nat
         /\ \A r \in Requests : Placed(c.req[r], s[r].pc, s[r].victim, r \in L)
         /\ \A r \in Requests : c.req[r].state # "NONE" => c.req[r].spec \in Specs[r]
         /\ VictimsOK(c, s) /\ QueueOK(c, s) /\ ListsOK(c, s) /\ Streams(c, s)
         /\ Counted(c, staging)
         /\ \A r \in Requests : c.req[r] \in RequestType
         /\ \A r \in Requests : s[r].victim \in Requests \cup {NoRequest}
         /\ Queued(c) \subseteq Requests /\ c.inflight \subseteq Requests /\ c.replacements \subseteq Requests
         /\ NoRequest \notin Requests
BY Typed, RequestsAreNumbers DEF Accounts, CoordinatorType, SubmitType, Queued

NotAdmitted(s, r) == s[r].pc \in {"new", "admit"}

(* Before it is admitted a request is created, or refused. *)
LEMMA BeforeAdmissionKeeps ==
  ASSUME NEW c, NEW s, NEW L, NEW staging, Accounts(c, s, L, staging),
         NEW r \in Requests, NEW d \in CoordinatorType, NEW t,
         NotAdmitted(s, r), NEW pc \in {"admit", "refused"},
         Moves(s, t, r, pc, NoRequest), Placed(d.req[r], pc, NoRequest, FALSE),
         d.req[r].state # "NONE" => d.req[r].spec \in Specs[r],
         \A q \in Requests : q # r => SameCore(c.req[q], d.req[q]),
         SameLists(c, d), SameCounters(c, d)
  PROVE  Accounts(d, t, L, staging)
<1>1. /\ c \in CoordinatorType /\ s \in SubmitType /\ L \in SUBSET Requests /\ staging \in Nat
      /\ \A q \in Requests : Placed(c.req[q], s[q].pc, s[q].victim, q \in L)
      /\ \A q \in Requests : c.req[q].state # "NONE" => c.req[q].spec \in Specs[q]
      /\ VictimsOK(c, s) /\ QueueOK(c, s) /\ ListsOK(c, s) /\ Streams(c, s)
      /\ Counted(c, staging)
      /\ \A q \in Requests : s[q].victim \in Requests \cup {NoRequest}
      /\ Queued(c) \subseteq Requests /\ c.inflight \subseteq Requests /\ c.replacements \subseteq Requests
      /\ NoRequest \notin Requests
  BY Parts
<1>2. /\ t \in SubmitType /\ t[r].pc = pc /\ t[r].victim = NoRequest
      /\ \A q \in Requests : q # r => t[q] = s[q]
  BY DEF Moves
<1> s[r].pc \in {"new", "admit"}
  BY DEF NotAdmitted
<1>3. Placed(c.req[r], s[r].pc, s[r].victim, r \in L)
  BY <1>1
<1>0. /\ Clear(c.req[r]) /\ c.req[r].state # "RUNNING" /\ r \notin L
      /\ Clear(d.req[r]) /\ d.req[r].state # "RUNNING"
  BY <1>3 DEF Placed, Absent, Terminal
<1>4. \A q \in Requests : Placed(d.req[q], t[q].pc, t[q].victim, q \in L)
  <2> TAKE q \in Requests
  <2>1. CASE q = r
    BY <1>0, <1>2, <2>1 DEF Placed
  <2>2. CASE q # r
    <3>1. Placed(c.req[q], t[q].pc, t[q].victim, q \in L)
      BY <1>1, <1>2, <2>2
    <3> QED
      BY <2>2, <3>1 DEF Placed, SameCore, SameClaims, SameCourse, Claims, Clear, Absent
  <2> QED
    BY <2>1, <2>2
<1>5. \A q \in Requests : d.req[q].state # "NONE" => d.req[q].spec \in Specs[q]
  BY <1>1 DEF SameCore, SameCourse
<1>6. \A p, q \in Requests : p # r /\ q # r => (SameStream(d, p, q) <=> SameStream(c, p, q))
  BY StreamsOfSpecs DEF SameCore, SameCourse
<1>7. \A q \in Requests : s[q].victim # r
  BY <1>1 DEF VictimsOK
<1>9. VictimsOK(d, t)
  <2> SUFFICES ASSUME NEW q \in Requests, t[q].victim # NoRequest
               PROVE  /\ t[q].pc \in {"swap", "snapshot"} /\ t[t[q].victim].pc = "accepted"
                      /\ SameStream(d, t[q].victim, q)
                      /\ d.req[t[q].victim].state = IF t[q].pc = "swap" THEN "SUPERSEDED" ELSE "QUEUED"
    BY DEF VictimsOK
  <2>1. q # r /\ t[q] = s[q] /\ s[q].victim # r /\ s[q].victim \in Requests /\ t[s[q].victim] = s[s[q].victim]
    BY <1>1, <1>2, <1>7
  <2>2. /\ s[q].pc \in {"swap", "snapshot"} /\ s[s[q].victim].pc = "accepted"
        /\ SameStream(c, s[q].victim, q)
        /\ c.req[s[q].victim].state = IF s[q].pc = "swap" THEN "SUPERSEDED" ELSE "QUEUED"
    BY <1>1, <2>1 DEF VictimsOK
  <2> QED
    BY <1>6, <2>1, <2>2 DEF SameCore, SameCourse
<1>10. QueueOK(d, t)
  <2>1. IsInjective(d.queue) /\ Queued(d) = Queued(c)
    BY <1>1 DEF QueueOK, SameLists, Queued
  <2>2. \A q \in Requests : HeldBy(t, q) <=> HeldBy(s, q)
    BY <1>1, <1>2 DEF HeldBy
  <2>3. \A q \in Requests : q \in Queued(c) <=>
          t[q].pc = "accepted" /\ d.req[q].state = "QUEUED" /\ ~HeldBy(s, q)
    BY <1>1, <1>2 DEF QueueOK, SameCore, SameCourse
  <2> QED
    BY <2>1, <2>2, <2>3 DEF QueueOK
<1>11. ListsOK(d, t)
  <2>1. d.inflight = c.inflight /\ d.replacements = c.replacements
    BY DEF SameLists
  <2>2. r \notin c.inflight /\ r \notin c.replacements
    BY <1>0, <1>1 DEF ListsOK
  <2>3. \A q \in Requests : q \in d.inflight <=> d.req[q].state = "RUNNING"
    BY <1>0, <1>1, <2>1, <2>2 DEF ListsOK, SameCore, SameCourse
  <2>4. \A q \in Requests : q \in d.replacements <=>
          t[q].pc \in {"swap", "snapshot"} /\ d.req[q].spec.freshness = "LATEST"
    BY <1>1, <1>2, <2>1, <2>2 DEF ListsOK, SameCore, SameCourse
  <2>5. \A p, q \in d.replacements : SameStream(d, p, q) => p = q
    BY <1>1, <1>6, <2>1, <2>2 DEF ListsOK
  <2> QED
    BY <2>3, <2>4, <2>5 DEF ListsOK
<1>12. Streams(d, t)
  <2>1. \A q \in Requests : Deliverable(d, t, q) => q # r /\ Deliverable(c, s, q)
    BY <1>2 DEF Deliverable, SameCore, SameCourse
  <2> QED
    BY <1>1, <1>6, <2>1 DEF Streams
<1>13. Counted(d, staging)
  <2>1. \A q \in Requests : SameClaims(c.req[q], d.req[q])
    <3>1. c.req[r] \in RequestType /\ d.req[r] \in RequestType
      BY <1>1, Typed
    <3>2. SameClaims(c.req[r], d.req[r])
      BY <1>0, <3>1 DEF SameClaims, Clear, RequestType
    <3> QED
      BY <3>2 DEF SameCore
  <2> QED
    BY <1>1, <2>1, CountedSame
<1> QED
  BY <1>1, <1>2, <1>4, <1>5, <1>9, <1>10, <1>11, <1>12, <1>13 DEF Accounts

(* One is given back where there is something, and nothing elsewhere. *)
LEMMA ReleaseCounts == \A b : Release(b) \in Int /\ Release(b) \in {0, 1}
BY DEF Release

(* The queued requests are the members of the queue. *)
LEMMA QueuedMembers == \A c : Queued(c) = Members(c.queue)
BY DEF Queued, Members

(* The claims of two requests change. *)
LEMMA CountedMoved ==
  ASSUME NEW c \in CoordinatorType, NEW d \in CoordinatorType, NEW staging \in Nat,
         Counted(c, staging), NEW r \in Requests, NEW v \in Requests, r # v,
         \A q \in Requests : q \notin {r, v} => SameClaims(c.req[q], d.req[q]),
         d.requests = c.requests
           - Release(c.req[v].counted) + Release(d.req[v].counted)
           - Release(c.req[r].counted) + Release(d.req[r].counted),
         d.waiters = c.waiters
           - Release(c.req[v].claim) + Release(d.req[v].claim)
           - Release(c.req[r].claim) + Release(d.req[r].claim),
         d.bytes = c.bytes - c.req[v].bytes + d.req[v].bytes - c.req[r].bytes + d.req[r].bytes
  PROVE  Summed(d, staging)
<1> DEFINE p == d.req[v]
           i == c.requests - Release(c.req[v].counted) + Release(p.counted)
           j == c.bytes - c.req[v].bytes + p.bytes
           k == c.waiters - Release(c.req[v].claim) + Release(p.claim)
           e == PutClaims(c, v, p, i, j, k)
<1>1. p \in RequestType /\ c.req[v] \in RequestType /\ c.req[r] \in RequestType
  BY Typed
<1>0. /\ c.requests \in Int /\ c.bytes \in Int /\ c.waiters \in Int
      /\ p.bytes \in Nat /\ c.req[v].bytes \in Nat /\ c.req[r].bytes \in Nat
      /\ \A b : Release(b) \in Int
  BY <1>1, ReleaseCounts DEF CoordinatorType, RequestType
<1>2. i \in Int /\ j \in Int /\ k \in Int
  BY <1>0
<1> HIDE DEF p, i, j, k
<1>3. /\ e \in CoordinatorType /\ e.req[v] = p /\ Only(c, e, v)
      /\ e.requests = i /\ e.bytes = j /\ e.waiters = k
  BY <1>1, <1>2, ReplacedRecordClaims
<1> HIDE DEF e
<1>4. Summed(e, staging)
  <2>1. \A q \in Requests : q # v => SameClaims(c.req[q], e.req[q])
    BY <1>3 DEF Only, SameClaims
  <2>2. Summed(c, staging)
    BY CountedIsSummed
  <2>3. /\ e.requests = c.requests - Release(c.req[v].counted) + Release(e.req[v].counted)
        /\ e.waiters = c.waiters - Release(c.req[v].claim) + Release(e.req[v].claim)
        /\ e.bytes = c.bytes - c.req[v].bytes + e.req[v].bytes
    BY <1>3 DEF i, j, k
  <2> QED
    BY <1>3, <2>1, <2>2, <2>3, SummedOne
<1>5. e.req[r] = c.req[r]
  BY <1>3 DEF Only
<1>6. \A q \in Requests : q # r => SameClaims(e.req[q], d.req[q])
  BY <1>3 DEF Only, SameClaims, p
<1>7. /\ d.requests = e.requests - Release(e.req[r].counted) + Release(d.req[r].counted)
      /\ d.waiters = e.waiters - Release(e.req[r].claim) + Release(d.req[r].claim)
      /\ d.bytes = e.bytes - e.req[r].bytes + d.req[r].bytes
  BY <1>0, <1>3, <1>5 DEF i, j, k, p
<1> QED
  BY <1>3, <1>4, <1>6, <1>7, SummedOne

(* The incoming frame takes over the storage of a queued one. *)
LEMMA SwapKeeps ==
  ASSUME NEW c, NEW s, NEW L, NEW staging, Accounts(c, s, L, staging),
         NEW r \in Requests, NEW v \in Requests, NEW d \in CoordinatorType, NEW t,
         s[r].pc = "admit", v \in Queued(c), SameStorage(c, v, r),
         \A q \in c.replacements : ~SameStream(c, q, r),
         Moves(s, t, r, "swap", v),
         \A q \in Requests : q \notin {r, v} => SameCore(c.req[q], d.req[q]),
         SameCourse(c.req[r], d.req[r]), SameClaims(c.req[v], d.req[r]),
         d.req[v].spec = c.req[v].spec, d.req[v].result = c.req[v].result,
         d.req[v].state = "SUPERSEDED", Clear(d.req[v]),
         d.queue = Without(c.queue, {v}), d.inflight = c.inflight,
         d.replacements = c.replacements \cup {r}, SameCounters(c, d)
  PROVE  Accounts(d, t, L, staging)
<1>1. /\ c \in CoordinatorType /\ s \in SubmitType /\ L \in SUBSET Requests /\ staging \in Nat
      /\ \A q \in Requests : Placed(c.req[q], s[q].pc, s[q].victim, q \in L)
      /\ \A q \in Requests : c.req[q].state # "NONE" => c.req[q].spec \in Specs[q]
      /\ VictimsOK(c, s) /\ QueueOK(c, s) /\ ListsOK(c, s) /\ Streams(c, s)
      /\ Counted(c, staging)
      /\ \A q \in Requests : c.req[q] \in RequestType
      /\ \A q \in Requests : s[q].victim \in Requests \cup {NoRequest}
      /\ Queued(c) \subseteq Requests /\ c.inflight \subseteq Requests /\ c.replacements \subseteq Requests
      /\ NoRequest \notin Requests
  BY Parts
<1>2. /\ t \in SubmitType /\ t[r].pc = "swap" /\ t[r].victim = v
      /\ \A q \in Requests : q # r => t[q] = s[q]
  BY DEF Moves
<1>3. /\ s[v].pc = "accepted" /\ c.req[v].state = "QUEUED" /\ ~HeldBy(s, v)
      /\ v # r /\ v # NoRequest
  BY <1>1 DEF QueueOK
<1>4. Placed(c.req[r], "admit", s[r].victim, r \in L) /\ Placed(c.req[v], "accepted", s[v].victim, v \in L)
  BY <1>1, <1>3
<1>5. /\ Clear(c.req[r]) /\ c.req[r].state = "QUEUED" /\ Claims(c.req[v])
      /\ c.req[v].result = "none" /\ v \notin L /\ r \notin L
  BY <1>3, <1>4 DEF Placed, Terminal
<1>6. SameStream(c, v, r) /\ c.req[v].spec.bytes = c.req[r].spec.bytes
  BY DEF SameStorage
<1>7. c.req[r].spec.freshness = "LATEST"
  BY <1>6 DEF SameStream
<1>8. \A q \in Requests : Placed(d.req[q], t[q].pc, t[q].victim, q \in L)
  <2> TAKE q \in Requests
  <2>1. CASE q = r
    <3>1. Claims(d.req[r])
      BY <1>5, <1>6 DEF Claims, SameClaims, SameCourse
    <3> QED
      BY <1>2, <1>4, <1>5, <2>1, <3>1 DEF Placed, SameCourse, Terminal
  <2>2. CASE q = v
    BY <1>2, <1>3, <1>4, <1>5, <2>2 DEF Placed, Terminal
  <2>3. CASE q \notin {r, v}
    <3>1. Placed(c.req[q], t[q].pc, t[q].victim, q \in L)
      BY <1>1, <1>2, <2>3
    <3> QED
      BY <2>3, <3>1 DEF Placed, SameCore, SameClaims, SameCourse, Claims, Clear, Absent
  <2> QED
    BY <2>1, <2>2, <2>3
<1>9. \A q \in Requests : d.req[q].spec = c.req[q].spec
  BY DEF SameCore, SameCourse
<1>10. \A q \in Requests : d.req[q].state # "NONE" => d.req[q].spec \in Specs[q]
  BY <1>1, <1>3, <1>5, <1>9 DEF SameCore, SameCourse
<1>11. \A p, q \in Requests : SameStream(d, p, q) <=> SameStream(c, p, q)
  BY <1>9, StreamsOfSpecs
<1>12. \A q \in Requests : s[q].victim # r /\ s[q].victim # v
  BY <1>1, <1>3 DEF VictimsOK, HeldBy
<1>13. s[r].victim = NoRequest
  BY <1>1 DEF VictimsOK
<1>14. VictimsOK(d, t)
  <2> SUFFICES ASSUME NEW q \in Requests, t[q].victim # NoRequest
               PROVE  /\ t[q].pc \in {"swap", "snapshot"} /\ t[t[q].victim].pc = "accepted"
                      /\ SameStream(d, t[q].victim, q)
                      /\ d.req[t[q].victim].state = IF t[q].pc = "swap" THEN "SUPERSEDED" ELSE "QUEUED"
    BY DEF VictimsOK
  <2>1. CASE q = r
    BY <1>2, <1>3, <1>6, <1>11, <2>1
  <2>2. CASE q # r
    <3>1. /\ t[q] = s[q] /\ s[q].victim \notin {r, v} /\ s[q].victim \in Requests
          /\ t[s[q].victim] = s[s[q].victim]
      BY <1>1, <1>2, <1>12, <2>2
    <3>2. /\ s[q].pc \in {"swap", "snapshot"} /\ s[s[q].victim].pc = "accepted"
          /\ SameStream(c, s[q].victim, q)
          /\ c.req[s[q].victim].state = IF s[q].pc = "swap" THEN "SUPERSEDED" ELSE "QUEUED"
      BY <1>1, <2>2, <3>1 DEF VictimsOK
    <3> QED
      BY <1>11, <3>1, <3>2 DEF SameCore, SameCourse
  <2> QED
    BY <2>1, <2>2
<1>15. QueueOK(d, t)
  <2>1. c.queue \in Seq(Requests) /\ IsInjective(c.queue)
    BY <1>1 DEF CoordinatorType, QueueOK
  <2>2. IsInjective(d.queue) /\ Queued(d) = Queued(c) \ {v}
    BY <2>1, WithoutMembers, QueuedMembers
  <2>3. \A q \in Requests : HeldBy(t, q) <=> HeldBy(s, q)
    BY <1>1, <1>2 DEF HeldBy
  <2>4. \A q \in Requests : q \in Queued(d) <=>
          t[q].pc = "accepted" /\ d.req[q].state = "QUEUED" /\ ~HeldBy(s, q)
    <3> TAKE q \in Requests
    <3>1. q \in Queued(c) <=> s[q].pc = "accepted" /\ c.req[q].state = "QUEUED" /\ ~HeldBy(s, q)
      BY <1>1 DEF QueueOK
    <3>2. CASE q = r
      BY <1>2, <2>2, <3>1, <3>2
    <3>3. CASE q = v
      BY <2>2, <3>3
    <3>4. CASE q \notin {r, v}
      BY <1>2, <2>2, <3>1, <3>4 DEF SameCore, SameCourse
    <3> QED
      BY <3>2, <3>3, <3>4
  <2> QED
    BY <2>2, <2>3, <2>4 DEF QueueOK
<1>16. ListsOK(d, t)
  <2>1. r \notin c.inflight /\ r \notin c.replacements /\ v \notin c.inflight /\ v \notin c.replacements
    BY <1>1, <1>3, <1>5 DEF ListsOK
  <2>2. \A q \in Requests : q \in d.inflight <=> d.req[q].state = "RUNNING"
    BY <1>1, <1>5, <2>1 DEF ListsOK, SameCore, SameCourse
  <2>3. \A q \in Requests : q \in d.replacements <=>
          t[q].pc \in {"swap", "snapshot"} /\ d.req[q].spec.freshness = "LATEST"
    BY <1>1, <1>2, <1>7, <1>9 DEF ListsOK
  <2>4. \A p, q \in d.replacements : SameStream(d, p, q) => p = q
    <3> SUFFICES ASSUME NEW p \in d.replacements, NEW q \in d.replacements, SameStream(c, p, q)
                 PROVE  p = q
      BY <1>1, <1>11
    <3>1. SameStream(c, q, p)
      BY StreamsAreEquivalence
    <3> QED
      BY <1>1, <3>1 DEF ListsOK
  <2> QED
    BY <2>2, <2>3, <2>4 DEF ListsOK
<1>17. Streams(d, t)
  <2>1. \A q \in Requests : Deliverable(d, t, q) => Deliverable(c, s, q)
    BY <1>2 DEF Deliverable, SameCore, SameCourse
  <2> QED
    BY <1>1, <1>11, <2>1 DEF Streams
<1>18. Counted(d, staging)
  <2>1. \A q \in Requests : q \notin {r, v} => SameClaims(c.req[q], d.req[q])
    BY DEF SameCore
  <2>2. /\ Release(c.req[r].counted) = 0 /\ Release(d.req[v].counted) = 0
        /\ Release(c.req[r].claim) = 0 /\ Release(d.req[v].claim) = 0
        /\ c.req[r].bytes = 0 /\ d.req[v].bytes = 0
    BY <1>5 DEF Clear, Release
  <2>3. /\ d.req[r].counted = c.req[v].counted /\ d.req[r].claim = c.req[v].claim
        /\ d.req[r].bytes = c.req[v].bytes
    BY DEF SameClaims
  <2>4. /\ c.requests \in Int /\ c.waiters \in Int /\ c.bytes \in Int
        /\ Release(c.req[v].counted) \in Int /\ Release(c.req[v].claim) \in Int
        /\ c.req[v].bytes \in Nat
    BY <1>1 DEF CoordinatorType, Release, RequestType
  <2>5. Summed(d, staging)
    <3>1. /\ d.requests = c.requests
               - Release(c.req[v].counted) + Release(d.req[v].counted)
               - Release(c.req[r].counted) + Release(d.req[r].counted)
          /\ d.waiters = c.waiters
               - Release(c.req[v].claim) + Release(d.req[v].claim)
               - Release(c.req[r].claim) + Release(d.req[r].claim)
          /\ d.bytes = c.bytes - c.req[v].bytes + d.req[v].bytes - c.req[r].bytes + d.req[r].bytes
      BY <2>2, <2>3, <2>4 DEF SameCounters
    <3> QED
      BY <1>1, <1>3, <2>1, <3>1, CountedMoved
  <2> QED
    BY <1>1, <2>5, CountedIsSummed DEF SameCounters
<1> QED
  BY <1>1, <1>2, <1>8, <1>10, <1>14, <1>15, <1>16, <1>17, <1>18 DEF Accounts

(* The incoming request is charged, and the frame it will replace is taken *)
(* out of the queue.                                                       *)
LEMMA SnapshotKeeps ==
  ASSUME NEW c, NEW s, NEW L, NEW staging, Accounts(c, s, L, staging),
         NEW r \in Requests, NEW v, NEW d \in CoordinatorType, NEW t,
         s[r].pc = "admit",
         v # NoRequest => v \in Queued(c) /\ SameStream(c, v, r),
         c.req[r].spec.freshness = "LATEST" => \A q \in c.replacements : ~SameStream(c, q, r),
         Moves(s, t, r, "snapshot", v),
         \A q \in Requests : q # r => SameCore(c.req[q], d.req[q]),
         SameCourse(c.req[r], d.req[r]), d.req[r].budget, ~d.req[r].claim,
         d.req[r].counted <=> v = NoRequest, d.req[r].bytes = c.req[r].spec.bytes,
         d.queue = Without(c.queue, {v}), d.inflight = c.inflight,
         d.replacements = IF c.req[r].spec.freshness = "LATEST" THEN c.replacements \cup {r} ELSE c.replacements,
         d.requests = c.requests + Release(v = NoRequest), d.waiters = c.waiters,
         d.bytes = c.bytes + c.req[r].spec.bytes,
         v = NoRequest => c.requests < MaxRequests,
         c.bytes + c.req[r].spec.bytes <= MaxInputBytes
  PROVE  Accounts(d, t, L, staging)
<1>1. /\ c \in CoordinatorType /\ s \in SubmitType /\ L \in SUBSET Requests /\ staging \in Nat
      /\ \A q \in Requests : Placed(c.req[q], s[q].pc, s[q].victim, q \in L)
      /\ \A q \in Requests : c.req[q].state # "NONE" => c.req[q].spec \in Specs[q]
      /\ VictimsOK(c, s) /\ QueueOK(c, s) /\ ListsOK(c, s) /\ Streams(c, s)
      /\ Counted(c, staging)
      /\ \A q \in Requests : c.req[q] \in RequestType
      /\ \A q \in Requests : s[q].victim \in Requests \cup {NoRequest}
      /\ Queued(c) \subseteq Requests /\ c.inflight \subseteq Requests /\ c.replacements \subseteq Requests
      /\ NoRequest \notin Requests
  BY Parts
<1>2. /\ t \in SubmitType /\ t[r].pc = "snapshot" /\ t[r].victim = v
      /\ \A q \in Requests : q # r => t[q] = s[q]
  BY DEF Moves
<1>3. v # NoRequest => /\ s[v].pc = "accepted" /\ c.req[v].state = "QUEUED" /\ ~HeldBy(s, v)
                       /\ v # r /\ v \in Requests
  BY <1>1 DEF QueueOK
<1>4. Placed(c.req[r], "admit", s[r].victim, r \in L)
  BY <1>1
<1>5. Clear(c.req[r]) /\ c.req[r].state = "QUEUED" /\ r \notin L
  BY <1>4 DEF Placed
<1>8. \A q \in Requests : Placed(d.req[q], t[q].pc, t[q].victim, q \in L)
  <2> TAKE q \in Requests
  <2>1. CASE q = r
    BY <1>2, <1>4, <1>5, <2>1 DEF Placed, SameCourse, Terminal
  <2>3. CASE q # r
    <3>1. Placed(c.req[q], t[q].pc, t[q].victim, q \in L)
      BY <1>1, <1>2, <2>3
    <3> QED
      BY <2>3, <3>1 DEF Placed, SameCore, SameClaims, SameCourse, Claims, Clear, Absent
  <2> QED
    BY <2>1, <2>3
<1>9. \A q \in Requests : d.req[q].spec = c.req[q].spec /\ d.req[q].state = c.req[q].state
  BY DEF SameCore, SameCourse
<1>10. \A q \in Requests : d.req[q].state # "NONE" => d.req[q].spec \in Specs[q]
  BY <1>1, <1>9
<1>11. \A p, q \in Requests : SameStream(d, p, q) <=> SameStream(c, p, q)
  BY <1>9, StreamsOfSpecs
<1>13. s[r].victim = NoRequest
  BY <1>1 DEF VictimsOK
<1>14. VictimsOK(d, t)
  <2> SUFFICES ASSUME NEW q \in Requests, t[q].victim # NoRequest
               PROVE  /\ t[q].pc \in {"swap", "snapshot"} /\ t[t[q].victim].pc = "accepted"
                      /\ SameStream(d, t[q].victim, q)
                      /\ d.req[t[q].victim].state = IF t[q].pc = "swap" THEN "SUPERSEDED" ELSE "QUEUED"
    BY DEF VictimsOK
  <2>1. CASE q = r
    BY <1>2, <1>3, <1>9, <1>11, <2>1
  <2>2. CASE q # r
    <3>0. t[q] = s[q] /\ s[q].victim \in Requests
      BY <1>1, <1>2, <2>2
    <3>2. /\ s[q].pc \in {"swap", "snapshot"} /\ s[s[q].victim].pc = "accepted"
          /\ SameStream(c, s[q].victim, q)
          /\ c.req[s[q].victim].state = IF s[q].pc = "swap" THEN "SUPERSEDED" ELSE "QUEUED"
      BY <1>1, <2>2, <3>0 DEF VictimsOK
    <3>1. t[s[q].victim] = s[s[q].victim]
      BY <1>2, <3>0, <3>2
    <3> QED
      BY <1>9, <1>11, <3>0, <3>1, <3>2
  <2> QED
    BY <2>1, <2>2
<1>15. QueueOK(d, t)
  <2>1. c.queue \in Seq(Requests) /\ IsInjective(c.queue)
    BY <1>1 DEF CoordinatorType, QueueOK
  <2>2. IsInjective(d.queue) /\ Queued(d) = Queued(c) \ {v}
    BY <2>1, WithoutMembers, QueuedMembers
  <2>3. \A q \in Requests : HeldBy(t, q) <=> HeldBy(s, q) \/ q = v
    BY <1>1, <1>2, <1>13 DEF HeldBy
  <2>4. \A q \in Requests : q \in Queued(d) <=>
          t[q].pc = "accepted" /\ d.req[q].state = "QUEUED" /\ ~(HeldBy(s, q) \/ q = v)
    <3> TAKE q \in Requests
    <3>1. q \in Queued(c) <=> s[q].pc = "accepted" /\ c.req[q].state = "QUEUED" /\ ~HeldBy(s, q)
      BY <1>1 DEF QueueOK
    <3>2. CASE q = r
      BY <1>2, <2>2, <3>1, <3>2
    <3>4. CASE q # r
      BY <1>2, <1>9, <2>2, <3>1, <3>4
    <3> QED
      BY <3>2, <3>4
  <2> QED
    BY <2>2, <2>3, <2>4 DEF QueueOK
<1>16. ListsOK(d, t)
  <2>2. \A q \in Requests : q \in d.inflight <=> d.req[q].state = "RUNNING"
    BY <1>1, <1>9 DEF ListsOK
  <2>3. \A q \in Requests : q \in d.replacements <=>
          t[q].pc \in {"swap", "snapshot"} /\ d.req[q].spec.freshness = "LATEST"
    <3> TAKE q \in Requests
    <3>1. q \in c.replacements <=> s[q].pc \in {"swap", "snapshot"} /\ c.req[q].spec.freshness = "LATEST"
      BY <1>1 DEF ListsOK
    <3>2. CASE q = r
      BY <1>2, <1>9, <3>1, <3>2
    <3>3. CASE q # r
      BY <1>2, <1>9, <3>1, <3>3
    <3> QED
      BY <3>2, <3>3
  <2>4. \A p, q \in d.replacements : SameStream(d, p, q) => p = q
    <3> SUFFICES ASSUME NEW p \in d.replacements, NEW q \in d.replacements, SameStream(c, p, q)
                 PROVE  p = q
      BY <1>1, <1>11
    <3>1. SameStream(c, q, p)
      BY StreamsAreEquivalence
    <3>2. c.req[p].spec.freshness = "LATEST" /\ c.req[q].spec.freshness = "LATEST"
      BY StreamsAreEquivalence
    <3> QED
      BY <1>1, <3>1, <3>2 DEF ListsOK
  <2> QED
    BY <2>2, <2>3, <2>4 DEF ListsOK
<1>17. Streams(d, t)
  <2>1. \A q \in Requests : Deliverable(d, t, q) => Deliverable(c, s, q)
    BY <1>2 DEF Deliverable, SameCore, SameCourse
  <2> QED
    BY <1>1, <1>11, <2>1 DEF Streams
<1>18. Counted(d, staging)
  <2>0. /\ c.requests \in Int /\ c.waiters \in Int /\ c.bytes \in Int /\ MaxRequests \in Nat
    BY <1>1, RequestConstants DEF CoordinatorType
  <2>1. \A q \in Requests : q # r => SameClaims(c.req[q], d.req[q])
    BY DEF SameCore
  <2>2. /\ Release(c.req[r].counted) = 0 /\ Release(d.req[r].counted) = Release(v = NoRequest)
        /\ Release(c.req[r].claim) = 0 /\ Release(d.req[r].claim) = 0
        /\ c.req[r].bytes = 0
    BY <1>5 DEF Clear, Release
  <2>3. /\ d.requests = c.requests - Release(c.req[r].counted) + Release(d.req[r].counted)
        /\ d.waiters = c.waiters - Release(c.req[r].claim) + Release(d.req[r].claim)
        /\ d.bytes = c.bytes - c.req[r].bytes + d.req[r].bytes
    BY <2>0, <2>2
  <2>4. Summed(c, staging) /\ c.requests <= MaxRequests
    BY <1>1, CountedIsSummed
  <2>5. Summed(d, staging)
    BY <1>1, <2>1, <2>3, <2>4, SummedOne
  <2>6. d.requests <= MaxRequests
    BY <2>0, <2>4 DEF Release
  <2> QED
    BY <2>5, <2>6, CountedIsSummed
<1> QED
  BY <1>1, <1>2, <1>8, <1>10, <1>14, <1>15, <1>16, <1>17, <1>18 DEF Accounts

(* A stream has one replacement at a time, so a victim has one successor. *)
LEMMA OneSuccessor ==
  ASSUME NEW c, NEW s, NEW L, NEW staging, Accounts(c, s, L, staging),
         NEW q \in Requests, NEW r \in Requests, s[q].victim = s[r].victim, s[r].victim # NoRequest
  PROVE  q = r
<1>1. VictimsOK(c, s) /\ ListsOK(c, s)
  BY Parts
<1>2. /\ SameStream(c, s[r].victim, q) /\ SameStream(c, s[r].victim, r)
      /\ s[q].pc \in {"swap", "snapshot"} /\ s[r].pc \in {"swap", "snapshot"}
  BY <1>1 DEF VictimsOK
<1>3. /\ SameStream(c, q, r)
      /\ c.req[q].spec.freshness = "LATEST" /\ c.req[r].spec.freshness = "LATEST"
  BY <1>2, StreamsAreEquivalence
<1>4. q \in c.replacements /\ r \in c.replacements
  BY <1>1, <1>2, <1>3 DEF ListsOK
<1> QED
  BY <1>1, <1>3, <1>4 DEF ListsOK

Copies(s, r, v) == s[r].pc = "snapshot" /\ s[r].victim = v

(* The successor inherits what the predecessor has, and the predecessor    *)
(* ends: now the successor is where a swap would have left it.             *)
LEMMA InheritKeeps ==
  ASSUME NEW c, NEW s, NEW L, NEW staging, Accounts(c, s, L, staging),
         NEW r \in Requests, NEW v \in Requests, NEW d \in CoordinatorType, NEW t,
         Copies(s, r, v), Moves(s, t, r, "swap", v),
         \A q \in Requests : q \notin {r, v} => SameCore(c.req[q], d.req[q]),
         SameCourse(c.req[r], d.req[r]), d.req[r].budget = c.req[r].budget,
         d.req[r].bytes = c.req[r].bytes, d.req[r].counted, d.req[r].claim,
         d.req[v].spec = c.req[v].spec, d.req[v].result = c.req[v].result,
         d.req[v].state = "SUPERSEDED", Clear(d.req[v]),
         d.queue = Without(c.queue, {v}), d.inflight = c.inflight,
         d.replacements = c.replacements, d.requests = c.requests, d.waiters = c.waiters,
         d.bytes = c.bytes - c.req[v].bytes
  PROVE  Accounts(d, t, L, staging)
<1> s[r].pc = "snapshot" /\ s[r].victim = v
  BY DEF Copies
<1>1. /\ c \in CoordinatorType /\ s \in SubmitType /\ L \in SUBSET Requests /\ staging \in Nat
      /\ \A q \in Requests : Placed(c.req[q], s[q].pc, s[q].victim, q \in L)
      /\ \A q \in Requests : c.req[q].state # "NONE" => c.req[q].spec \in Specs[q]
      /\ VictimsOK(c, s) /\ QueueOK(c, s) /\ ListsOK(c, s) /\ Streams(c, s)
      /\ Counted(c, staging)
      /\ \A q \in Requests : c.req[q] \in RequestType
      /\ \A q \in Requests : s[q].victim \in Requests \cup {NoRequest}
      /\ Queued(c) \subseteq Requests /\ c.inflight \subseteq Requests /\ c.replacements \subseteq Requests
      /\ NoRequest \notin Requests
  BY Parts
<1>2. /\ t \in SubmitType /\ t[r].pc = "swap" /\ t[r].victim = v
      /\ \A q \in Requests : q # r => t[q] = s[q]
  BY DEF Moves
<1>3. /\ s[v].pc = "accepted" /\ c.req[v].state = "QUEUED" /\ SameStream(c, v, r)
      /\ v # r /\ v # NoRequest
  BY <1>1 DEF VictimsOK
<1>4. Placed(c.req[r], "snapshot", v, r \in L) /\ Placed(c.req[v], "accepted", s[v].victim, v \in L)
  BY <1>1, <1>3
<1>5. /\ c.req[r].budget /\ ~c.req[r].claim /\ ~c.req[r].counted
      /\ c.req[r].bytes = c.req[r].spec.bytes /\ c.req[r].state = "QUEUED" /\ Claims(c.req[v])
      /\ c.req[v].result = "none" /\ v \notin L /\ r \notin L
  BY <1>3, <1>4 DEF Placed, Terminal
<1>8. \A q \in Requests : Placed(d.req[q], t[q].pc, t[q].victim, q \in L)
  <2> TAKE q \in Requests
  <2>1. CASE q = r
    <3>1. Claims(d.req[r])
      BY <1>5 DEF Claims, SameCourse
    <3> QED
      BY <1>2, <1>4, <1>5, <2>1, <3>1 DEF Placed, SameCourse, Terminal
  <2>2. CASE q = v
    BY <1>2, <1>3, <1>4, <1>5, <2>2 DEF Placed, Terminal
  <2>3. CASE q \notin {r, v}
    <3>1. Placed(c.req[q], t[q].pc, t[q].victim, q \in L)
      BY <1>1, <1>2, <2>3
    <3> QED
      BY <2>3, <3>1 DEF Placed, SameCore, SameClaims, SameCourse, Claims, Clear, Absent
  <2> QED
    BY <2>1, <2>2, <2>3
<1>9. \A q \in Requests : d.req[q].spec = c.req[q].spec
  BY DEF SameCore, SameCourse
<1>10. \A q \in Requests : d.req[q].state # "NONE" => d.req[q].spec \in Specs[q]
  BY <1>1, <1>3, <1>5, <1>9 DEF SameCore, SameCourse
<1>11. \A p, q \in Requests : SameStream(d, p, q) <=> SameStream(c, p, q)
  BY <1>9, StreamsOfSpecs
<1>12. \A q \in Requests : s[q].victim # r /\ (q # r => s[q].victim # v)
  <2>1. \A q \in Requests : s[q].victim = v => q = r
    BY <1>3, OneSuccessor
  <2> QED
    BY <1>1, <2>1 DEF VictimsOK
<1>14. VictimsOK(d, t)
  <2> SUFFICES ASSUME NEW q \in Requests, t[q].victim # NoRequest
               PROVE  /\ t[q].pc \in {"swap", "snapshot"} /\ t[t[q].victim].pc = "accepted"
                      /\ SameStream(d, t[q].victim, q)
                      /\ d.req[t[q].victim].state = IF t[q].pc = "swap" THEN "SUPERSEDED" ELSE "QUEUED"
    BY DEF VictimsOK
  <2>1. CASE q = r
    BY <1>2, <1>3, <1>11, <2>1
  <2>2. CASE q # r
    <3>1. /\ t[q] = s[q] /\ s[q].victim \notin {r, v} /\ s[q].victim \in Requests
          /\ t[s[q].victim] = s[s[q].victim]
      BY <1>1, <1>2, <1>12, <2>2
    <3>2. /\ s[q].pc \in {"swap", "snapshot"} /\ s[s[q].victim].pc = "accepted"
          /\ SameStream(c, s[q].victim, q)
          /\ c.req[s[q].victim].state = IF s[q].pc = "swap" THEN "SUPERSEDED" ELSE "QUEUED"
      BY <1>1, <2>2, <3>1 DEF VictimsOK
    <3> QED
      BY <1>11, <3>1, <3>2 DEF SameCore, SameCourse
  <2> QED
    BY <2>1, <2>2
<1>15. QueueOK(d, t)
  <2>1. c.queue \in Seq(Requests) /\ IsInjective(c.queue)
    BY <1>1 DEF CoordinatorType, QueueOK
  <2>2. IsInjective(d.queue) /\ Queued(d) = Queued(c) \ {v}
    BY <2>1, WithoutMembers, QueuedMembers
  <2>3. \A q \in Requests : q # v => (HeldBy(t, q) <=> HeldBy(s, q))
    BY <1>1, <1>2 DEF HeldBy
  <2>4. \A q \in Requests : q \in Queued(d) <=>
          t[q].pc = "accepted" /\ d.req[q].state = "QUEUED" /\ ~HeldBy(t, q)
    <3> TAKE q \in Requests
    <3>1. q \in Queued(c) <=> s[q].pc = "accepted" /\ c.req[q].state = "QUEUED" /\ ~HeldBy(s, q)
      BY <1>1 DEF QueueOK
    <3>2. CASE q = r
      BY <1>2, <2>2, <3>1, <3>2
    <3>3. CASE q = v
      BY <2>2, <3>3
    <3>4. CASE q \notin {r, v}
      BY <1>2, <2>2, <2>3, <3>1, <3>4 DEF SameCore, SameCourse
    <3> QED
      BY <3>2, <3>3, <3>4
  <2> QED
    BY <2>2, <2>4 DEF QueueOK
<1>16. ListsOK(d, t)
  <2>1. r \notin c.inflight /\ v \notin c.inflight
    BY <1>1, <1>3, <1>5 DEF ListsOK
  <2>2. \A q \in Requests : q \in d.inflight <=> d.req[q].state = "RUNNING"
    BY <1>1, <1>5, <2>1 DEF ListsOK, SameCore, SameCourse
  <2>3. \A q \in Requests : q \in d.replacements <=>
          t[q].pc \in {"swap", "snapshot"} /\ d.req[q].spec.freshness = "LATEST"
    BY <1>1, <1>2, <1>9 DEF ListsOK
  <2>4. \A p, q \in d.replacements : SameStream(d, p, q) => p = q
    BY <1>1, <1>11 DEF ListsOK
  <2> QED
    BY <2>2, <2>3, <2>4 DEF ListsOK
<1>17. Streams(d, t)
  <2>1. \A q \in Requests : Deliverable(d, t, q) => Deliverable(c, s, q)
    BY <1>2 DEF Deliverable, SameCore, SameCourse
  <2> QED
    BY <1>1, <1>11, <2>1 DEF Streams
<1>18. Counted(d, staging)
  <2>1. \A q \in Requests : q \notin {r, v} => SameClaims(c.req[q], d.req[q])
    BY DEF SameCore
  <2>2. /\ Release(c.req[r].counted) = 0 /\ Release(d.req[v].counted) = 0
        /\ Release(c.req[r].claim) = 0 /\ Release(d.req[v].claim) = 0
        /\ Release(d.req[r].counted) = 1 /\ Release(c.req[v].counted) = 1
        /\ Release(d.req[r].claim) = 1 /\ Release(c.req[v].claim) = 1
        /\ d.req[v].bytes = 0
    BY <1>5 DEF Clear, Claims, Release
  <2>4. /\ c.requests \in Int /\ c.waiters \in Int /\ c.bytes \in Int
        /\ c.req[v].bytes \in Nat /\ c.req[r].bytes \in Nat /\ MaxInputBytes \in Nat
    BY <1>1, RequestConstants DEF CoordinatorType, RequestType
  <2>5. Summed(d, staging)
    <3>1. d.requests = c.requests
            - Release(c.req[v].counted) + Release(d.req[v].counted)
            - Release(c.req[r].counted) + Release(d.req[r].counted)
      BY <1>5, <2>4 DEF Release, Clear, Claims
    <3>2. d.waiters = c.waiters
            - Release(c.req[v].claim) + Release(d.req[v].claim)
            - Release(c.req[r].claim) + Release(d.req[r].claim)
      BY <1>5, <2>4 DEF Release, Clear, Claims
    <3>3. d.bytes = c.bytes - c.req[v].bytes + d.req[v].bytes - c.req[r].bytes + d.req[r].bytes
      BY <2>2, <2>4
    <3> QED
      BY <1>1, <1>3, <2>1, <3>1, <3>2, <3>3, CountedMoved
  <2>6. c.requests <= MaxRequests /\ c.bytes <= MaxInputBytes
    BY <1>1, CountedIsSummed
  <2>7. d.requests <= MaxRequests /\ d.bytes <= MaxInputBytes
    BY <2>4, <2>6
  <2> QED
    BY <2>5, <2>7, CountedIsSummed
<1> QED
  BY <1>1, <1>2, <1>8, <1>10, <1>14, <1>15, <1>16, <1>17, <1>18 DEF Accounts

(* The request is accepted: it joins the queue, alone of its stream. *)
LEMMA EnqueueKeeps ==
  ASSUME NEW c, NEW s, NEW L, NEW staging, Accounts(c, s, L, staging),
         NEW r \in Requests, NEW d \in CoordinatorType, NEW t,
         s[r].pc \in {"swap", "snapshot"}, s[r].pc = "snapshot" => s[r].victim = NoRequest,
         \A q \in Requests : Deliverable(c, s, q) => ~SameStream(c, q, r),
         Moves(s, t, r, "accepted", NoRequest),
         \A q \in Requests : q # r => SameCore(c.req[q], d.req[q]),
         SameCourse(c.req[r], d.req[r]), d.req[r].budget = c.req[r].budget,
         d.req[r].bytes = c.req[r].bytes, d.req[r].counted, d.req[r].claim,
         d.queue = Append(c.queue, r), d.inflight = c.inflight,
         d.replacements = c.replacements \ {r}, d.requests = c.requests,
         d.waiters = c.waiters + Release(~c.req[r].claim), d.bytes = c.bytes
  PROVE  Accounts(d, t, L, staging)
<1>1. /\ c \in CoordinatorType /\ s \in SubmitType /\ L \in SUBSET Requests /\ staging \in Nat
      /\ \A q \in Requests : Placed(c.req[q], s[q].pc, s[q].victim, q \in L)
      /\ \A q \in Requests : c.req[q].state # "NONE" => c.req[q].spec \in Specs[q]
      /\ VictimsOK(c, s) /\ QueueOK(c, s) /\ ListsOK(c, s) /\ Streams(c, s)
      /\ Counted(c, staging)
      /\ \A q \in Requests : c.req[q] \in RequestType
      /\ \A q \in Requests : s[q].victim \in Requests \cup {NoRequest}
      /\ Queued(c) \subseteq Requests /\ c.inflight \subseteq Requests /\ c.replacements \subseteq Requests
      /\ NoRequest \notin Requests
  BY Parts
<1>2. /\ t \in SubmitType /\ t[r].pc = "accepted" /\ t[r].victim = NoRequest
      /\ \A q \in Requests : q # r => t[q] = s[q]
  BY DEF Moves
<1>4. Placed(c.req[r], s[r].pc, s[r].victim, r \in L)
  BY <1>1
<1>5. /\ c.req[r].budget /\ c.req[r].counted /\ c.req[r].bytes = c.req[r].spec.bytes
      /\ c.req[r].state = "QUEUED" /\ r \notin L
      /\ ~c.req[r].cancel /\ ~c.req[r].superseded /\ c.req[r].result = "none"
  BY <1>4 DEF Placed, Claims
<1>8. \A q \in Requests : Placed(d.req[q], t[q].pc, t[q].victim, q \in L)
  <2> TAKE q \in Requests
  <2>1. CASE q = r
    <3>1. Claims(d.req[r])
      BY <1>5 DEF Claims, SameCourse
    <3> QED
      BY <1>2, <1>5, <2>1, <3>1 DEF Placed, SameCourse, Terminal
  <2>3. CASE q # r
    <3>1. Placed(c.req[q], t[q].pc, t[q].victim, q \in L)
      BY <1>1, <1>2, <2>3
    <3> QED
      BY <2>3, <3>1 DEF Placed, SameCore, SameClaims, SameCourse, Claims, Clear, Absent
  <2> QED
    BY <2>1, <2>3
<1>9. \A q \in Requests : d.req[q].spec = c.req[q].spec /\ d.req[q].state = c.req[q].state
  BY DEF SameCore, SameCourse
<1>10. \A q \in Requests : d.req[q].state # "NONE" => d.req[q].spec \in Specs[q]
  BY <1>1, <1>9
<1>11. \A p, q \in Requests : SameStream(d, p, q) <=> SameStream(c, p, q)
  BY <1>9, StreamsOfSpecs
<1>12. \A q \in Requests : s[q].victim # r
  BY <1>1 DEF VictimsOK
<1>14. VictimsOK(d, t)
  <2> SUFFICES ASSUME NEW q \in Requests, t[q].victim # NoRequest
               PROVE  /\ t[q].pc \in {"swap", "snapshot"} /\ t[t[q].victim].pc = "accepted"
                      /\ SameStream(d, t[q].victim, q)
                      /\ d.req[t[q].victim].state = IF t[q].pc = "swap" THEN "SUPERSEDED" ELSE "QUEUED"
    BY DEF VictimsOK
  <2>1. /\ q # r /\ t[q] = s[q] /\ s[q].victim # r /\ s[q].victim \in Requests
        /\ t[s[q].victim] = s[s[q].victim]
    BY <1>1, <1>2, <1>12
  <2>2. /\ s[q].pc \in {"swap", "snapshot"} /\ s[s[q].victim].pc = "accepted"
        /\ SameStream(c, s[q].victim, q)
        /\ c.req[s[q].victim].state = IF s[q].pc = "swap" THEN "SUPERSEDED" ELSE "QUEUED"
    BY <1>1, <2>1 DEF VictimsOK
  <2> QED
    BY <1>9, <1>11, <2>1, <2>2
<1>15. QueueOK(d, t)
  <2>1. c.queue \in Seq(Requests) /\ IsInjective(c.queue) /\ r \notin Queued(c)
    BY <1>1 DEF CoordinatorType, QueueOK
  <2>2. IsInjective(d.queue) /\ Queued(d) = Queued(c) \cup {r}
    BY <2>1, AppendMembers, QueuedMembers
  <2>3. \A q \in Requests : HeldBy(t, q) <=> HeldBy(s, q)
    BY <1>1, <1>2 DEF HeldBy
  <2>4. ~HeldBy(s, r)
    BY <1>12 DEF HeldBy
  <2>5. \A q \in Requests : q \in Queued(d) <=>
          t[q].pc = "accepted" /\ d.req[q].state = "QUEUED" /\ ~HeldBy(s, q)
    <3> TAKE q \in Requests
    <3>1. q \in Queued(c) <=> s[q].pc = "accepted" /\ c.req[q].state = "QUEUED" /\ ~HeldBy(s, q)
      BY <1>1 DEF QueueOK
    <3>2. CASE q = r
      BY <1>2, <1>5, <1>9, <2>2, <2>4, <3>2
    <3>4. CASE q # r
      BY <1>2, <1>9, <2>2, <3>1, <3>4
    <3> QED
      BY <3>2, <3>4
  <2> QED
    BY <2>2, <2>3, <2>5 DEF QueueOK
<1>16. ListsOK(d, t)
  <2>2. \A q \in Requests : q \in d.inflight <=> d.req[q].state = "RUNNING"
    BY <1>1, <1>9 DEF ListsOK
  <2>3. \A q \in Requests : q \in d.replacements <=>
          t[q].pc \in {"swap", "snapshot"} /\ d.req[q].spec.freshness = "LATEST"
    <3> TAKE q \in Requests
    <3>1. q \in c.replacements <=> s[q].pc \in {"swap", "snapshot"} /\ c.req[q].spec.freshness = "LATEST"
      BY <1>1 DEF ListsOK
    <3>2. CASE q = r
      BY <1>2, <3>2
    <3>3. CASE q # r
      BY <1>2, <1>9, <3>1, <3>3
    <3> QED
      BY <3>2, <3>3
  <2>4. \A p, q \in d.replacements : SameStream(d, p, q) => p = q
    BY <1>1, <1>11 DEF ListsOK
  <2> QED
    BY <2>2, <2>3, <2>4 DEF ListsOK
<1>17. Streams(d, t)
  <2>1. \A q \in Requests : Deliverable(d, t, q) => q = r \/ Deliverable(c, s, q)
    BY <1>2 DEF Deliverable, SameCore, SameCourse
  <2> SUFFICES ASSUME NEW p \in Requests, NEW q \in Requests,
                      Deliverable(d, t, p), Deliverable(d, t, q), SameStream(c, p, q)
               PROVE  p = q
    BY <1>11 DEF Streams
  <2>2. SameStream(c, q, p)
    BY StreamsAreEquivalence
  <2> QED
    BY <1>1, <2>1, <2>2 DEF Streams
<1>18. Counted(d, staging)
  <2>0. c.requests \in Int /\ c.waiters \in Int /\ c.bytes \in Int /\ c.req[r].bytes \in Nat
    BY <1>1 DEF CoordinatorType, RequestType
  <2>1. \A q \in Requests : q # r => SameClaims(c.req[q], d.req[q])
    BY DEF SameCore
  <2>2. /\ Release(c.req[r].counted) = 1 /\ Release(d.req[r].counted) = 1
        /\ Release(~c.req[r].claim) = 1 - Release(c.req[r].claim) /\ Release(d.req[r].claim) = 1
        /\ Release(c.req[r].claim) \in Int
    BY <1>5 DEF Release
  <2>3. /\ d.requests = c.requests - Release(c.req[r].counted) + Release(d.req[r].counted)
        /\ d.bytes = c.bytes - c.req[r].bytes + d.req[r].bytes
    BY <1>5, <2>0 DEF Release
  <2>6. d.waiters = c.waiters - Release(c.req[r].claim) + Release(d.req[r].claim)
    BY <2>0 DEF Release
  <2>4. Summed(c, staging) /\ c.requests <= MaxRequests /\ c.bytes <= MaxInputBytes
    BY <1>1, CountedIsSummed
  <2>5. Summed(d, staging)
    BY <1>1, <2>1, <2>3, <2>4, <2>6, SummedOne
  <2> QED
    BY <2>4, <2>5, CountedIsSummed
<1> QED
  BY <1>1, <1>2, <1>8, <1>10, <1>14, <1>15, <1>16, <1>17, <1>18 DEF Accounts

(* A request leaves the queue, or its submission, and ends. *)
LEMMA LeaveKeeps ==
  ASSUME NEW c, NEW s, NEW L, NEW staging, Accounts(c, s, L, staging),
         NEW r \in Requests, NEW d \in CoordinatorType, NEW t,
         r \in Queued(c) \/ s[r].pc = "swap",
         Moves(s, t, r, "accepted", NoRequest),
         \A q \in Requests : q # r => SameCore(c.req[q], d.req[q]),
         d.req[r].spec = c.req[r].spec, d.req[r].result = c.req[r].result,
         d.req[r].state \in Terminal \ {"SUCCEEDED"}, Clear(d.req[r]),
         d.queue = Without(c.queue, {r}), d.inflight = c.inflight,
         d.replacements = c.replacements \ {r},
         d.requests = c.requests - Release(c.req[r].counted),
         d.bytes = c.bytes - c.req[r].bytes,
         d.waiters = c.waiters - Release(c.req[r].claim)
  PROVE  Accounts(d, t, L, staging)
<1>1. /\ c \in CoordinatorType /\ s \in SubmitType /\ L \in SUBSET Requests /\ staging \in Nat
      /\ \A q \in Requests : Placed(c.req[q], s[q].pc, s[q].victim, q \in L)
      /\ \A q \in Requests : c.req[q].state # "NONE" => c.req[q].spec \in Specs[q]
      /\ VictimsOK(c, s) /\ QueueOK(c, s) /\ ListsOK(c, s) /\ Streams(c, s)
      /\ Counted(c, staging)
      /\ \A q \in Requests : c.req[q] \in RequestType
      /\ \A q \in Requests : s[q].victim \in Requests \cup {NoRequest}
      /\ Queued(c) \subseteq Requests /\ c.inflight \subseteq Requests /\ c.replacements \subseteq Requests
      /\ NoRequest \notin Requests
  BY Parts
<1>2. /\ t \in SubmitType /\ t[r].pc = "accepted" /\ t[r].victim = NoRequest
      /\ \A q \in Requests : q # r => t[q] = s[q]
  BY DEF Moves
<1>3. s[r].pc \in {"accepted", "swap"} /\ c.req[r].state = "QUEUED" /\ ~HeldBy(s, r)
  <2>1. CASE r \in Queued(c)
    BY <1>1, <2>1 DEF QueueOK
  <2>2. CASE s[r].pc = "swap"
    <3>1. Placed(c.req[r], "swap", s[r].victim, r \in L)
      BY <1>1, <2>2
    <3> QED
      BY <1>1, <2>2, <3>1 DEF Placed, VictimsOK, HeldBy
  <2> QED
    BY <2>1, <2>2
<1>4. Placed(c.req[r], s[r].pc, s[r].victim, r \in L)
  BY <1>1
<1>5. r \notin L /\ c.req[r].result = "none"
  BY <1>3, <1>4 DEF Placed
<1>6. /\ d.req[r].state \in Terminal /\ d.req[r].state # "SUCCEEDED"
      /\ d.req[r].state \notin {"NONE", "QUEUED", "RUNNING"}
  BY DEF Terminal
<1>8. \A q \in Requests : Placed(d.req[q], t[q].pc, t[q].victim, q \in L)
  <2> TAKE q \in Requests
  <2>1. CASE q = r
    BY <1>2, <1>5, <1>6, <2>1 DEF Placed
  <2>3. CASE q # r
    <3>1. Placed(c.req[q], t[q].pc, t[q].victim, q \in L)
      BY <1>1, <1>2, <2>3
    <3> QED
      BY <2>3, <3>1 DEF Placed, SameCore, SameClaims, SameCourse, Claims, Clear, Absent
  <2> QED
    BY <2>1, <2>3
<1>9. /\ \A q \in Requests : d.req[q].spec = c.req[q].spec
      /\ \A q \in Requests : q # r => d.req[q].state = c.req[q].state
  BY DEF SameCore, SameCourse
<1>10. \A q \in Requests : d.req[q].state # "NONE" => d.req[q].spec \in Specs[q]
  BY <1>1, <1>3, <1>9
<1>11. \A p, q \in Requests : SameStream(d, p, q) <=> SameStream(c, p, q)
  BY <1>9, StreamsOfSpecs
<1>12. \A q \in Requests : s[q].victim # r
  BY <1>1, <1>3 DEF VictimsOK, HeldBy
<1>14. VictimsOK(d, t)
  <2> SUFFICES ASSUME NEW q \in Requests, t[q].victim # NoRequest
               PROVE  /\ t[q].pc \in {"swap", "snapshot"} /\ t[t[q].victim].pc = "accepted"
                      /\ SameStream(d, t[q].victim, q)
                      /\ d.req[t[q].victim].state = IF t[q].pc = "swap" THEN "SUPERSEDED" ELSE "QUEUED"
    BY DEF VictimsOK
  <2>1. /\ q # r /\ t[q] = s[q] /\ s[q].victim # r /\ s[q].victim \in Requests
        /\ t[s[q].victim] = s[s[q].victim]
    BY <1>1, <1>2, <1>12
  <2>2. /\ s[q].pc \in {"swap", "snapshot"} /\ s[s[q].victim].pc = "accepted"
        /\ SameStream(c, s[q].victim, q)
        /\ c.req[s[q].victim].state = IF s[q].pc = "swap" THEN "SUPERSEDED" ELSE "QUEUED"
    BY <1>1, <2>1 DEF VictimsOK
  <2> QED
    BY <1>9, <1>11, <2>1, <2>2
<1>15. QueueOK(d, t)
  <2>1. c.queue \in Seq(Requests) /\ IsInjective(c.queue)
    BY <1>1 DEF CoordinatorType, QueueOK
  <2>2. IsInjective(d.queue) /\ Queued(d) = Queued(c) \ {r}
    BY <2>1, WithoutMembers, QueuedMembers
  <2>3. \A q \in Requests : HeldBy(t, q) <=> HeldBy(s, q)
    BY <1>1, <1>2, <1>3 DEF HeldBy
  <2>4. \A q \in Requests : q \in Queued(d) <=>
          t[q].pc = "accepted" /\ d.req[q].state = "QUEUED" /\ ~HeldBy(s, q)
    <3> TAKE q \in Requests
    <3>1. q \in Queued(c) <=> s[q].pc = "accepted" /\ c.req[q].state = "QUEUED" /\ ~HeldBy(s, q)
      BY <1>1 DEF QueueOK
    <3>2. CASE q = r
      BY <1>6, <2>2, <3>2
    <3>4. CASE q # r
      BY <1>2, <1>9, <2>2, <3>1, <3>4
    <3> QED
      BY <3>2, <3>4
  <2> QED
    BY <2>2, <2>3, <2>4 DEF QueueOK
<1>16. ListsOK(d, t)
  <2>1. r \notin c.inflight
    BY <1>1, <1>3 DEF ListsOK
  <2>2. \A q \in Requests : q \in d.inflight <=> d.req[q].state = "RUNNING"
    BY <1>1, <1>6, <1>9, <2>1 DEF ListsOK
  <2>3. \A q \in Requests : q \in d.replacements <=>
          t[q].pc \in {"swap", "snapshot"} /\ d.req[q].spec.freshness = "LATEST"
    BY <1>1, <1>2, <1>9 DEF ListsOK
  <2>4. \A p, q \in d.replacements : SameStream(d, p, q) => p = q
    BY <1>1, <1>11 DEF ListsOK
  <2> QED
    BY <2>2, <2>3, <2>4 DEF ListsOK
<1>17. Streams(d, t)
  <2>1. \A q \in Requests : Deliverable(d, t, q) => Deliverable(c, s, q) /\ q # r
    BY <1>2, <1>6 DEF Deliverable, SameCore, SameCourse, Terminal
  <2> QED
    BY <1>1, <1>11, <2>1 DEF Streams
<1>18. Counted(d, staging)
  <2>0. /\ c.requests \in Int /\ c.waiters \in Int /\ c.bytes \in Int
        /\ c.req[r].bytes \in Nat /\ MaxRequests \in Nat /\ MaxInputBytes \in Nat
    BY <1>1, RequestConstants DEF CoordinatorType, RequestType
  <2>1. \A q \in Requests : q # r => SameClaims(c.req[q], d.req[q])
    BY DEF SameCore
  <2>2. /\ Release(d.req[r].counted) = 0 /\ Release(d.req[r].claim) = 0 /\ d.req[r].bytes = 0
        /\ Release(c.req[r].counted) \in {0, 1} /\ Release(c.req[r].claim) \in {0, 1}
    BY DEF Clear, Release
  <2>3. /\ d.requests = c.requests - Release(c.req[r].counted) + Release(d.req[r].counted)
        /\ d.bytes = c.bytes - c.req[r].bytes + d.req[r].bytes
    BY <2>0, <2>2
  <2>6. d.waiters = c.waiters - Release(c.req[r].claim) + Release(d.req[r].claim)
    BY <2>0, <2>2
  <2>4. Summed(c, staging) /\ c.requests <= MaxRequests /\ c.bytes <= MaxInputBytes
    BY <1>1, CountedIsSummed
  <2>5. Summed(d, staging)
    BY <1>1, <2>1, <2>3, <2>4, <2>6, SummedOne
  <2>7. d.requests <= MaxRequests /\ d.bytes <= MaxInputBytes
    BY <2>0, <2>2, <2>4
  <2> QED
    BY <2>5, <2>7, CountedIsSummed
<1> QED
  BY <1>1, <1>2, <1>8, <1>10, <1>14, <1>15, <1>16, <1>17, <1>18 DEF Accounts

(* The copy failed: the request is refused, and the one that it would have *)
(* replaced goes back into the queue.                                      *)
LEMMA AbandonKeeps ==
  ASSUME NEW c, NEW s, NEW L, NEW staging, Accounts(c, s, L, staging),
         NEW r \in Requests, NEW d \in CoordinatorType, NEW t,
         s[r].pc = "snapshot",
         Moves(s, t, r, "refused", NoRequest),
         \A q \in Requests : q # r => SameCore(c.req[q], d.req[q]),
         Absent(d.req[r]),
         d.queue = IF s[r].victim = NoRequest THEN c.queue ELSE Append(c.queue, s[r].victim),
         d.inflight = c.inflight, d.replacements = c.replacements \ {r},
         d.requests = c.requests - Release(c.req[r].counted),
         d.bytes = c.bytes - c.req[r].bytes, d.waiters = c.waiters
  PROVE  Accounts(d, t, L, staging)
<1> DEFINE v == s[r].victim
<1>1. /\ c \in CoordinatorType /\ s \in SubmitType /\ L \in SUBSET Requests /\ staging \in Nat
      /\ \A q \in Requests : Placed(c.req[q], s[q].pc, s[q].victim, q \in L)
      /\ \A q \in Requests : c.req[q].state # "NONE" => c.req[q].spec \in Specs[q]
      /\ VictimsOK(c, s) /\ QueueOK(c, s) /\ ListsOK(c, s) /\ Streams(c, s)
      /\ Counted(c, staging)
      /\ \A q \in Requests : c.req[q] \in RequestType
      /\ \A q \in Requests : s[q].victim \in Requests \cup {NoRequest}
      /\ Queued(c) \subseteq Requests /\ c.inflight \subseteq Requests /\ c.replacements \subseteq Requests
      /\ NoRequest \notin Requests
  BY Parts
<1>2. /\ t \in SubmitType /\ t[r].pc = "refused" /\ t[r].victim = NoRequest
      /\ \A q \in Requests : q # r => t[q] = s[q]
  BY DEF Moves
<1>3. v # NoRequest => v \in Requests /\ s[v].pc = "accepted" /\ c.req[v].state = "QUEUED" /\ v # r
  BY <1>1 DEF VictimsOK
<1>4. Placed(c.req[r], "snapshot", v, r \in L)
  BY <1>1
<1>5. r \notin L /\ c.req[r].state = "QUEUED" /\ ~c.req[r].claim
  BY <1>4 DEF Placed
<1>6. d.req[r].state = "NONE" /\ Clear(d.req[r])
  BY DEF Absent
<1>8. \A q \in Requests : Placed(d.req[q], t[q].pc, t[q].victim, q \in L)
  <2> TAKE q \in Requests
  <2>1. CASE q = r
    BY <1>2, <1>5, <1>6, <2>1 DEF Placed, Terminal
  <2>3. CASE q # r
    <3>1. Placed(c.req[q], t[q].pc, t[q].victim, q \in L)
      BY <1>1, <1>2, <2>3
    <3> QED
      BY <2>3, <3>1 DEF Placed, SameCore, SameClaims, SameCourse, Claims, Clear, Absent
  <2> QED
    BY <2>1, <2>3
<1>9. \A q \in Requests : q # r => d.req[q].spec = c.req[q].spec /\ d.req[q].state = c.req[q].state
  BY DEF SameCore, SameCourse
<1>10. \A q \in Requests : d.req[q].state # "NONE" => d.req[q].spec \in Specs[q]
  BY <1>1, <1>6, <1>9
<1>11. \A p, q \in Requests : p # r /\ q # r => (SameStream(d, p, q) <=> SameStream(c, p, q))
  BY <1>9, StreamsOfSpecs
<1>12. \A q \in Requests : s[q].victim # r /\ (v # NoRequest /\ q # r => s[q].victim # v)
  <2>1. \A q \in Requests : v # NoRequest /\ s[q].victim = v => q = r
    BY OneSuccessor
  <2> QED
    BY <1>1, <2>1 DEF VictimsOK
<1> HIDE DEF v
<1>14. VictimsOK(d, t)
  <2> SUFFICES ASSUME NEW q \in Requests, t[q].victim # NoRequest
               PROVE  /\ t[q].pc \in {"swap", "snapshot"} /\ t[t[q].victim].pc = "accepted"
                      /\ SameStream(d, t[q].victim, q)
                      /\ d.req[t[q].victim].state = IF t[q].pc = "swap" THEN "SUPERSEDED" ELSE "QUEUED"
    BY DEF VictimsOK
  <2>1. /\ q # r /\ t[q] = s[q] /\ s[q].victim # r /\ s[q].victim \in Requests
        /\ t[s[q].victim] = s[s[q].victim]
    BY <1>1, <1>2, <1>12
  <2>2. /\ s[q].pc \in {"swap", "snapshot"} /\ s[s[q].victim].pc = "accepted"
        /\ SameStream(c, s[q].victim, q)
        /\ c.req[s[q].victim].state = IF s[q].pc = "swap" THEN "SUPERSEDED" ELSE "QUEUED"
    BY <1>1, <2>1 DEF VictimsOK
  <2> QED
    BY <1>9, <1>11, <2>1, <2>2
<1>15. QueueOK(d, t)
  <2>1. c.queue \in Seq(Requests) /\ IsInjective(c.queue)
    BY <1>1 DEF CoordinatorType, QueueOK
  <2>2. v # NoRequest => v \notin Queued(c)
    BY <1>1 DEF QueueOK, HeldBy, v
  <2>3. IsInjective(d.queue) /\ Queued(d) = IF v = NoRequest THEN Queued(c) ELSE Queued(c) \cup {v}
    BY <1>3, <2>1, <2>2, AppendMembers, QueuedMembers DEF v
  <2>4. \A q \in Requests : HeldBy(t, q) <=> HeldBy(s, q) /\ q # v
    BY <1>1, <1>2, <1>12 DEF HeldBy, v
  <2>5. \A q \in Requests : q \in Queued(d) <=>
          t[q].pc = "accepted" /\ d.req[q].state = "QUEUED" /\ ~HeldBy(t, q)
    <3> TAKE q \in Requests
    <3>1. q \in Queued(c) <=> s[q].pc = "accepted" /\ c.req[q].state = "QUEUED" /\ ~HeldBy(s, q)
      BY <1>1 DEF QueueOK
    <3>2. CASE q = r
      BY <1>2, <1>3, <2>3, <3>1, <3>2
    <3>3. CASE q = v
      BY <1>1, <1>2, <1>3, <1>9, <2>3, <2>4, <3>3
    <3>4. CASE q # r /\ q # v
      BY <1>2, <1>9, <2>3, <2>4, <3>1, <3>4
    <3> QED
      BY <3>2, <3>3, <3>4
  <2> QED
    BY <2>3, <2>5 DEF QueueOK
<1>16. ListsOK(d, t)
  <2>1. r \notin c.inflight
    BY <1>1, <1>5 DEF ListsOK
  <2>2. \A q \in Requests : q \in d.inflight <=> d.req[q].state = "RUNNING"
    BY <1>1, <1>6, <1>9, <2>1 DEF ListsOK
  <2>3. \A q \in Requests : q \in d.replacements <=>
          t[q].pc \in {"swap", "snapshot"} /\ d.req[q].spec.freshness = "LATEST"
    BY <1>1, <1>2, <1>9 DEF ListsOK
  <2>4. \A p, q \in d.replacements : SameStream(d, p, q) => p = q
    BY <1>1, <1>11 DEF ListsOK
  <2> QED
    BY <2>2, <2>3, <2>4 DEF ListsOK
<1>17. Streams(d, t)
  <2>1. \A q \in Requests : Deliverable(d, t, q) => Deliverable(c, s, q) /\ q # r
    BY <1>2, <1>6 DEF Deliverable, SameCore, SameCourse, Terminal
  <2> QED
    BY <1>1, <1>11, <2>1 DEF Streams
<1>18. Counted(d, staging)
  <2>0. /\ c.requests \in Int /\ c.waiters \in Int /\ c.bytes \in Int
        /\ c.req[r].bytes \in Nat /\ MaxRequests \in Nat /\ MaxInputBytes \in Nat
    BY <1>1, RequestConstants DEF CoordinatorType, RequestType
  <2>1. \A q \in Requests : q # r => SameClaims(c.req[q], d.req[q])
    BY DEF SameCore
  <2>2. /\ Release(d.req[r].counted) = 0 /\ Release(d.req[r].claim) = 0 /\ d.req[r].bytes = 0
        /\ Release(c.req[r].counted) \in {0, 1} /\ Release(c.req[r].claim) = 0
    BY <1>5, <1>6 DEF Clear, Release
  <2>3. /\ d.requests = c.requests - Release(c.req[r].counted) + Release(d.req[r].counted)
        /\ d.bytes = c.bytes - c.req[r].bytes + d.req[r].bytes
    BY <2>0, <2>2
  <2>6. d.waiters = c.waiters - Release(c.req[r].claim) + Release(d.req[r].claim)
    BY <2>0, <2>2
  <2>4. Summed(c, staging) /\ c.requests <= MaxRequests /\ c.bytes <= MaxInputBytes
    BY <1>1, CountedIsSummed
  <2>5. Summed(d, staging)
    BY <1>1, <2>1, <2>3, <2>4, <2>6, SummedOne
  <2>7. d.requests <= MaxRequests /\ d.bytes <= MaxInputBytes
    BY <2>0, <2>2, <2>4
  <2> QED
    BY <2>5, <2>7, CountedIsSummed
<1> QED
  BY <1>1, <1>2, <1>8, <1>10, <1>14, <1>15, <1>16, <1>17, <1>18 DEF Accounts

(* Some of the queue are dispatched: they run, with their stacked inputs. *)
LEMMA DispatchKeeps ==
  ASSUME NEW c, NEW s, Accounts(c, s, {}, 0), NEW S \in SUBSET Queued(c), NEW staging \in Nat,
         c.bytes + staging <= MaxInputBytes, NEW d \in CoordinatorType,
         \A q \in Requests : /\ SameClaims(c.req[q], d.req[q])
                             /\ d.req[q].spec = c.req[q].spec /\ d.req[q].cancel = c.req[q].cancel
                             /\ d.req[q].superseded = c.req[q].superseded
                             /\ d.req[q].result = c.req[q].result
                             /\ d.req[q].state = IF q \in S THEN "RUNNING" ELSE c.req[q].state,
         d.queue = Without(c.queue, S), d.inflight = c.inflight \cup S,
         d.replacements = c.replacements,
         d.requests = c.requests, d.bytes = c.bytes + staging, d.waiters = c.waiters
  PROVE  Accounts(d, s, S, staging)
<1>1. /\ c \in CoordinatorType /\ s \in SubmitType /\ 0 \in Nat
      /\ \A q \in Requests : Placed(c.req[q], s[q].pc, s[q].victim, q \in {})
      /\ \A q \in Requests : c.req[q].state # "NONE" => c.req[q].spec \in Specs[q]
      /\ VictimsOK(c, s) /\ QueueOK(c, s) /\ ListsOK(c, s) /\ Streams(c, s)
      /\ Counted(c, 0)
      /\ \A q \in Requests : c.req[q] \in RequestType
      /\ \A q \in Requests : s[q].victim \in Requests \cup {NoRequest}
      /\ Queued(c) \subseteq Requests /\ c.inflight \subseteq Requests /\ c.replacements \subseteq Requests
      /\ NoRequest \notin Requests
  BY Parts
<1>3. \A q \in S : /\ q \in Requests /\ q \in Queued(c)
                   /\ s[q].pc = "accepted" /\ c.req[q].state = "QUEUED" /\ ~HeldBy(s, q)
  BY <1>1 DEF QueueOK
<1>8. \A q \in Requests : Placed(d.req[q], s[q].pc, s[q].victim, q \in S)
  <2> TAKE q \in Requests
  <2>0. Placed(c.req[q], s[q].pc, s[q].victim, FALSE)
    <3>1. Placed(c.req[q], s[q].pc, s[q].victim, q \in {})
      BY <1>1
    <3> QED
      BY <3>1 DEF Placed
  <2>1. CASE q \in S
    <3>1. s[q].pc = "accepted" /\ c.req[q].state = "QUEUED" /\ d.req[q].state = "RUNNING"
      BY <1>3, <2>1
    <3>2. Claims(d.req[q]) /\ d.req[q].result = "none"
      BY <2>0, <3>1 DEF Placed, Claims, SameClaims, Terminal
    <3> QED
      BY <2>1, <3>1, <3>2 DEF Placed, Terminal
  <2>3. CASE q \notin S
    BY <2>0, <2>3 DEF Placed, SameClaims, Claims, Clear, Absent
  <2> QED
    BY <2>1, <2>3
<1>10. \A q \in Requests : d.req[q].state # "NONE" => d.req[q].spec \in Specs[q]
  BY <1>1, <1>3
<1>11. \A p, q \in Requests : SameStream(d, p, q) <=> SameStream(c, p, q)
  BY StreamsOfSpecs
<1>14. VictimsOK(d, s)
  <2> SUFFICES ASSUME NEW q \in Requests, s[q].victim # NoRequest
               PROVE  /\ s[q].pc \in {"swap", "snapshot"} /\ s[s[q].victim].pc = "accepted"
                      /\ SameStream(d, s[q].victim, q)
                      /\ d.req[s[q].victim].state = IF s[q].pc = "swap" THEN "SUPERSEDED" ELSE "QUEUED"
    BY DEF VictimsOK
  <2>1. s[q].victim \in Requests
    BY <1>1
  <2>2. /\ s[q].pc \in {"swap", "snapshot"} /\ s[s[q].victim].pc = "accepted"
        /\ SameStream(c, s[q].victim, q)
        /\ c.req[s[q].victim].state = IF s[q].pc = "swap" THEN "SUPERSEDED" ELSE "QUEUED"
    BY <1>1 DEF VictimsOK
  <2>3. s[q].victim \notin S
    BY <1>3, <2>2 DEF HeldBy
  <2> QED
    BY <1>11, <2>1, <2>2, <2>3
<1>15. QueueOK(d, s)
  <2>1. c.queue \in Seq(Requests) /\ IsInjective(c.queue)
    BY <1>1 DEF CoordinatorType, QueueOK
  <2>2. IsInjective(d.queue) /\ Queued(d) = Queued(c) \ S
    BY <2>1, WithoutMembers, QueuedMembers
  <2>3. \A q \in Requests : q \in Queued(d) <=>
          s[q].pc = "accepted" /\ d.req[q].state = "QUEUED" /\ ~HeldBy(s, q)
    BY <1>1, <2>2 DEF QueueOK
  <2> QED
    BY <2>2, <2>3 DEF QueueOK
<1>16. ListsOK(d, s)
  <2>2. \A q \in Requests : q \in d.inflight <=> d.req[q].state = "RUNNING"
    BY <1>1 DEF ListsOK
  <2>3. \A q \in Requests : q \in d.replacements <=>
          s[q].pc \in {"swap", "snapshot"} /\ d.req[q].spec.freshness = "LATEST"
    BY <1>1 DEF ListsOK
  <2>4. \A p, q \in d.replacements : SameStream(d, p, q) => p = q
    BY <1>1, <1>11 DEF ListsOK
  <2> QED
    BY <2>2, <2>3, <2>4 DEF ListsOK
<1>17. Streams(d, s)
  <2>1. \A q \in Requests : Deliverable(d, s, q) => Deliverable(c, s, q)
    BY <1>3 DEF Deliverable
  <2> QED
    BY <1>1, <1>11, <2>1 DEF Streams
<1>18. Counted(d, staging)
  <2> DEFINE b == [c EXCEPT !.bytes = c.bytes + staging]
  <2>0. c.bytes \in Int /\ b.bytes = c.bytes + staging
    BY <1>1 DEF CoordinatorType
  <2>1. /\ b \in CoordinatorType /\ b.req = c.req
        /\ b.requests = c.requests /\ b.waiters = c.waiters
    BY <1>1, <2>0 DEF CoordinatorType
  <2> HIDE DEF b
  <2>2. Bytes(b) = Bytes(c) /\ Bytes(c) \in Nat
    <3>1. \A q \in Requests : c.req[q].bytes \in Nat
      BY <1>1 DEF RequestType
    <3>2. Bytes(b) = Bytes(c)
      BY <2>1 DEF Bytes
    <3> QED
      BY <3>1, <3>2, BytesBound
  <2>3. Counted(b, staging)
    BY <1>1, <2>0, <2>1, <2>2 DEF Counted
  <2>4. SameCounters(b, d) /\ \A q \in Requests : SameClaims(b.req[q], d.req[q])
    BY <2>0, <2>1 DEF SameCounters
  <2> QED
    BY <2>1, <2>3, <2>4, CountedSame
<1>19. S \in SUBSET Requests
  BY <1>1
<1> QED
  BY <1>1, <1>8, <1>10, <1>14, <1>15, <1>16, <1>17, <1>18, <1>19 DEF Accounts

(* A running request ends. *)
LEMMA EndKeeps ==
  ASSUME NEW c, NEW s, NEW L, NEW staging, Accounts(c, s, L, staging),
         NEW r \in Requests, NEW d, NEW at, c.req[r].state = "RUNNING", EndedAs(c, d, r, at)
  PROVE  Accounts(d, s, L \ {r}, staging)
<1>1. /\ c \in CoordinatorType /\ s \in SubmitType /\ L \in SUBSET Requests /\ staging \in Nat
      /\ \A q \in Requests : Placed(c.req[q], s[q].pc, s[q].victim, q \in L)
      /\ \A q \in Requests : c.req[q].state # "NONE" => c.req[q].spec \in Specs[q]
      /\ VictimsOK(c, s) /\ QueueOK(c, s) /\ ListsOK(c, s) /\ Streams(c, s)
      /\ Counted(c, staging)
      /\ \A q \in Requests : c.req[q] \in RequestType
      /\ \A q \in Requests : s[q].victim \in Requests \cup {NoRequest}
      /\ Queued(c) \subseteq Requests /\ c.inflight \subseteq Requests /\ c.replacements \subseteq Requests
      /\ NoRequest \notin Requests
  BY Parts
<1>2. /\ d \in CoordinatorType
      /\ \A q \in Requests : q # r => d.req[q] = c.req[q]
      /\ d.req[r].spec = c.req[r].spec /\ d.req[r].state \in Terminal /\ Clear(d.req[r])
      /\ d.req[r].result = IF d.req[r].state = "SUCCEEDED" THEN "held" ELSE "none"
      /\ d.inflight = c.inflight \ {r} /\ d.queue = c.queue /\ d.replacements = c.replacements
      /\ d.requests = c.requests - Release(c.req[r].counted)
      /\ d.bytes = c.bytes - c.req[r].bytes
      /\ d.waiters = c.waiters - Release(c.req[r].claim)
  BY DEF EndedAs, Only
<1>3. s[r].pc = "accepted" /\ s[r].victim = NoRequest
  <2>1. Placed(c.req[r], s[r].pc, s[r].victim, r \in L)
    BY <1>1
  <2> QED
    BY <1>1, <2>1 DEF Placed, VictimsOK
<1>6. d.req[r].state \notin {"NONE", "QUEUED", "RUNNING"}
  BY <1>2 DEF Terminal
<1>8. \A q \in Requests : Placed(d.req[q], s[q].pc, s[q].victim, q \in L \ {r})
  <2> TAKE q \in Requests
  <2>1. CASE q = r
    BY <1>2, <1>3, <1>6, <2>1 DEF Placed
  <2>3. CASE q # r
    <3>1. Placed(c.req[q], s[q].pc, s[q].victim, q \in L)
      BY <1>1
    <3>2. (q \in L \ {r}) = (q \in L)
      BY <2>3
    <3> QED
      BY <1>2, <2>3, <3>1, <3>2
  <2> QED
    BY <2>1, <2>3
<1>9. \A q \in Requests : d.req[q].spec = c.req[q].spec
  BY <1>2
<1>10. \A q \in Requests : d.req[q].state # "NONE" => d.req[q].spec \in Specs[q]
  BY <1>1, <1>2
<1>11. \A p, q \in Requests : SameStream(d, p, q) <=> SameStream(c, p, q)
  BY <1>9, StreamsOfSpecs
<1>12. \A q \in Requests : s[q].victim # r
  BY <1>1 DEF VictimsOK
<1>14. VictimsOK(d, s)
  BY <1>1, <1>2, <1>11, <1>12 DEF VictimsOK
<1>15. QueueOK(d, s)
  <2>1. Queued(d) = Queued(c) /\ r \notin Queued(c)
    BY <1>1, <1>2 DEF Queued, QueueOK
  <2> QED
    BY <1>1, <1>2, <1>6, <2>1 DEF QueueOK
<1>16. ListsOK(d, s)
  <2>2. \A q \in Requests : q \in d.inflight <=> d.req[q].state = "RUNNING"
    BY <1>1, <1>2, <1>6 DEF ListsOK
  <2>3. \A q \in Requests : q \in d.replacements <=>
          s[q].pc \in {"swap", "snapshot"} /\ d.req[q].spec.freshness = "LATEST"
    BY <1>1, <1>2, <1>9 DEF ListsOK
  <2>4. \A p, q \in d.replacements : SameStream(d, p, q) => p = q
    BY <1>1, <1>2, <1>11 DEF ListsOK
  <2> QED
    BY <2>2, <2>3, <2>4 DEF ListsOK
<1>17. Streams(d, s)
  <2>1. \A q \in Requests : Deliverable(d, s, q) => Deliverable(c, s, q)
    BY <1>2, <1>6 DEF Deliverable
  <2> QED
    BY <1>1, <1>11, <2>1 DEF Streams
<1>18. Counted(d, staging)
  <2>0. /\ c.requests \in Int /\ c.waiters \in Int /\ c.bytes \in Int
        /\ c.req[r].bytes \in Nat /\ MaxRequests \in Nat /\ MaxInputBytes \in Nat
    BY <1>1, RequestConstants DEF CoordinatorType, RequestType
  <2>1. \A q \in Requests : q # r => SameClaims(c.req[q], d.req[q])
    BY <1>2 DEF SameClaims
  <2>2. /\ Release(d.req[r].counted) = 0 /\ Release(d.req[r].claim) = 0 /\ d.req[r].bytes = 0
        /\ Release(c.req[r].counted) \in {0, 1} /\ Release(c.req[r].claim) \in {0, 1}
    BY <1>2 DEF Clear, Release
  <2>3. /\ d.requests = c.requests - Release(c.req[r].counted) + Release(d.req[r].counted)
        /\ d.bytes = c.bytes - c.req[r].bytes + d.req[r].bytes
    BY <1>2, <2>0, <2>2
  <2>6. d.waiters = c.waiters - Release(c.req[r].claim) + Release(d.req[r].claim)
    BY <1>2, <2>0, <2>2
  <2>4. Summed(c, staging) /\ c.requests <= MaxRequests /\ c.bytes <= MaxInputBytes
    BY <1>1, CountedIsSummed
  <2>5. Summed(d, staging)
    BY <1>1, <1>2, <2>1, <2>3, <2>4, <2>6, SummedOne
  <2>7. d.requests <= MaxRequests /\ d.bytes <= MaxInputBytes
    BY <1>2, <2>0, <2>2, <2>4
  <2> QED
    BY <2>5, <2>7, CountedIsSummed
<1> QED
  BY <1>1, <1>2, <1>8, <1>10, <1>14, <1>15, <1>16, <1>17, <1>18 DEF Accounts

(* A lane's result stays on the device. *)
LEMMA PendKeeps ==
  ASSUME NEW c, NEW s, NEW L, NEW staging, Accounts(c, s, L, staging),
         NEW r \in L, NEW d \in CoordinatorType,
         \A q \in Requests : /\ SameClaims(c.req[q], d.req[q])
                             /\ d.req[q].spec = c.req[q].spec /\ d.req[q].cancel = c.req[q].cancel
                             /\ d.req[q].superseded = c.req[q].superseded
                             /\ d.req[q].result = IF q = r THEN "pending" ELSE c.req[q].result
                             /\ d.req[q].state = c.req[q].state,
         SameLists(c, d), SameCounters(c, d)
  PROVE  Accounts(d, s, L \ {r}, staging)
<1>1. /\ c \in CoordinatorType /\ s \in SubmitType /\ L \in SUBSET Requests /\ staging \in Nat
      /\ \A q \in Requests : Placed(c.req[q], s[q].pc, s[q].victim, q \in L)
      /\ \A q \in Requests : c.req[q].state # "NONE" => c.req[q].spec \in Specs[q]
      /\ VictimsOK(c, s) /\ QueueOK(c, s) /\ ListsOK(c, s) /\ Streams(c, s)
      /\ Counted(c, staging)
      /\ \A q \in Requests : c.req[q] \in RequestType
      /\ \A q \in Requests : s[q].victim \in Requests \cup {NoRequest}
      /\ Queued(c) \subseteq Requests /\ c.inflight \subseteq Requests /\ c.replacements \subseteq Requests
      /\ NoRequest \notin Requests
  BY Parts
<1>8. \A q \in Requests : Placed(d.req[q], s[q].pc, s[q].victim, q \in L \ {r})
  <2> TAKE q \in Requests
  <2>0. Placed(c.req[q], s[q].pc, s[q].victim, q \in L)
    BY <1>1
  <2>1. CASE q = r
    <3>1. c.req[q].state = "RUNNING"
      BY <2>0, <2>1 DEF Placed
    <3> QED
      BY <2>0, <2>1, <3>1 DEF Placed, SameClaims, Claims, Clear, Terminal
  <2>3. CASE q # r
    <3>2. (q \in L \ {r}) = (q \in L)
      BY <2>3
    <3> QED
      BY <2>0, <2>3, <3>2 DEF Placed, SameClaims, Claims, Clear, Absent
  <2> QED
    BY <2>1, <2>3
<1>10. \A q \in Requests : d.req[q].state # "NONE" => d.req[q].spec \in Specs[q]
  BY <1>1
<1>11. \A p, q \in Requests : SameStream(d, p, q) <=> SameStream(c, p, q)
  BY StreamsOfSpecs
<1>14. VictimsOK(d, s)
  BY <1>1, <1>11 DEF VictimsOK
<1>15. QueueOK(d, s)
  BY <1>1 DEF QueueOK, Queued, SameLists
<1>16. ListsOK(d, s)
  BY <1>1, <1>11 DEF ListsOK, SameLists
<1>17. Streams(d, s)
  BY <1>1, <1>11 DEF Streams, Deliverable
<1>18. Counted(d, staging)
  BY <1>1, CountedSame
<1> QED
  BY <1>1, <1>8, <1>10, <1>14, <1>15, <1>16, <1>17, <1>18 DEF Accounts

(* The stacked inputs are freed with the batch. *)
LEMMA UnstackedKeeps ==
  ASSUME NEW c, NEW s, NEW staging, Accounts(c, s, {}, staging)
  PROVE  Accounts([c EXCEPT !.bytes = @ - staging], s, {}, 0)
<1> DEFINE d == [c EXCEPT !.bytes = @ - staging]
<1>1. /\ c \in CoordinatorType /\ staging \in Nat /\ Counted(c, staging)
      /\ \A q \in Requests : c.req[q] \in RequestType
  BY Parts
<1>2. /\ d \in CoordinatorType /\ d.req = c.req /\ d.bytes = c.bytes - staging
      /\ SameLists(c, d) /\ d.requests = c.requests /\ d.waiters = c.waiters
  <2>1. c.bytes - staging \in Int
    BY <1>1 DEF CoordinatorType
  <2> QED
    BY <1>1, <2>1 DEF CoordinatorType, SameLists
<1> HIDE DEF d
<1>3. Bytes(d) = Bytes(c) /\ Bytes(c) \in Nat
  <2>1. \A q \in Requests : c.req[q].bytes \in Nat
    BY <1>1 DEF RequestType
  <2>2. Bytes(d) = Bytes(c)
    BY <1>2 DEF Bytes
  <2> QED
    BY <2>1, <2>2, BytesBound
<1>4. Counted(d, 0)
  <2>1. c.bytes \in Int /\ MaxInputBytes \in Nat
    BY <1>1, RequestConstants DEF CoordinatorType
  <2>2. d.bytes = 0 + Bytes(d) /\ d.bytes <= MaxInputBytes
    BY <1>1, <1>2, <1>3, <2>1 DEF Counted
  <2> QED
    BY <1>1, <1>2, <2>2 DEF Counted
<1>5. \A p, q \in Requests : SameStream(d, p, q) <=> SameStream(c, p, q)
  BY <1>2, StreamsOfSpecs
<1>6. /\ s \in SubmitType /\ {} \in SUBSET Requests /\ 0 \in Nat
      /\ \A q \in Requests : Placed(d.req[q], s[q].pc, s[q].victim, q \in {})
      /\ \A q \in Requests : d.req[q].state # "NONE" => d.req[q].spec \in Specs[q]
  BY <1>2 DEF Accounts
<1>7. VictimsOK(c, s) /\ QueueOK(c, s) /\ ListsOK(c, s) /\ Streams(c, s)
  BY DEF Accounts
<1>8. \A q \in Requests : s[q].victim \in Requests \cup {NoRequest}
  BY Parts
<1>9. VictimsOK(d, s)
  BY <1>2, <1>5, <1>7, <1>8 DEF VictimsOK
<1>10. QueueOK(d, s)
  BY <1>2, <1>7 DEF QueueOK, Queued, SameLists
<1>11. ListsOK(d, s)
  <2>1. c.replacements \subseteq Requests
    BY <1>1 DEF CoordinatorType
  <2> QED
    BY <1>2, <1>5, <1>7, <2>1 DEF ListsOK, SameLists
<1>12. Streams(d, s)
  BY <1>2, <1>5, <1>7 DEF Streams, Deliverable
<1>13. Accounts(d, s, {}, 0)
  BY <1>2, <1>4, <1>6, <1>9, <1>10, <1>11, <1>12 DEF Accounts
<1> QED
  BY <1>13 DEF d

-----------------------------------------------------------------------------
(* Reservations: what a step leaves alone, and what it must establish.     *)

SameStay(p, q) == q.spec = p.spec /\ q.state = p.state /\ SameHold(p, q)

(* Nothing but R's outputs and contexts changes. *)
Elsewhere(c, d, R) ==
  /\ \A q \in Requests \ R : SameStay(c.req[q], d.req[q])
  /\ \A x \in Contexts :
       d.ctx[x] = c.ctx[x] \/ {c.ctx[x].token, d.ctx[x].token} \subseteq R \cup {NoRequest}

(* The others' submissions and lanes stay as well. *)
Aside(c, s, t, L, M, R) ==
  \A q \in Requests \ R : /\ t[q] = s[q] /\ (q \in M <=> q \in L)
                          /\ c.req[q].token /\ LeftBy(s, q) => LeftBy(t, q)

(* Outside of R nothing that is held changes. *)
LEMMA ElsewhereKeeps ==
  ASSUME NEW c \in CoordinatorType, NEW d \in CoordinatorType, NEW s, NEW t, NEW w, NEW L, NEW M,
         NEW running, Reservations(c, s, w, L, running),
         NEW R \in SUBSET Requests, Elsewhere(c, d, R), Aside(c, s, t, L, M, R)
  PROVE  /\ \A q \in Requests \ R : /\ TicketOK(d.req[q], t[q].pc, t[q].victim, q \in M)
                                    /\ TokenOK(d, q, LeftBy(t, q), q \in M)
         /\ \A q \in Requests \ R : \A v, i : LaneOK(c, v, i, q) => LaneOK(d, v, i, q)
         /\ \A x \in Contexts : d.ctx[x] = c.ctx[x] /\ c.ctx[x].token \notin R => HolderOK(d, x)
<1>0. NoRequest \notin Requests
  BY RequestsAreNumbers
<1>1. \A q \in Requests \ R :
        /\ d.req[q].spec = c.req[q].spec /\ d.req[q].state = c.req[q].state
        /\ d.req[q].ticket = c.req[q].ticket /\ d.req[q].token = c.req[q].token
        /\ (Bound(d, q) <=> Bound(c, q))
  BY DEF Elsewhere, SameStay, SameHold, Bound
<1>2. \A q \in Requests \ R : Bound(c, q) =>
        /\ ContextOf(c, q).token = q => ContextOf(d, q) = ContextOf(c, q)
        /\ ContextOf(c, q).token # q => ContextOf(d, q).token # q
  <2> TAKE q \in Requests \ R
  <2> HAVE Bound(c, q)
  <2>1. c.req[q].spec.context \in Contexts
    BY Typed
  <2> QED
    BY <1>0, <1>1, <2>1 DEF Elsewhere, ContextOf
<1>3. \A q \in Requests \ R : /\ TicketOK(d.req[q], t[q].pc, t[q].victim, q \in M)
                              /\ TokenOK(d, q, LeftBy(t, q), q \in M)
  <2> TAKE q \in Requests \ R
  <2>1. TicketOK(c.req[q], s[q].pc, s[q].victim, q \in L) /\ TokenOK(c, q, LeftBy(s, q), q \in L)
    BY DEF Reservations
  <2>2. TicketOK(d.req[q], t[q].pc, t[q].victim, q \in M)
    BY <1>1, <2>1 DEF TicketOK, Aside
  <2>3. TokenOK(d, q, LeftBy(t, q), q \in M)
    BY <1>1, <1>2, <2>1 DEF TokenOK, Aside
  <2> QED
    BY <2>2, <2>3
<1>4. ASSUME NEW q \in Requests \ R, NEW v, NEW i, LaneOK(c, v, i, q)
      PROVE  LaneOK(d, v, i, q)
  <2>1. CASE ~Bound(c, q)
    BY <1>1, <1>4, <2>1 DEF LaneOK
  <2>2. CASE Bound(c, q)
    <3>1. /\ Reserved(c, q) => Reserved(d, q)
          /\ Runs(c, q) => Runs(d, q)
          /\ Settled(c, q) => Settled(d, q)
          /\ Released(c, q) => Released(d, q)
      BY <1>1, <1>2, <2>2 DEF Reserved, Runs, Settled, Released
    <3>2. LaneBound(c, v, i, q)
      BY <1>4, <2>2 DEF LaneOK
    <3>3. LaneBound(d, v, i, q)
      BY <1>1, <3>1, <3>2 DEF LaneBound
    <3> QED
      BY <1>1, <2>2, <3>3 DEF LaneOK
  <2> QED
    BY <2>1, <2>2
<1>5. ASSUME NEW x \in Contexts, d.ctx[x] = c.ctx[x], c.ctx[x].token \notin R
      PROVE  HolderOK(d, x)
  <2>1. c.ctx[x].token \in Requests \cup {NoRequest}
    BY Typed DEF ContextType
  <2>2. HolderOK(c, x)
    BY DEF Reservations
  <2> QED
    BY <1>1, <1>5, <2>1, <2>2 DEF HolderOK
<1> QED
  BY <1>3, <1>4, <1>5

(* A step that changes no lane. *)
LEMMA AwayKeeps ==
  ASSUME NEW c \in CoordinatorType, NEW d \in CoordinatorType, NEW s, NEW t, NEW w, NEW L, NEW M,
         NEW running, Reservations(c, s, w, L, running), NEW after,
         NEW R \in SUBSET Requests, Elsewhere(c, d, R), Aside(c, s, t, L, M, R), M \in SUBSET Requests,
         \A q \in R : /\ q \notin M /\ TicketOK(d.req[q], t[q].pc, t[q].victim, FALSE)
                      /\ TokenOK(d, q, LeftBy(t, q), FALSE),
         \A x \in Contexts : d.ctx[x] # c.ctx[x] \/ c.ctx[x].token \in R => HolderOK(d, x),
         Results(d, after)
  PROVE  Reservations(d, t, w, M, after)
<1>1. /\ \A q \in Requests \ R : /\ TicketOK(d.req[q], t[q].pc, t[q].victim, q \in M)
                                 /\ TokenOK(d, q, LeftBy(t, q), q \in M)
      /\ \A q \in Requests \ R : \A v, i : LaneOK(c, v, i, q) => LaneOK(d, v, i, q)
      /\ \A x \in Contexts : d.ctx[x] = c.ctx[x] /\ c.ctx[x].token \notin R => HolderOK(d, x)
  BY ElsewhereKeeps
<1>2. \A q \in R : /\ TicketOK(d.req[q], t[q].pc, t[q].victim, q \in M)
                   /\ TokenOK(d, q, LeftBy(t, q), q \in M)
  BY DEF TicketOK, TokenOK
<1>3. \A x \in Contexts : HolderOK(d, x)
  BY <1>1
<1>4. \A i \in 1 .. Len(w.batch) : w.batch[i] \in M => LaneOK(d, w, i, w.batch[i])
  BY <1>1 DEF Reservations, Aside
<1> QED
  BY <1>1, <1>2, <1>3, <1>4 DEF Reservations

(* The result counter, when one request's holdings change. *)
LEMMA ResultsOne ==
  ASSUME NEW c \in CoordinatorType, NEW d \in CoordinatorType, NEW before, NEW after, NEW r \in Requests,
         Results(c, before),
         \A q \in Requests : q # r => d.req[q].ticket = c.req[q].ticket
                                      /\ (Delivers(d.req[q]) <=> Delivers(c.req[q])),
         d.results = c.results - Release(c.req[r].ticket) + Release(d.req[r].ticket)
                       - Release(Delivers(c.req[r])) + Release(Delivers(d.req[r]))
                       - Release(before) + Release(after),
         d.results <= MaxResults
  PROVE  Results(d, after)
<1> DEFINE S == {q \in Requests : c.req[q].ticket}
           T == {q \in Requests : d.req[q].ticket}
           U == {q \in Requests : Delivers(c.req[q])}
           V == {q \in Requests : Delivers(d.req[q])}
<1>1. /\ S \in SUBSET Requests /\ T \in SUBSET Requests /\ \A q \in Requests : q # r => (q \in S <=> q \in T)
      /\ U \in SUBSET Requests /\ V \in SUBSET Requests /\ \A q \in Requests : q # r => (q \in U <=> q \in V)
  OBVIOUS
<1>2. /\ (r \in S <=> c.req[r].ticket) /\ (r \in T <=> d.req[r].ticket)
      /\ (r \in U <=> Delivers(c.req[r])) /\ (r \in V <=> Delivers(d.req[r]))
  OBVIOUS
<1>3. c.results = Cardinality(S) + Release(before) + Cardinality(U)
  BY DEF Results, Delivers
<1> HIDE DEF S, T, U, V
<1>4. /\ Cardinality(S) \in Nat /\ Cardinality(T) \in Nat
      /\ Cardinality(T) = Cardinality(S) - Release(r \in S) + Release(r \in T)
  BY <1>1, CountChange
<1>5. /\ Cardinality(U) \in Nat /\ Cardinality(V) \in Nat
      /\ Cardinality(V) = Cardinality(U) - Release(r \in U) + Release(r \in V)
  BY <1>1, CountChange
<1>6. /\ Release(r \in S) = Release(c.req[r].ticket) /\ Release(r \in T) = Release(d.req[r].ticket)
      /\ Release(r \in U) = Release(Delivers(c.req[r])) /\ Release(r \in V) = Release(Delivers(d.req[r]))
  BY <1>2 DEF Release
<1>7. \A b : Release(b) \in Int
  BY ReleaseCounts
<1>8. d.results = Cardinality(T) + Release(after) + Cardinality(V)
  BY <1>3, <1>4, <1>5, <1>6, <1>7
<1> QED
  BY <1>8 DEF Results, Delivers, T, V

(* It does not change when none does. *)
LEMMA ResultsSame ==
  ASSUME NEW c, NEW d, NEW running, Results(c, running),
         \A q \in Requests : d.req[q].ticket = c.req[q].ticket
                             /\ (Delivers(d.req[q]) <=> Delivers(c.req[q])),
         d.results = c.results
  PROVE  Results(d, running)
<1>1. {q \in Requests : d.req[q].ticket} = {q \in Requests : c.req[q].ticket}
  OBVIOUS
<1>2. {q \in Requests : d.req[q].result \notin {"none", "gone"}}
        = {q \in Requests : c.req[q].result \notin {"none", "gone"}}
  BY DEF Delivers
<1> QED
  BY <1>1, <1>2 DEF Results

(* A ticket passes from one request to another. *)
LEMMA ResultsMoved ==
  ASSUME NEW c \in CoordinatorType, NEW d \in CoordinatorType, NEW running, NEW r \in Requests, NEW v \in Requests,
         Results(c, running), r # v, ~c.req[r].ticket, c.req[v].ticket, d.req[r].ticket, ~d.req[v].ticket,
         \A q \in Requests : q \notin {r, v} => d.req[q].ticket = c.req[q].ticket,
         \A q \in Requests : Delivers(d.req[q]) <=> Delivers(c.req[q]),
         d.results = c.results
  PROVE  Results(d, running)
<1> DEFINE S == {q \in Requests : c.req[q].ticket}
           T == {q \in Requests : d.req[q].ticket}
<1>1. S \in SUBSET Requests /\ T \in SUBSET Requests /\ v \in S /\ r \notin S /\ T = (S \ {v}) \cup {r}
  OBVIOUS
<1> HIDE DEF S, T
<1>2. IsFiniteSet(S) /\ Cardinality(S) \in Nat
  BY <1>1, RequestsGrounded
<1>3. IsFiniteSet(S \ {v}) /\ Cardinality(S \ {v}) = Cardinality(S) - 1
  BY <1>1, <1>2, FS_RemoveElement
<1>4. Cardinality(T) = Cardinality(S \ {v}) + 1
  BY <1>1, <1>3, FS_AddElement
<1>5. Cardinality(T) = Cardinality(S)
  BY <1>2, <1>3, <1>4
<1>6. {q \in Requests : d.req[q].result \notin {"none", "gone"}}
        = {q \in Requests : c.req[q].result \notin {"none", "gone"}}
  BY DEF Delivers
<1> QED
  BY <1>5, <1>6 DEF Results, S, T

-----------------------------------------------------------------------------
(* Both layers together, and how requests may end.                         *)

Sound(b, c, s, w, L, staging, running) ==
  /\ Accounts(c, s, L, staging)
  /\ b => Reservations(c, s, w, L, running)

(* The time by which a hard deadline is judged. *)
When(r) == IF r \in LaneSet THEN worker.at ELSE now

(* From p to q a request goes on, or ends by the first cause there is.     *)
Decides(p, q, at) ==
  /\ p.state \in Terminal =>
       /\ q.spec = p.spec /\ q.state = p.state
       /\ q.cancel = p.cancel /\ q.superseded = p.superseded
  /\ p.state = "RUNNING" =>
       /\ q.spec = p.spec /\ q.state \in Terminal \cup {"RUNNING"}
       /\ (p.cancel => q.cancel) /\ (p.superseded => q.superseded)
       /\ (p.cancel => q.superseded = p.superseded)
       /\ p.superseded => q.state \in {"RUNNING", "SUPERSEDED"}
       /\ p.cancel /\ ~p.superseded => q.state \in {"RUNNING", "CANCELLED"}
       /\ q.state = "SUCCEEDED" /\ p.spec.freshness = "DROP_IF_LATE" =>
            ~DeadlineExpired(p.spec.deadline, at)
Decided(c, d) == \A r \in Requests : Decides(c.req[r], d.req[r], When(r))

(* What is decided stays decided over two steps. *)
LEMMA DecidedIsTransitive ==
  ASSUME NEW c, NEW d, NEW e, Decided(c, d), Decided(d, e)
  PROVE  Decided(c, e)
<1> SUFFICES ASSUME NEW r \in Requests PROVE Decides(c.req[r], e.req[r], When(r))
  BY DEF Decided
<1>1. Decides(c.req[r], d.req[r], When(r)) /\ Decides(d.req[r], e.req[r], When(r))
  BY DEF Decided
<1> QED
  BY <1>1 DEF Decides, Terminal

(* A step that eases decides nothing. *)
LEMMA EasesDecided ==
  ASSUME NEW c, NEW d, Eases(c, d)
  PROVE  Decided(c, d)
BY DEF Eases, Eased, Decided, Decides, Terminal

(* Only requests that are not running change their course. *)
LEMMA OthersDecided ==
  ASSUME NEW c, NEW d, NEW R,
         \A q \in Requests : q \in R => c.req[q].state \in {"NONE", "QUEUED"},
         \A q \in Requests : q \notin R => SameCore(c.req[q], d.req[q])
  PROVE  Decided(c, d)
<1> SUFFICES ASSUME NEW r \in Requests PROVE Decides(c.req[r], d.req[r], When(r))
  BY DEF Decided
<1>1. CASE r \in R
  BY <1>1 DEF Decides, Terminal
<1>2. CASE r \notin R
  BY <1>2 DEF SameCore, SameCourse, Decides, Terminal
<1> QED
  BY <1>1, <1>2

(* The end of a running request is decided by its first cause. *)
LEMMA EndDecided ==
  ASSUME NEW c, NEW d, NEW r \in Requests, c.req[r].state = "RUNNING", EndedAs(c, d, r, When(r))
  PROVE  Decided(c, d)
<1> SUFFICES ASSUME NEW q \in Requests PROVE Decides(c.req[q], d.req[q], When(q))
  BY DEF Decided
<1>1. CASE q = r
  BY <1>1 DEF EndedAs, Decides, Terminal, Hard, Late
<1>2. CASE q # r
  BY <1>2 DEF EndedAs, Only, Decides, Terminal
<1> QED
  BY <1>1, <1>2

(* A waiting request holds its context, if it has one. *)
LEMMA WaitingHolds ==
  ASSUME NEW c \in CoordinatorType, NEW s, NEW w, NEW L, NEW running, Reservations(c, s, w, L, running),
         NEW r \in Requests, c.req[r].state = "QUEUED"
  PROVE  HasReservation(c, r)
<1>1. TokenOK(c, r, LeftBy(s, r), r \in L)
  BY DEF Reservations
<1> QED
  BY <1>1 DEF TokenOK, HasReservation, UnreserveOK

(* What Unreserve does to a context that is only reserved. *)
LEMMA UnreserveFrees ==
  ASSUME NEW x \in ContextType, NEW r, UnreserveOK(x, r)
  PROVE  Unreserve(x, r).token = NoRequest /\ Unreserve(x, r).state \in {"READY", "CANCELLED"}
BY DEF Unreserve, ContextType

(* A waiting request gives back what it holds, and ends or is refused.     *)
LEMMA LetsGoKeeps ==
  ASSUME NEW c \in CoordinatorType, NEW d \in CoordinatorType, NEW s, NEW t, NEW w, NEW L \in SUBSET Requests,
         NEW running, Reservations(c, s, w, L, running),
         NEW r \in Requests, r \notin L, c.req[r].state = "QUEUED", LetsGo(c, d, r),
         d.req[r].state \in Terminal \cup {"NONE"}, t[r].pc \in {"accepted", "refused"},
         Delivers(d.req[r]) <=> Delivers(c.req[r]),
         \A q \in Requests : q # r => t[q] = s[q],
         \A q \in Requests : q # r /\ c.req[q].token /\ LeftBy(s, q) => LeftBy(t, q)
  PROVE  Reservations(d, t, w, L, running)
<1>0. NoRequest \notin Requests /\ NoContext \notin Contexts
  BY RequestsAreNumbers, RequestConstants
<1>1. /\ \A q \in Requests : q # r => d.req[q] = c.req[q]
      /\ ~d.req[r].ticket /\ ~d.req[r].token
      /\ d.results = c.results - Release(c.req[r].ticket)
      /\ \A z \in Contexts : d.ctx[z] = IF Bound(c, r) /\ z = c.req[r].spec.context
                                        THEN Unreserve(c.ctx[z], r) ELSE c.ctx[z]
  BY DEF LetsGo, Only
<1>2. HasReservation(c, r)
  BY WaitingHolds
<1>3. TokenOK(c, r, LeftBy(s, r), r \in L)
  BY DEF Reservations
<1>4. Bound(c, r) =>
        LET x == c.req[r].spec.context
        IN  /\ x \in Contexts /\ c.ctx[x].token = r
            /\ d.ctx[x].token = NoRequest /\ d.ctx[x].state \in {"READY", "CANCELLED"}
  <2> HAVE Bound(c, r)
  <2>1. c.req[r].spec.context \in Contexts /\ ContextOf(c, r) \in ContextType
    BY Typed
  <2>2. UnreserveOK(ContextOf(c, r), r) /\ ContextOf(c, r).token = r
    BY <1>2, <1>3 DEF HasReservation, TokenOK
  <2>3. d.ctx[c.req[r].spec.context] = Unreserve(ContextOf(c, r), r)
    BY <1>1, <2>1 DEF ContextOf
  <2> QED
    BY <2>1, <2>2, <2>3, UnreserveFrees DEF ContextOf
<1>5. Elsewhere(c, d, {r})
  BY <1>1, <1>4 DEF Elsewhere, SameStay, SameHold
<1>6. ASSUME NEW x \in Contexts, d.ctx[x] # c.ctx[x] \/ c.ctx[x].token \in {r}
      PROVE  HolderOK(d, x)
  <2>1. CASE c.ctx[x].token = r
    <3>1. c.req[r].spec.context = x
      <4>1. HolderOK(c, x)
        BY DEF Reservations
      <4> QED
        BY <1>0, <2>1, <4>1 DEF HolderOK
    <3>2. Bound(c, r)
      BY <1>0, <3>1 DEF Bound
    <3> QED
      BY <1>4, <3>1, <3>2 DEF HolderOK
  <2>2. CASE d.ctx[x] # c.ctx[x]
    BY <1>1, <1>4, <2>2 DEF HolderOK
  <2> QED
    BY <1>6, <2>1, <2>2
<1>7. TicketOK(d.req[r], t[r].pc, t[r].victim, FALSE) /\ TokenOK(d, r, LeftBy(t, r), FALSE)
  BY <1>1 DEF TicketOK, TokenOK, Terminal
<1>8. Results(d, running)
  <2>1. Results(c, running)
    BY DEF Reservations
  <2>2. /\ c.results \in Int /\ MaxResults \in Nat /\ c.results <= MaxResults
        /\ Release(c.req[r].ticket) \in {0, 1} /\ Release(d.req[r].ticket) = 0
        /\ Release(Delivers(d.req[r])) = Release(Delivers(c.req[r]))
        /\ Release(Delivers(c.req[r])) \in Int /\ Release(running) \in Int
    BY <1>1, <2>1, RequestConstants DEF CoordinatorType, Results, Release
  <2>3. d.results <= MaxResults
    BY <1>1, <2>2
  <2>4. d.results = c.results - Release(c.req[r].ticket) + Release(d.req[r].ticket)
                    - Release(Delivers(c.req[r])) + Release(Delivers(d.req[r]))
                    - Release(running) + Release(running)
    BY <1>1, <2>2
  <2> QED
    BY <1>1, <2>1, <2>3, <2>4, ResultsOne
<1>9. Aside(c, s, t, L, L, {r}) /\ {r} \in SUBSET Requests
  BY DEF Aside
<1>10. \A q \in {r} : /\ q \notin L /\ TicketOK(d.req[q], t[q].pc, t[q].victim, FALSE)
                      /\ TokenOK(d, q, LeftBy(t, q), FALSE)
  BY <1>7
<1>11. \A x \in Contexts : d.ctx[x] # c.ctx[x] \/ c.ctx[x].token \in {r} => HolderOK(d, x)
  BY <1>6
<1> QED
  BY <1>5, <1>8, <1>9, <1>10, <1>11, AwayKeeps

(* Nothing about outputs or contexts changes. *)
LEMMA HoldsSame ==
  ASSUME NEW c \in CoordinatorType, NEW d \in CoordinatorType, NEW s, NEW w, NEW L \in SUBSET Requests,
         NEW running, Reservations(c, s, w, L, running),
         \A q \in Requests : SameStay(c.req[q], d.req[q]) /\ (Delivers(d.req[q]) <=> Delivers(c.req[q])),
         d.ctx = c.ctx, d.results = c.results
  PROVE  Reservations(d, s, w, L, running)
<1>1. Elsewhere(c, d, {})
  BY DEF Elsewhere
<1>2. Results(d, running)
  BY ResultsSame DEF Reservations, SameStay, SameHold
<1>3. Aside(c, s, s, L, L, {}) /\ {} \in SUBSET Requests
  BY DEF Aside
<1>4. \A x \in Contexts : d.ctx[x] # c.ctx[x] \/ c.ctx[x].token \in {} => HolderOK(d, x)
  OBVIOUS
<1>5. \A q \in {} : /\ q \notin L /\ TicketOK(d.req[q], s[q].pc, s[q].victim, FALSE)
                    /\ TokenOK(d, q, LeftBy(s, q), FALSE)
  OBVIOUS
<1> QED
  BY <1>1, <1>2, <1>3, <1>4, <1>5, AwayKeeps

(* The context of one request is cancelled: what runs goes on to run. *)
LEMMA CancelledKeeps ==
  ASSUME NEW c \in CoordinatorType, NEW d \in CoordinatorType, NEW s, NEW w, NEW L \in SUBSET Requests,
         NEW running, Reservations(c, s, w, L, running), NEW x,
         \A q \in Requests : SameStay(c.req[q], d.req[q]) /\ (Delivers(d.req[q]) <=> Delivers(c.req[q])),
         \A z \in Contexts : z # x => d.ctx[z] = c.ctx[z],
         x \in Contexts => /\ d.ctx[x].token = c.ctx[x].token /\ d.ctx[x].call = c.ctx[x].call
                           /\ d.ctx[x].state = IF c.ctx[x].state = "RUNNING" THEN "RUNNING" ELSE "CANCELLED",
         d.results = c.results
  PROVE  Reservations(d, s, w, L, running)
<1>1. \A q \in Requests : /\ d.req[q].spec = c.req[q].spec /\ d.req[q].state = c.req[q].state
                          /\ d.req[q].ticket = c.req[q].ticket /\ d.req[q].token = c.req[q].token
                          /\ (Bound(d, q) <=> Bound(c, q))
  BY DEF SameStay, SameHold, Bound
<1>2. \A q \in Requests : Bound(c, q) =>
        /\ ContextOf(d, q).token = ContextOf(c, q).token /\ ContextOf(d, q).call = ContextOf(c, q).call
        /\ \/ ContextOf(d, q).state = ContextOf(c, q).state
           \/ ContextOf(d, q).state = "CANCELLED" /\ ContextOf(c, q).state # "RUNNING"
  <2> TAKE q \in Requests
  <2> HAVE Bound(c, q)
  <2> DEFINE z == c.req[q].spec.context
  <2>1. z \in Contexts
    BY Typed
  <2>2. ContextOf(d, q) = d.ctx[z] /\ ContextOf(c, q) = c.ctx[z]
    BY <1>1 DEF ContextOf
  <2> HIDE DEF z
  <2>3. CASE z = x
    BY <2>1, <2>2, <2>3
  <2>4. CASE z # x
    BY <2>1, <2>2, <2>4
  <2> QED
    BY <2>3, <2>4
<1>3. ASSUME NEW q \in Requests
      PROVE  /\ TicketOK(d.req[q], s[q].pc, s[q].victim, q \in L)
             /\ TokenOK(d, q, LeftBy(s, q), q \in L)
  <2>1. TicketOK(c.req[q], s[q].pc, s[q].victim, q \in L) /\ TokenOK(c, q, LeftBy(s, q), q \in L)
    BY DEF Reservations
  <2>2. TicketOK(d.req[q], s[q].pc, s[q].victim, q \in L)
    BY <1>1, <2>1 DEF TicketOK
  <2>3. TokenOK(d, q, LeftBy(s, q), q \in L)
    BY <1>1, <1>2, <2>1 DEF TokenOK
  <2> QED
    BY <2>2, <2>3
<1>4. ASSUME NEW z \in Contexts PROVE HolderOK(d, z)
  <2>1. HolderOK(c, z) /\ c.ctx[z].token \in Requests \cup {NoRequest}
    BY Typed DEF Reservations, ContextType
  <2>2. /\ d.ctx[z].token = c.ctx[z].token
        /\ d.ctx[z].state \in {"QUEUED", "RUNNING"} => c.ctx[z].state \in {"QUEUED", "RUNNING"}
    OBVIOUS
  <2> QED
    BY <1>1, <2>1, <2>2 DEF HolderOK
<1>5. ASSUME NEW i \in 1 .. Len(w.batch), w.batch[i] \in L PROVE LaneOK(d, w, i, w.batch[i])
  <2> DEFINE q == w.batch[i]
  <2>1. LaneOK(c, w, i, q) /\ q \in Requests
    BY <1>5 DEF Reservations
  <2> HIDE DEF q
  <2>2. CASE ~Bound(c, q)
    BY <1>1, <2>1, <2>2 DEF LaneOK, q
  <2>3. CASE Bound(c, q)
    <3>1. /\ Reserved(c, q) => Reserved(d, q)
          /\ Runs(c, q) => Runs(d, q)
          /\ Settled(c, q) => Settled(d, q)
          /\ Released(c, q) => Released(d, q)
      BY <1>1, <1>2, <2>1, <2>3 DEF Reserved, Runs, Settled, Released
    <3>2. LaneBound(c, w, i, q)
      BY <2>1, <2>3 DEF LaneOK
    <3>3. LaneBound(d, w, i, q)
      BY <1>1, <2>1, <3>1, <3>2 DEF LaneBound
    <3> QED
      BY <1>1, <2>1, <2>3, <3>3 DEF LaneOK, q
  <2> QED
    BY <2>2, <2>3
<1>6. Results(d, running)
  BY <1>1, ResultsSame DEF Reservations
<1> QED
  BY <1>3, <1>4, <1>5, <1>6 DEF Reservations

-----------------------------------------------------------------------------
(* Requests leave the queue together.                                      *)

Leaves(c, d, r, state) ==
  Left(c, d, r, state) /\ Only(c, d, r) /\ (HasReservation(c, r) => LetsGo(c, d, r))

(* What has a place in the queue has its claims. *)
LEMMA QueuedClaims ==
  ASSUME NEW c, NEW s, NEW L, NEW staging, Accounts(c, s, L, staging), NEW r \in Queued(c)
  PROVE  /\ r \in Requests /\ s[r].pc = "accepted" /\ s[r].victim = NoRequest
         /\ c.req[r].state = "QUEUED" /\ Claims(c.req[r]) /\ ~HeldBy(s, r)
         /\ r \notin L /\ ~c.req[r].cancel /\ ~c.req[r].superseded /\ c.req[r].result = "none"
         /\ c.req[r].bytes <= c.bytes
<1>1. /\ c \in CoordinatorType /\ s \in SubmitType /\ L \in SUBSET Requests /\ staging \in Nat
      /\ \A q \in Requests : Placed(c.req[q], s[q].pc, s[q].victim, q \in L)
      /\ VictimsOK(c, s) /\ QueueOK(c, s)
      /\ Counted(c, staging) /\ Queued(c) \subseteq Requests
  BY Parts
<1>2. r \in Requests /\ s[r].pc = "accepted" /\ c.req[r].state = "QUEUED" /\ ~HeldBy(s, r)
  BY <1>1 DEF QueueOK
<1>3. Placed(c.req[r], s[r].pc, s[r].victim, r \in L)
  BY <1>1, <1>2
<1>4. s[r].victim = NoRequest
  BY <1>1, <1>2 DEF VictimsOK
<1>5. c.req[r].bytes <= c.bytes
  BY <1>1, <1>2, BytesIncluded
<1> QED
  BY <1>2, <1>3, <1>4, <1>5 DEF Placed, Terminal

(* A request that leaves the queue keeps the invariant. *)
LEMMA LeaveSound ==
  ASSUME NEW b, NEW c, NEW s, NEW w, NEW L, NEW staging, NEW running,
         Sound(b, c, s, w, L, staging, running), NEW r \in Queued(c), NEW d,
         NEW state \in Terminal \ {"SUCCEEDED"}, Leaves(c, d, r, state)
  PROVE  Sound(b, d, s, w, L, staging, running) /\ Decided(c, d)
<1>0. Accounts(c, s, L, staging)
  BY DEF Sound
<1>1. /\ r \in Requests /\ s[r].pc = "accepted" /\ s[r].victim = NoRequest
      /\ c.req[r].state = "QUEUED" /\ ~HeldBy(s, r) /\ r \notin L
  BY <1>0, QueuedClaims
<1>2. c \in CoordinatorType /\ s \in SubmitType /\ L \in SUBSET Requests /\ ListsOK(c, s)
  BY <1>0, Parts
<1>3. Moves(s, s, r, "accepted", NoRequest)
  BY <1>1, <1>2 DEF Moves
<1>4. /\ d \in CoordinatorType /\ \A q \in Requests : q # r => SameCore(c.req[q], d.req[q])
      /\ d.req[r].spec = c.req[r].spec /\ d.req[r].result = c.req[r].result
      /\ d.req[r].state = state /\ Clear(d.req[r])
      /\ d.queue = Without(c.queue, {r}) /\ d.inflight = c.inflight
      /\ d.replacements = c.replacements
      /\ d.requests = c.requests - Release(c.req[r].counted)
      /\ d.bytes = c.bytes - c.req[r].bytes
      /\ d.waiters = c.waiters - Release(c.req[r].claim)
  BY DEF Leaves, Left
<1>5. c.replacements = c.replacements \ {r}
  BY <1>1, <1>2 DEF ListsOK
<1>6. Accounts(d, s, L, staging)
  BY <1>0, <1>1, <1>3, <1>4, <1>5, LeaveKeeps
<1>7. ASSUME b PROVE Reservations(d, s, w, L, running)
  <2>1. Reservations(c, s, w, L, running)
    BY <1>7 DEF Sound
  <2>2. HasReservation(c, r)
    BY <1>1, <1>2, <2>1, WaitingHolds
  <2>3. LetsGo(c, d, r)
    BY <2>2 DEF Leaves
  <2>4. d.req[r].state \in Terminal \cup {"NONE"} /\ (Delivers(d.req[r]) <=> Delivers(c.req[r]))
        /\ s[r].pc \in {"accepted", "refused"}
    BY <1>1, <1>4 DEF Delivers
  <2> QED
    BY <1>1, <1>2, <1>4, <2>1, <2>3, <2>4, LetsGoKeeps
<1>8. Decided(c, d)
  <2>1. \A q \in Requests : q \in {r} => c.req[q].state \in {"NONE", "QUEUED"}
    BY <1>1
  <2>2. \A q \in Requests : q \notin {r} => SameCore(c.req[q], d.req[q])
    BY <1>4
  <2> QED
    BY <2>1, <2>2, OthersDecided
<1> QED
  BY <1>6, <1>7, <1>8 DEF Sound

(* Those in X have left. *)
HaveLeft(c, d, X, state) ==
  /\ Queued(d) = Queued(c) \ X
  /\ \A q \in Requests : q \notin X => d.req[q] = c.req[q]
  /\ \A q \in X : d.req[q].state = state /\ d.req[q].spec = c.req[q].spec
  /\ d.inflight = c.inflight /\ d.replacements = c.replacements /\ d.stopping = c.stopping

(* One more of X has left the queue. *)
LEMMA OneMoreLeaves ==
  ASSUME NEW b, NEW c, NEW d, NEW s, NEW w, NEW L, NEW staging, NEW running, NEW X, NEW r \in X,
         X \subseteq Queued(c), X \subseteq Requests, NEW state \in Terminal \ {"SUCCEEDED"}, NEW e,
         Sound(b, d, s, w, L, staging, running), Decided(c, d), HaveLeft(c, d, X \ {r}, state),
         Leaves(d, e, r, state)
  PROVE  e \in CoordinatorType /\ Sound(b, e, s, w, L, staging, running) /\ Decided(c, e) /\ HaveLeft(c, e, X, state)
<1>1. r \in Queued(d)
  BY DEF HaveLeft
<1>2. Sound(b, e, s, w, L, staging, running) /\ Decided(d, e)
  BY <1>1, LeaveSound
<1>3. Decided(c, e)
  BY <1>2, DecidedIsTransitive
<1>0. Accounts(d, s, L, staging)
  BY DEF Sound
<1>6. d \in CoordinatorType /\ r \in Requests
  BY <1>0, <1>1, QueuedClaims, Parts
<1>4. e \in CoordinatorType /\ Queued(e) = Queued(d) \ {r}
  <2>1. e \in CoordinatorType /\ e.queue = Without(d.queue, {r})
    BY DEF Leaves, Left
  <2>2. d.queue \in Seq(Requests)
    BY <1>6 DEF CoordinatorType
  <2> QED
    BY <2>1, <2>2, WithoutMembers, QueuedMembers
<1>5. /\ \A q \in Requests : q # r => e.req[q] = d.req[q]
      /\ e.req[r].state = state /\ e.req[r].spec = d.req[r].spec
      /\ e.inflight = d.inflight /\ e.replacements = d.replacements /\ e.stopping = d.stopping
  BY DEF Leaves, Left, Only
<1>7. d.req[r] = c.req[r]
  BY <1>6 DEF HaveLeft
<1>9. HaveLeft(c, e, X, state)
  BY <1>4, <1>5, <1>7 DEF HaveLeft
<1> QED
  BY <1>2, <1>3, <1>4, <1>9

-----------------------------------------------------------------------------
(* The folds over requests keep what their operations keep.                *)

RetireOp(state, r, d) == Retired(d, r, state)
RetireFold == INSTANCE Folding WITH Op <- RetireOp, Choose <- AnyOf
WithdrawOp(state, r, d) == Withdrawn(d, r, state)
WithdrawFold == INSTANCE Folding WITH Op <- WithdrawOp, Choose <- AnyOf
SettleOp(p, r, d) == SettlePending(d, r)
SettleFold == INSTANCE Folding WITH Op <- SettleOp, Choose <- AnyOf
LaneOp(p, r, d) == RetireLane(d, r)
LaneFold == INSTANCE Folding WITH Op <- LaneOp, Choose <- AnyOf

(* Requests that leave the queue together leave one by one. *)
LEMMA RetireEach ==
  ASSUME NEW c, NEW S \in SUBSET Requests, NEW state, NEW G, c \in G[{}],
         \A X \in SUBSET S : \A r \in X : \A d \in G[X \ {r}] : Retired(d, r, state) \in G[X]
  PROVE  RetireAll(c, S, state) \in G[S]
<1>1. \A X \in SUBSET S : X # {} =>
           /\ X \ {AnyOf(X)} \in SUBSET S
           /\ \A d \in G[X \ {AnyOf(X)}] : RetireOp(state, AnyOf(X), d) \in G[X]
  BY DEF RetireOp, AnyOf
<1>2. \A X \in SUBSET S : X = {} => c \in G[X]
  OBVIOUS
<1>3. (SUBSET S) \in SUBSET (SUBSET S) /\ S \in SUBSET S
  OBVIOUS
<1>4. RetireFold!Grounded(S) /\ RetireFold!Chooses(S)
  BY RequestsGrounded DEF SumFold!Grounded, SumFold!Chooses, RetireFold!Grounded, RetireFold!Chooses
<1>5. RetireFold!Fold(state, c, S)[S] \in G[S]
  BY <1>1, <1>2, <1>3, <1>4, RetireFold!Keeps
<1>6. RetireAll(c, S, state) = RetireFold!Fold(state, c, S)[S]
  BY DEF RetireAll, FoldSet, MapThenFoldSet, RetireFold!Fold, RetireFold!Iteration, RetireOp, AnyOf
<1> QED
  BY <1>5, <1>6

(* Requests that are withdrawn together leave one by one. *)
LEMMA WithdrawEach ==
  ASSUME NEW c, NEW S \in SUBSET Requests, NEW state, NEW G, c \in G[{}],
         \A X \in SUBSET S : \A r \in X : \A d \in G[X \ {r}] : Withdrawn(d, r, state) \in G[X]
  PROVE  WithdrawAll(c, S, state) \in G[S]
<1>1. \A X \in SUBSET S : X # {} =>
           /\ X \ {AnyOf(X)} \in SUBSET S
           /\ \A d \in G[X \ {AnyOf(X)}] : WithdrawOp(state, AnyOf(X), d) \in G[X]
  BY DEF WithdrawOp, AnyOf
<1>2. \A X \in SUBSET S : X = {} => c \in G[X]
  OBVIOUS
<1>3. (SUBSET S) \in SUBSET (SUBSET S) /\ S \in SUBSET S
  OBVIOUS
<1>4. WithdrawFold!Grounded(S) /\ WithdrawFold!Chooses(S)
  BY RequestsGrounded DEF SumFold!Grounded, SumFold!Chooses, WithdrawFold!Grounded, WithdrawFold!Chooses
<1>5. WithdrawFold!Fold(state, c, S)[S] \in G[S]
  BY <1>1, <1>2, <1>3, <1>4, WithdrawFold!Keeps
<1>6. WithdrawAll(c, S, state) = WithdrawFold!Fold(state, c, S)[S]
  BY DEF WithdrawAll, FoldSet, MapThenFoldSet, WithdrawFold!Fold, WithdrawFold!Iteration, WithdrawOp, AnyOf
<1> QED
  BY <1>5, <1>6

(* Results on the device settle one by one, and so do the lanes of a run.  *)
LEMMA SettleEach ==
  ASSUME NEW c, NEW S \in SUBSET Requests, NEW G, c \in G[{}],
         \A X \in SUBSET S : \A r \in X : \A d \in G[X \ {r}] : SettlePending(d, r) \in G[X]
  PROVE  FoldSet(LAMBDA r, e : SettlePending(e, r), c, S) \in G[S]
<1>1. \A X \in SUBSET S : X # {} =>
           /\ X \ {AnyOf(X)} \in SUBSET S
           /\ \A d \in G[X \ {AnyOf(X)}] : SettleOp(0, AnyOf(X), d) \in G[X]
  BY DEF SettleOp, AnyOf
<1>2. \A X \in SUBSET S : X = {} => c \in G[X]
  OBVIOUS
<1>3. (SUBSET S) \in SUBSET (SUBSET S) /\ S \in SUBSET S
  OBVIOUS
<1>4. SettleFold!Grounded(S) /\ SettleFold!Chooses(S)
  BY RequestsGrounded DEF SumFold!Grounded, SumFold!Chooses, SettleFold!Grounded, SettleFold!Chooses
<1>5. SettleFold!Fold(0, c, S)[S] \in G[S]
  BY <1>1, <1>2, <1>3, <1>4, SettleFold!Keeps
<1>6. FoldSet(LAMBDA r, e : SettlePending(e, r), c, S) = SettleFold!Fold(0, c, S)[S]
  BY DEF FoldSet, MapThenFoldSet, SettleFold!Fold, SettleFold!Iteration, SettleOp, AnyOf
<1> QED
  BY <1>5, <1>6

(* The lanes of a run are retired one by one. *)
LEMMA LaneEach ==
  ASSUME NEW c, NEW S \in SUBSET Requests, NEW G, c \in G[{}],
         \A X \in SUBSET S : \A r \in X : \A d \in G[X \ {r}] : RetireLane(d, r) \in G[X]
  PROVE  FoldSet(LAMBDA r, e : RetireLane(e, r), c, S) \in G[S]
<1>1. \A X \in SUBSET S : X # {} =>
           /\ X \ {AnyOf(X)} \in SUBSET S
           /\ \A d \in G[X \ {AnyOf(X)}] : LaneOp(0, AnyOf(X), d) \in G[X]
  BY DEF LaneOp, AnyOf
<1>2. \A X \in SUBSET S : X = {} => c \in G[X]
  OBVIOUS
<1>3. (SUBSET S) \in SUBSET (SUBSET S) /\ S \in SUBSET S
  OBVIOUS
<1>4. LaneFold!Grounded(S) /\ LaneFold!Chooses(S)
  BY RequestsGrounded DEF SumFold!Grounded, SumFold!Chooses, LaneFold!Grounded, LaneFold!Chooses
<1>5. LaneFold!Fold(0, c, S)[S] \in G[S]
  BY <1>1, <1>2, <1>3, <1>4, LaneFold!Keeps
<1>6. FoldSet(LAMBDA r, e : RetireLane(e, r), c, S) = LaneFold!Fold(0, c, S)[S]
  BY DEF FoldSet, MapThenFoldSet, LaneFold!Fold, LaneFold!Iteration, LaneOp, AnyOf
<1> QED
  BY <1>5, <1>6

(* All in S leave the queue. *)
LEMMA RetireAllSound ==
  ASSUME NEW b, NEW c, NEW s, NEW w, NEW L, NEW staging, NEW running,
         Sound(b, c, s, w, L, staging, running), NEW S, S \subseteq Queued(c),
         NEW state \in Terminal \ {"SUCCEEDED"}
  PROVE  LET d == RetireAll(c, S, state)
         IN  /\ d \in CoordinatorType /\ Sound(b, d, s, w, L, staging, running)
             /\ Decided(c, d) /\ HaveLeft(c, d, S, state)
<1> DEFINE G == [X \in SUBSET S |-> {d \in CoordinatorType :
                   /\ Sound(b, d, s, w, L, staging, running)
                   /\ Decided(c, d) /\ HaveLeft(c, d, X, state)}]
<1>0. Accounts(c, s, L, staging)
  BY DEF Sound
<1>1. c \in CoordinatorType /\ Queued(c) \subseteq Requests
  BY <1>0, Parts
<1>2. S \in SUBSET Requests
  BY <1>1
<1>3. c \in G[{}]
  <2>1. HaveLeft(c, c, {}, state)
    BY DEF HaveLeft
  <2>2. Decided(c, c)
    BY DEF Decided, Decides, Terminal
  <2> QED
    BY <1>1, <2>1, <2>2
<1>4. ASSUME NEW X \in SUBSET S, NEW r \in X, NEW d \in G[X \ {r}]
      PROVE  Retired(d, r, state) \in G[X]
  <2>1. /\ d \in CoordinatorType /\ Sound(b, d, s, w, L, staging, running)
        /\ Decided(c, d) /\ HaveLeft(c, d, X \ {r}, state)
    OBVIOUS
  <2>2. r \in Queued(d) /\ Accounts(d, s, L, staging)
    BY <2>1 DEF HaveLeft, Sound
  <2>3. r \in Requests /\ d.req[r].budget /\ d.req[r].bytes <= d.bytes
    BY <2>2, QueuedClaims DEF Claims
  <2>4. state \in States
    BY DEF States
  <2> DEFINE e == Retired(d, r, state)
  <2>5. Leaves(d, e, r, state)
    BY <2>1, <2>3, <2>4, RetiredEffect DEF Leaves
  <2> HIDE DEF e
  <2>6. X \subseteq Queued(c) /\ X \subseteq Requests
    BY <1>2
  <2>7. e \in CoordinatorType /\ Sound(b, e, s, w, L, staging, running) /\ Decided(c, e) /\ HaveLeft(c, e, X, state)
    BY <2>1, <2>5, <2>6, OneMoreLeaves
  <2> QED
    BY <2>7 DEF e
<1> HIDE DEF G
<1>5. RetireAll(c, S, state) \in G[S]
  BY <1>2, <1>3, <1>4, RetireEach
<1> QED
  BY <1>5 DEF G

(* All in S leave the queue, cancelled. *)
LEMMA WithdrawAllSound ==
  ASSUME NEW b, NEW c, NEW s, NEW w, NEW L, NEW staging, NEW running,
         Sound(b, c, s, w, L, staging, running), NEW S, S \subseteq Queued(c),
         NEW state \in Terminal \ {"SUCCEEDED"}
  PROVE  LET d == WithdrawAll(c, S, state)
         IN  /\ d \in CoordinatorType /\ Sound(b, d, s, w, L, staging, running)
             /\ Decided(c, d) /\ HaveLeft(c, d, S, state)
<1> DEFINE G == [X \in SUBSET S |-> {d \in CoordinatorType :
                   /\ Sound(b, d, s, w, L, staging, running)
                   /\ Decided(c, d) /\ HaveLeft(c, d, X, state)}]
<1>0. Accounts(c, s, L, staging)
  BY DEF Sound
<1>1. c \in CoordinatorType /\ Queued(c) \subseteq Requests
  BY <1>0, Parts
<1>2. S \in SUBSET Requests
  BY <1>1
<1>3. c \in G[{}]
  <2>1. HaveLeft(c, c, {}, state)
    BY DEF HaveLeft
  <2>2. Decided(c, c)
    BY DEF Decided, Decides, Terminal
  <2> QED
    BY <1>1, <2>1, <2>2
<1>4. ASSUME NEW X \in SUBSET S, NEW r \in X, NEW d \in G[X \ {r}]
      PROVE  Withdrawn(d, r, state) \in G[X]
  <2>1. /\ d \in CoordinatorType /\ Sound(b, d, s, w, L, staging, running)
        /\ Decided(c, d) /\ HaveLeft(c, d, X \ {r}, state)
    OBVIOUS
  <2>2. r \in Queued(d) /\ Accounts(d, s, L, staging)
    BY <2>1 DEF HaveLeft, Sound
  <2>3. r \in Requests /\ d.req[r].budget /\ d.req[r].bytes <= d.bytes
    BY <2>2, QueuedClaims DEF Claims
  <2>4. state \in States
    BY DEF States
  <2> DEFINE e == Withdrawn(d, r, state)
  <2>5. Leaves(d, e, r, state)
    BY <2>1, <2>3, <2>4, WithdrawnEffect DEF Leaves
  <2> HIDE DEF e
  <2>6. X \subseteq Queued(c) /\ X \subseteq Requests
    BY <1>2
  <2>7. e \in CoordinatorType /\ Sound(b, e, s, w, L, staging, running) /\ Decided(c, e) /\ HaveLeft(c, e, X, state)
    BY <2>1, <2>5, <2>6, OneMoreLeaves
  <2> QED
    BY <2>7 DEF e
<1> HIDE DEF G
<1>5. WithdrawAll(c, S, state) \in G[S]
  BY <1>2, <1>3, <1>4, WithdrawEach
<1> QED
  BY <1>5 DEF G
(* Those that are late leave the queue. *)
LEMMA ExpireSound ==
  ASSUME NEW b, NEW c, NEW s, NEW w, NEW L, NEW staging, NEW running,
         Sound(b, c, s, w, L, staging, running)
  PROVE  LET d == Expire(c)
         IN  /\ d \in CoordinatorType /\ Sound(b, d, s, w, L, staging, running)
             /\ Decided(c, d) /\ HaveLeft(c, d, Expired(c), "FAILED")
<1>1. Expired(c) \subseteq Queued(c) /\ "FAILED" \in Terminal \ {"SUCCEEDED"}
  BY DEF Expired, Terminal
<1> QED
  BY <1>1, RetireAllSound DEF Expire

-----------------------------------------------------------------------------
(* Reservations under the steps that are left.                             *)

(* Only the count of results changes. *)
LEMMA HoldsCounted ==
  ASSUME NEW c \in CoordinatorType, NEW d \in CoordinatorType, NEW s, NEW w, NEW L \in SUBSET Requests,
         NEW running, Reservations(c, s, w, L, running), NEW after,
         \A q \in Requests : SameStay(c.req[q], d.req[q]), d.ctx = c.ctx, Results(d, after)
  PROVE  Reservations(d, s, w, L, after)
<1>1. Elsewhere(c, d, {})
  BY DEF Elsewhere
<1>3. Aside(c, s, s, L, L, {}) /\ {} \in SUBSET Requests
  BY DEF Aside
<1>4. \A x \in Contexts : d.ctx[x] # c.ctx[x] \/ c.ctx[x].token \in {} => HolderOK(d, x)
  OBVIOUS
<1>5. \A q \in {} : /\ q \notin L /\ TicketOK(d.req[q], s[q].pc, s[q].victim, FALSE)
                    /\ TokenOK(d, q, LeftBy(s, q), FALSE)
  OBVIOUS
<1> QED
  BY <1>1, <1>3, <1>4, <1>5, AwayKeeps

(* Where a submission stands changes, and nothing that is held. *)
LEMMA HoldsMoved ==
  ASSUME NEW c \in CoordinatorType, NEW d \in CoordinatorType, NEW s, NEW t, NEW w, NEW L \in SUBSET Requests,
         NEW running, Reservations(c, s, w, L, running),
         \A q \in Requests : SameStay(c.req[q], d.req[q]) /\ (Delivers(d.req[q]) <=> Delivers(c.req[q])),
         d.ctx = c.ctx, d.results = c.results,
         NEW r \in Requests, r \notin L, c.req[r].state = "QUEUED",
         TicketOK(c.req[r], t[r].pc, t[r].victim, FALSE), Aside(c, s, t, L, L, {r})
  PROVE  Reservations(d, t, w, L, running)
<1>0. NoRequest \notin Requests
  BY RequestsAreNumbers
<1>1. Elsewhere(c, d, {r}) /\ {r} \in SUBSET Requests
  BY DEF Elsewhere
<1>2. Results(d, running)
  BY ResultsSame DEF Reservations, SameStay, SameHold
<1>3. \A q \in Requests : /\ d.req[q].spec = c.req[q].spec /\ d.req[q].state = c.req[q].state
                          /\ d.req[q].ticket = c.req[q].ticket /\ d.req[q].token = c.req[q].token
  BY DEF SameStay, SameHold
<1>4. TicketOK(d.req[r], t[r].pc, t[r].victim, FALSE) /\ TokenOK(d, r, LeftBy(t, r), FALSE)
  <2>1. TokenOK(c, r, LeftBy(s, r), r \in L)
    BY DEF Reservations
  <2>2. TicketOK(d.req[r], t[r].pc, t[r].victim, FALSE)
    BY <1>3 DEF TicketOK
  <2>3. TokenOK(d, r, LeftBy(t, r), FALSE)
    BY <1>3, <2>1 DEF TokenOK, ContextOf, Bound, Terminal
  <2> QED
    BY <2>2, <2>3
<1>5. \A x \in Contexts : d.ctx[x] # c.ctx[x] \/ c.ctx[x].token \in {r} => HolderOK(d, x)
  <2> TAKE x \in Contexts
  <2>1. HolderOK(c, x)
    BY DEF Reservations
  <2> QED
    BY <1>0, <1>3, <2>1 DEF HolderOK
<1>6. \A q \in {r} : /\ q \notin L /\ TicketOK(d.req[q], t[q].pc, t[q].victim, FALSE)
                     /\ TokenOK(d, q, LeftBy(t, q), FALSE)
  BY <1>4
<1> QED
  BY <1>1, <1>2, <1>5, <1>6, AwayKeeps

(* A thread that is not copying over a predecessor goes on alone. *)
LEMMA MovesAside ==
  ASSUME NEW c, NEW s, NEW t, NEW L, NEW r \in Requests, NEW pc, NEW v, Moves(s, t, r, pc, v),
         s[r].pc = "swap" => s[r].victim = NoRequest \/ ~c.req[s[r].victim].token, NEW R, r \in R
  PROVE  Aside(c, s, t, L, L, R)
<1> SUFFICES ASSUME NEW q \in Requests \ R
             PROVE  /\ t[q] = s[q] /\ (q \in L <=> q \in L)
                    /\ c.req[q].token /\ LeftBy(s, q) => LeftBy(t, q)
  BY DEF Aside
<1>1. t[q] = s[q]
  BY DEF Moves
<1>2. ASSUME c.req[q].token, LeftBy(s, q) PROVE LeftBy(t, q)
  <2>1. PICK p \in Requests : s[p].pc = "swap" /\ s[p].victim = q
    BY <1>2 DEF LeftBy
  <2>2. p # r
    BY <1>2, <2>1, RequestsAreNumbers
  <2> QED
    BY <2>1, <2>2 DEF LeftBy, Moves
<1> QED
  BY <1>1, <1>2

(* A running request ends and gives back what it held. *)
LEMMA EndHolds ==
  ASSUME NEW c \in CoordinatorType, NEW d \in CoordinatorType, NEW s, NEW w, NEW L \in SUBSET Requests,
         NEW running, Reservations(c, s, w, L, running),
         NEW r \in Requests, c.req[r].state = "RUNNING", s[r].pc = "accepted", Only(c, d, r),
         d.req[r].spec = c.req[r].spec, d.req[r].state \in Terminal, EndedHold(c, d, r),
         d.results <= c.results
  PROVE  Reservations(d, s, w, L \ {r}, running)
<1>0. NoRequest \notin Requests /\ NoContext \notin Contexts
  BY RequestsAreNumbers, RequestConstants
<1>1. /\ \A q \in Requests : q # r => d.req[q] = c.req[q]
      /\ ~d.req[r].ticket /\ ~d.req[r].token
      /\ Bound(c, r) => d.ctx[c.req[r].spec.context].token # r
      /\ \A z \in Contexts :
           \/ d.ctx[z] = c.ctx[z]
           \/ /\ Bound(c, r) /\ z = c.req[r].spec.context /\ c.ctx[z].token = r
              /\ d.ctx[z].token = NoRequest /\ d.ctx[z].state \notin {"QUEUED", "RUNNING"}
  BY DEF Only, EndedHold
<1>2. Elsewhere(c, d, {r}) /\ {r} \in SUBSET Requests
  BY <1>1 DEF Elsewhere, SameStay, SameHold
<1>3. Aside(c, s, s, L, L \ {r}, {r}) /\ L \ {r} \in SUBSET Requests
  BY DEF Aside
<1>4. \A q \in {r} : /\ q \notin L \ {r} /\ TicketOK(d.req[q], s[q].pc, s[q].victim, FALSE)
                     /\ TokenOK(d, q, LeftBy(s, q), FALSE)
  BY <1>1 DEF TicketOK, TokenOK, Terminal
<1>5. ASSUME NEW x \in Contexts, d.ctx[x] # c.ctx[x] \/ c.ctx[x].token \in {r}
      PROVE  HolderOK(d, x)
  <2>1. HolderOK(c, x)
    BY DEF Reservations
  <2>2. d.ctx[x].token = NoRequest /\ d.ctx[x].state \notin {"QUEUED", "RUNNING"}
    <3>1. CASE d.ctx[x] # c.ctx[x]
      BY <1>1, <3>1
    <3>2. CASE c.ctx[x].token = r
      <4>1. c.req[r].spec.context = x
        BY <1>0, <2>1, <3>2 DEF HolderOK
      <4>2. d.ctx[x] # c.ctx[x]
        BY <1>0, <1>1, <3>2, <4>1 DEF Bound
      <4> QED
        BY <1>1, <4>2
    <3> QED
      BY <1>5, <3>1, <3>2
  <2> QED
    BY <2>2 DEF HolderOK
<1>6. Results(d, running)
  <2>1. Results(c, running)
    BY DEF Reservations
  <2>2. /\ c.results \in Int /\ d.results \in Int /\ MaxResults \in Nat /\ c.results <= MaxResults
        /\ Release(d.req[r].ticket) = 0 /\ Release(c.req[r].ticket) \in Int
        /\ Release(Delivers(d.req[r])) \in Int
        /\ Release(Delivers(c.req[r])) \in Int /\ Release(running) \in Int
    BY <1>1, <2>1, RequestConstants DEF CoordinatorType, Results, Release
  <2>3. d.results <= MaxResults
    BY <2>2
  <2>5. d.results = c.results - Release(c.req[r].ticket)
                   - Release(Delivers(c.req[r])) + Release(Delivers(d.req[r]))
    BY DEF EndedHold
  <2>4. d.results = c.results - Release(c.req[r].ticket) + Release(d.req[r].ticket)
                    - Release(Delivers(c.req[r])) + Release(Delivers(d.req[r]))
                    - Release(running) + Release(running)
    BY <2>2, <2>5
  <2> QED
    BY <1>1, <2>1, <2>3, <2>4, ResultsOne
<1>7. \A x \in Contexts : d.ctx[x] # c.ctx[x] \/ c.ctx[x].token \in {r} => HolderOK(d, x)
  BY <1>5
<1> QED
  BY <1>2, <1>3, <1>4, <1>6, <1>7, AwayKeeps

-----------------------------------------------------------------------------
(* What the device has finished is settled.                                *)

(* A mark on a running request. *)
Marked(c, d, r) ==
  /\ Only(c, d, r) /\ d.req[r].cancel /\ SameHold(c.req[r], d.req[r])
  /\ d.req[r].spec = c.req[r].spec /\ d.req[r].state = c.req[r].state
  /\ d.req[r].result = c.req[r].result /\ d.ctx = c.ctx /\ d.results = c.results

(* A running request may be marked as cancelled. *)
LEMMA MarkSound ==
  ASSUME NEW b, NEW c, NEW s, NEW w, NEW L, NEW staging, NEW running,
         Sound(b, c, s, w, L, staging, running), NEW r \in Requests, c.req[r].state = "RUNNING"
  PROVE  LET d == SetReq(c, r, "cancel", TRUE)
         IN  /\ d \in CoordinatorType /\ Sound(b, d, s, w, L, staging, running)
             /\ Decided(c, d) /\ Eases(c, d) /\ Marked(c, d, r)
<1> DEFINE d == SetReq(c, r, "cancel", TRUE)
<1>1. Accounts(c, s, L, staging)
  BY DEF Sound
<1>2. c \in CoordinatorType /\ L \in SUBSET Requests
  BY <1>1, Parts
<1>3. /\ d \in CoordinatorType /\ Only(c, d, r)
      /\ d.req[r].cancel /\ SameHold(c.req[r], d.req[r]) /\ SameClaims(c.req[r], d.req[r])
      /\ d.req[r].spec = c.req[r].spec /\ d.req[r].submitted = c.req[r].submitted
      /\ d.req[r].state = c.req[r].state /\ d.req[r].superseded = c.req[r].superseded
      /\ d.req[r].result = c.req[r].result
      /\ d.ctx = c.ctx /\ d.results = c.results /\ SameLists(c, d) /\ SameCounters(c, d)
  BY <1>2, MarkCancelled
<1> HIDE DEF d
<1>4. Eases(c, d)
  <2>1. \A q \in Requests : Eased(c.req[q], d.req[q])
    BY <1>3 DEF Eased, Only, SameClaims
  <2> QED
    BY <1>3, <2>1 DEF Eases
<1>5. Accounts(d, s, L, staging)
  BY <1>1, <1>4, EaseKeeps
<1>6. ASSUME b PROVE Reservations(d, s, w, L, running)
  <2>1. Reservations(c, s, w, L, running)
    BY <1>6 DEF Sound
  <2>2. \A q \in Requests : SameStay(c.req[q], d.req[q]) /\ (Delivers(d.req[q]) <=> Delivers(c.req[q]))
    BY <1>3 DEF SameStay, SameHold, Only, Delivers
  <2> QED
    BY <1>2, <1>3, <2>1, <2>2, HoldsSame
<1>7. Sound(b, d, s, w, L, staging, running)
  BY <1>5, <1>6 DEF Sound
<1>8. Decided(c, d)
  BY <1>4, EasesDecided
<1> QED
  BY <1>3, <1>4, <1>7, <1>8 DEF d, Marked

(* The context of a request is cancelled with it. *)
LEMMA ContextCancelSound ==
  ASSUME NEW b, NEW c, NEW s, NEW w, NEW L, NEW staging, NEW running,
         Sound(b, c, s, w, L, staging, running), NEW r \in Requests
  PROVE  LET d == SetCtx(c, r, CancelReserved(ContextOf(c, r), r))
         IN  /\ d \in CoordinatorType /\ Sound(b, d, s, w, L, staging, running)
             /\ Decided(c, d) /\ d.req = c.req /\ d.results = c.results
<1> DEFINE x == CancelReserved(ContextOf(c, r), r)
           d == SetCtx(c, r, x)
           y == c.req[r].spec.context
<1>1. Accounts(c, s, L, staging)
  BY DEF Sound
<1>2. c \in CoordinatorType /\ L \in SUBSET Requests
  BY <1>1, Parts
<1>3. Bound(c, r) => y \in Contexts /\ ContextOf(c, r) \in ContextType
  BY <1>2, Typed
<1>4. Bound(c, r) => x \in ContextType
  BY <1>3, ContextFunctions
<1>5. /\ Light(c, d) /\ d.req = c.req /\ d.results = c.results
      /\ Bound(c, r) => /\ d.ctx[y] = x
                        /\ \A z \in Contexts : z # y => d.ctx[z] = c.ctx[z]
      /\ ~Bound(c, r) => d.ctx = c.ctx
  <2> HIDE DEF x, y
  <2> QED
    BY <1>2, <1>4, ContextSet DEF y
<1> HIDE DEF d
<1>6. d \in CoordinatorType
  BY <1>5 DEF Light
<1>7. Accounts(d, s, L, staging) /\ Decided(c, d)
  <2>1. Eases(c, d)
    BY <1>5, LightEases
  <2> QED
    BY <1>1, <2>1, EaseKeeps, EasesDecided
<1>8. ASSUME b PROVE Reservations(d, s, w, L, running)
  <2>1. Reservations(c, s, w, L, running)
    BY <1>8 DEF Sound
  <2>2. \A q \in Requests : SameStay(c.req[q], d.req[q]) /\ (Delivers(d.req[q]) <=> Delivers(c.req[q]))
    BY <1>5 DEF SameStay, SameHold
  <2>3. CASE Bound(c, r) /\ ContextOf(c, r).token = r
    <3>1. y \in Contexts /\ ContextOf(c, r) \in ContextType
      BY <1>3, <2>3
    <3>2. /\ x.token = ContextOf(c, r).token /\ x.call = ContextOf(c, r).call
          /\ x.state = IF ContextOf(c, r).state = "RUNNING" THEN "RUNNING" ELSE "CANCELLED"
      <4> HIDE DEF y
      <4> QED
        BY <2>3, <3>1 DEF CancelReserved, ContextType
    <3>3. /\ d.ctx[y].token = c.ctx[y].token /\ d.ctx[y].call = c.ctx[y].call
          /\ d.ctx[y].state = IF c.ctx[y].state = "RUNNING" THEN "RUNNING" ELSE "CANCELLED"
      BY <1>5, <2>3, <3>2 DEF ContextOf
    <3>4. \A z \in Contexts : z # y => d.ctx[z] = c.ctx[z]
      BY <1>5, <2>3
    <3> HIDE DEF x, y
    <3> QED
      BY <1>2, <1>5, <1>6, <2>1, <2>2, <3>3, <3>4, CancelledKeeps
  <2>4. CASE ~(Bound(c, r) /\ ContextOf(c, r).token = r)
    <3>1. d.ctx = c.ctx
      <4>1. CASE ~Bound(c, r)
        BY <1>5, <4>1
      <4>2. CASE Bound(c, r) /\ ContextOf(c, r).token # r
        <5>1. x = c.ctx[y]
          BY <4>2 DEF CancelReserved, ContextOf
        <5>2. \A z \in Contexts : d.ctx[z] = c.ctx[z]
          BY <1>5, <4>2, <5>1
        <5>3. c.ctx \in [Contexts -> ContextType] /\ d.ctx \in [Contexts -> ContextType]
          BY <1>2, <1>6 DEF CoordinatorType
        <5> QED
          BY <5>2, <5>3
      <4> QED
        BY <2>4, <4>1, <4>2
    <3> QED
      BY <1>2, <1>5, <1>6, <2>1, <2>2, <3>1, HoldsSame
  <2> QED
    BY <2>3, <2>4
<1>9. Sound(b, d, s, w, L, staging, running)
  BY <1>7, <1>8 DEF Sound
<1> QED
  BY <1>5, <1>6, <1>7, <1>9 DEF d

(* A result has arrived, or is not waited for: its request ends. *)
LEMMA SettledEnds ==
  ASSUME NEW b, NEW c, NEW s, NEW w, NEW staging, NEW running,
         Sound(b, c, s, w, LaneSet, staging, running), NEW r \in Requests, r \notin LaneSet,
         c.req[r].state = "RUNNING", c.req[r].result \in {"pending", "arrived", "lost"},
         NEW e, Light(c, e), e.req = c.req, e.results = c.results,
         \A z \in Contexts : z # c.req[r].spec.context => e.ctx[z] = c.ctx[z],
         Bound(c, r) => /\ ContextOf(e, r).token = ContextOf(c, r).token
                        /\ ContextOf(e, r).state \notin {"QUEUED", "RUNNING"},
         NEW f, Eases(e, f), Only(e, f, r), f.req[r].spec = e.req[r].spec, f.req[r].state = e.req[r].state,
         f.req[r].result = e.req[r].result, SameHold(e.req[r], f.req[r]),
         f.ctx = e.ctx, f.results = e.results, NEW outcome
  PROVE  LET g == Finish(f, r, outcome, now)
         IN  /\ g \in CoordinatorType /\ Sound(b, g, s, w, LaneSet, staging, running)
             /\ Decided(c, g) /\ Only(c, g, r)
<1> DEFINE g == Finish(f, r, outcome, now)
<1>1. Accounts(c, s, LaneSet, staging)
  BY DEF Sound
<1>2. c \in CoordinatorType /\ LaneSet \in SUBSET Requests
  BY <1>1, Parts
<1>3. Accounts(e, s, LaneSet, staging) /\ Decided(c, e)
  <2>1. Eases(c, e)
    BY LightEases
  <2> QED
    BY <1>1, <2>1, EaseKeeps, EasesDecided
<1>4. Accounts(f, s, LaneSet, staging) /\ Decided(e, f)
  BY <1>3, EaseKeeps, EasesDecided
<1>5. /\ f \in CoordinatorType /\ staging \in Nat /\ Counted(f, staging)
      /\ Placed(f.req[r], s[r].pc, s[r].victim, r \in LaneSet)
  BY <1>4, Parts
<1>6. f.req[r].budget /\ f.req[r].bytes <= f.bytes /\ s[r].pc = "accepted"
  <2>1. f.req[r].bytes <= f.bytes
    BY <1>5, BytesIncluded
  <2> QED
    BY <1>5, <2>1 DEF Placed, Claims, Terminal
<1>7. EndedAs(f, g, r, now) /\ (MayFinish(f, r, outcome) => EndedHold(f, g, r))
  BY <1>5, <1>6, FinishEffect
<1> HIDE DEF g
<1>8. f.req[r].state = "RUNNING"
  OBVIOUS
<1>9. Accounts(g, s, LaneSet, staging)
  <2>1. Accounts(g, s, LaneSet \ {r}, staging)
    BY <1>4, <1>7, <1>8, EndKeeps
  <2>2. LaneSet \ {r} = LaneSet
    OBVIOUS
  <2> QED
    BY <2>1, <2>2
<1>10. Decided(c, g)
  <2>1. EndedAs(f, g, r, When(r))
    BY <1>7 DEF When
  <2>2. Decided(f, g)
    BY <1>8, <2>1, EndDecided
  <2> QED
    BY <1>3, <1>4, <2>2, DecidedIsTransitive
<1>11. Only(c, g, r) /\ g \in CoordinatorType /\ g.req[r].spec = c.req[r].spec
       /\ g.req[r].state \in Terminal
       /\ g.req[r].result = IF g.req[r].state = "SUCCEEDED" THEN "held" ELSE "none"
  BY <1>7 DEF EndedAs, Only
<1>12. ASSUME b PROVE Reservations(g, s, w, LaneSet, running)
  <2>1. Reservations(c, s, w, LaneSet, running)
    BY <1>12 DEF Sound
  <2>2. TokenOK(c, r, LeftBy(s, r), r \in LaneSet)
    BY <2>1 DEF Reservations
  <2>3. /\ ~c.req[r].token
        /\ Bound(c, r) => ContextOf(c, r).token = r /\ ContextOf(c, r).state = "RUNNING"
    BY <2>2 DEF TokenOK
  <2>4. /\ ~f.req[r].token /\ f.req[r].ticket = c.req[r].ticket /\ (Bound(f, r) <=> Bound(c, r))
        /\ ContextOf(f, r) = ContextOf(e, r)
    BY <2>3 DEF SameHold, Bound, ContextOf
  <2>5. MayFinish(f, r, outcome)
    BY <2>3, <2>4 DEF MayFinish
  <2>6. EndedHold(f, g, r)
    BY <1>7, <2>5
  <2>7. Bound(c, r) => /\ c.req[r].spec.context \in Contexts
                       /\ f.ctx[c.req[r].spec.context].token = r
    BY <1>2, <2>3, <2>4, Typed DEF ContextOf
  <2>8. EndedHold(c, g, r)
    <3>1. Delivers(f.req[r]) <=> Delivers(c.req[r])
      BY DEF Delivers
    <3>2. g.results = c.results - Release(c.req[r].ticket)
                      - Release(Delivers(c.req[r])) + Release(Delivers(g.req[r]))
      BY <2>4, <2>6, <3>1 DEF EndedHold, Release
    <3>3. Bound(c, r) => g.ctx[c.req[r].spec.context].token # r
      BY <2>4, <2>6 DEF EndedHold
    <3>4. ASSUME NEW z \in Contexts
          PROVE  \/ g.ctx[z] = c.ctx[z]
                 \/ /\ Bound(c, r) /\ z = c.req[r].spec.context /\ c.ctx[z].token = r
                    /\ g.ctx[z].token = NoRequest /\ g.ctx[z].state \notin {"QUEUED", "RUNNING"}
      <4>1. \/ g.ctx[z] = f.ctx[z]
            \/ /\ Bound(f, r) /\ z = f.req[r].spec.context /\ f.ctx[z].token = r
               /\ g.ctx[z].token = NoRequest /\ g.ctx[z].state \notin {"QUEUED", "RUNNING"}
        BY <2>6 DEF EndedHold
      <4>2. CASE z = c.req[r].spec.context
        <5>1. Bound(c, r)
          BY <4>2, RequestConstants DEF Bound
        <5> QED
          BY <2>3, <2>7, <3>3, <4>1, <4>2, <5>1 DEF ContextOf
      <4>3. CASE z # c.req[r].spec.context
        BY <4>1, <4>3
      <4> QED
        BY <4>2, <4>3
    <3> QED
      BY <2>6, <3>2, <3>3, <3>4 DEF EndedHold
  <2>9. g.results <= c.results
    <3>1. /\ Delivers(c.req[r]) /\ c.results \in Int
          /\ Release(c.req[r].ticket) \in {0, 1} /\ Release(Delivers(g.req[r])) \in {0, 1}
          /\ Release(Delivers(c.req[r])) = 1
      BY <1>2, ReleaseCounts DEF Delivers, CoordinatorType, Release
    <3>2. g.results = c.results - Release(c.req[r].ticket)
                      - Release(Delivers(c.req[r])) + Release(Delivers(g.req[r]))
      BY <2>8 DEF EndedHold
    <3> QED
      BY <3>1, <3>2
  <2>10. Reservations(g, s, w, LaneSet \ {r}, running)
    BY <1>2, <1>6, <1>11, <2>1, <2>8, <2>9, EndHolds
  <2>11. LaneSet \ {r} = LaneSet
    OBVIOUS
  <2> QED
    BY <2>10, <2>11
<1> QED
  BY <1>9, <1>10, <1>11, <1>12 DEF Sound, g

(* One result on the device is looked at. *)
LEMMA PendingSound ==
  ASSUME NEW b, NEW c, NEW s, NEW w, NEW staging, NEW running,
         Sound(b, c, s, w, LaneSet, staging, running), NEW r \in Requests,
         c.req[r].state = "RUNNING", c.req[r].result \in {"pending", "arrived", "lost"}
  PROVE  LET g == SettlePending(c, r)
         IN  /\ g \in CoordinatorType /\ Sound(b, g, s, w, LaneSet, staging, running)
             /\ Decided(c, g) /\ Only(c, g, r)
<1> DEFINE stop == c.stopping /\ Bound(c, r)
           a == SetReq(c, r, "cancel", TRUE)
           d == IF stop THEN SetCtx(a, r, CancelReserved(ContextOf(c, r), r)) ELSE c
           arrived == d.req[r].result # "pending"
           outcome == IF d.req[r].result = "lost" THEN "FAIL" ELSE "OK"
           e == IF arrived /\ Bound(c, r) THEN SetCtx(d, r, Settle(ContextOf(d, r), outcome)) ELSE d
           drop == \/ c.stopping \/ d.req[r].cancel \/ d.req[r].superseded
                   \/ Hard(c, r) /\ Late(c, r, now)
           f == IF c.stopping THEN SetReq(e, r, "cancel", TRUE) ELSE e
           g == SettlePending(c, r)
<1>1. g = IF arrived \/ (drop /\ ~Bound(c, r)) THEN Finish(f, r, outcome, now) ELSE e
  BY DEF SettlePending
<1>2. c \in CoordinatorType /\ r \notin LaneSet
  <2>1. Accounts(c, s, LaneSet, staging)
    BY DEF Sound
  <2>2. c \in CoordinatorType /\ Placed(c.req[r], s[r].pc, s[r].victim, r \in LaneSet)
    BY <2>1, Parts
  <2> QED
    BY <2>2 DEF Placed
<1>3. /\ d \in CoordinatorType /\ Sound(b, d, s, w, LaneSet, staging, running) /\ Decided(c, d)
      /\ Only(c, d, r) /\ d.req[r].spec = c.req[r].spec /\ d.req[r].state = c.req[r].state
      /\ d.req[r].result = c.req[r].result
  <2>1. CASE stop
    <3>1. /\ a \in CoordinatorType /\ Sound(b, a, s, w, LaneSet, staging, running)
          /\ Decided(c, a) /\ Only(c, a, r)
          /\ a.req[r].spec = c.req[r].spec /\ a.req[r].state = c.req[r].state
          /\ a.req[r].result = c.req[r].result /\ a.ctx = c.ctx
      <4> HIDE DEF d, g, stop
      <4>1. /\ a \in CoordinatorType /\ Sound(b, a, s, w, LaneSet, staging, running)
            /\ Decided(c, a) /\ Marked(c, a, r)
        BY MarkSound
      <4> QED
        BY <4>1 DEF Marked
    <3> HIDE DEF a
    <3>2. ContextOf(c, r) = ContextOf(a, r)
      BY <3>1 DEF ContextOf
    <3>3. d = SetCtx(a, r, CancelReserved(ContextOf(a, r), r))
      BY <2>1, <3>2
    <3> HIDE DEF d
    <3>4. /\ d \in CoordinatorType /\ Sound(b, d, s, w, LaneSet, staging, running)
          /\ Decided(a, d) /\ d.req = a.req
      BY <3>1, <3>3, ContextCancelSound
    <3>5. Decided(c, d)
      BY <3>1, <3>4, DecidedIsTransitive
    <3> QED
      BY <3>1, <3>4, <3>5 DEF Only
  <2>2. CASE ~stop
    <3>1. d = c
      BY <2>2
    <3> HIDE DEF d
    <3>2. Decided(c, c)
      BY DEF Decided, Decides, Terminal
    <3> QED
      BY <1>2, <3>1, <3>2 DEF Only
  <2> QED
    BY <2>1, <2>2
<1> HIDE DEF d
<1>4. Bound(d, r) <=> Bound(c, r)
  BY <1>3 DEF Bound
<1>5. /\ Light(d, e) /\ e.req = d.req /\ e.results = d.results
      /\ \A z \in Contexts : z # d.req[r].spec.context => e.ctx[z] = d.ctx[z]
      /\ arrived /\ Bound(d, r) => /\ ContextOf(e, r).token = ContextOf(d, r).token
                                   /\ ContextOf(e, r).state \notin {"QUEUED", "RUNNING"}
  <2>1. CASE arrived /\ Bound(c, r)
    <3> DEFINE x == Settle(ContextOf(d, r), outcome)
    <3>1. ContextOf(d, r) \in ContextType
      BY <1>3, <1>4, <2>1, Typed
    <3>2. x \in ContextType /\ x.token = ContextOf(d, r).token /\ x.state \notin {"QUEUED", "RUNNING"}
      <4>1. x \in ContextType
        BY <3>1, ContextFunctions
      <4> QED
        BY <3>1, <4>1 DEF Settle, ContextType
    <3>3. e = SetCtx(d, r, x)
      BY <2>1
    <3> HIDE DEF x, e
    <3> QED
      BY <1>3, <1>4, <2>1, <3>2, <3>3, ContextSet
  <2>2. CASE ~(arrived /\ Bound(c, r))
    <3>1. e = d
      BY <2>2
    <3> HIDE DEF e
    <3>2. Light(d, d)
      BY <1>3 DEF Light, SameCore, SameClaims, SameCourse, SameLists, SameCounters
    <3> QED
      BY <1>4, <2>2, <3>1, <3>2
  <2> QED
    BY <2>1, <2>2
<1> HIDE DEF e
<1>6. /\ e \in CoordinatorType /\ e.req[r].state = "RUNNING"
  BY <1>3, <1>5 DEF Light
<1>7. /\ Eases(e, f) /\ Only(e, f, r) /\ f.req[r].spec = e.req[r].spec /\ f.req[r].state = e.req[r].state
      /\ f.req[r].result = e.req[r].result /\ SameHold(e.req[r], f.req[r])
      /\ f.ctx = e.ctx /\ f.results = e.results
  <2>1. CASE c.stopping
    <3>1. f = SetReq(e, r, "cancel", TRUE)
      BY <2>1
    <3> HIDE DEF f
    <3>2. /\ f \in CoordinatorType /\ Only(e, f, r)
          /\ f.req[r].cancel /\ SameHold(e.req[r], f.req[r]) /\ SameClaims(e.req[r], f.req[r])
          /\ f.req[r].spec = e.req[r].spec /\ f.req[r].submitted = e.req[r].submitted
          /\ f.req[r].state = e.req[r].state /\ f.req[r].superseded = e.req[r].superseded
          /\ f.req[r].result = e.req[r].result
          /\ f.ctx = e.ctx /\ f.results = e.results /\ SameLists(e, f) /\ SameCounters(e, f)
      BY <1>6, <3>1, MarkCancelled
    <3>3. \A q \in Requests : Eased(e.req[q], f.req[q])
      BY <1>6, <3>2 DEF Eased, Only, SameClaims
    <3> QED
      BY <3>2, <3>3 DEF Eases
  <2>2. CASE ~c.stopping
    <3>1. f = e
      BY <2>2
    <3> HIDE DEF f
    <3> QED
      BY <1>6, <3>1 DEF Eases, Eased, Only, SameClaims, SameHold, SameLists, SameCounters
  <2> QED
    BY <2>1, <2>2
<1> HIDE DEF f, drop, outcome, g
<1>8. CASE arrived \/ (drop /\ ~Bound(c, r))
  <2>1. g = Finish(f, r, outcome, now)
    BY <1>1, <1>8
  <2>2. Bound(d, r) => /\ ContextOf(e, r).token = ContextOf(d, r).token
                       /\ ContextOf(e, r).state \notin {"QUEUED", "RUNNING"}
    BY <1>4, <1>5, <1>8
  <2>3. d.req[r].state = "RUNNING" /\ d.req[r].result \in {"pending", "arrived", "lost"}
    BY <1>3
  <2>4. /\ g \in CoordinatorType /\ Sound(b, g, s, w, LaneSet, staging, running)
        /\ Decided(d, g) /\ Only(d, g, r)
    BY <1>2, <1>3, <1>5, <1>7, <2>1, <2>2, <2>3, SettledEnds
  <2>5. Decided(c, g)
    BY <1>3, <2>4, DecidedIsTransitive
  <2>6. Only(c, g, r)
    BY <1>3, <2>4 DEF Only
  <2> QED
    BY <2>4, <2>5, <2>6 DEF g
<1>9. CASE ~(arrived \/ (drop /\ ~Bound(c, r)))
  <2>1. g = e
    BY <1>1, <1>9
  <2>2. e = d
    BY <1>9 DEF e
  <2> QED
    BY <1>3, <2>1, <2>2 DEF g
<1> QED
  BY <1>8, <1>9

(* Completions keep everything. *)
LEMMA CompleteSound ==
  ASSUME NEW b, NEW c, NEW s, NEW w, NEW staging, NEW running,
         Sound(b, c, s, w, LaneSet, staging, running)
  PROVE  LET d == Complete(c)
         IN  Sound(b, d, s, w, LaneSet, staging, running) /\ Decided(c, d)
<1> DEFINE a == Expire(c)
           S == OnDevice(a)
           G == [X \in SUBSET S |-> {d \in CoordinatorType :
                   /\ Sound(b, d, s, w, LaneSet, staging, running)
                   /\ Decided(a, d) /\ \A q \in S \ X : d.req[q] = a.req[q]}]
<1>1. /\ a \in CoordinatorType /\ Sound(b, a, s, w, LaneSet, staging, running)
      /\ Decided(c, a)
  BY ExpireSound
<1> HIDE DEF a
<1>2. S \in SUBSET Requests
  BY <1>1 DEF OnDevice, CoordinatorType
<1>3. a \in G[{}]
  <2>1. Decided(a, a)
    BY DEF Decided, Decides, Terminal
  <2> QED
    BY <1>1, <2>1
<1>4. ASSUME NEW X \in SUBSET S, NEW r \in X, NEW d \in G[X \ {r}]
      PROVE  SettlePending(d, r) \in G[X]
  <2>1. /\ d \in CoordinatorType /\ Sound(b, d, s, w, LaneSet, staging, running)
        /\ Decided(a, d) /\ \A q \in S \ (X \ {r}) : d.req[q] = a.req[q]
    OBVIOUS
  <2>2. r \in Requests /\ d.req[r].state = "RUNNING" /\ d.req[r].result \in {"pending", "arrived", "lost"}
    BY <1>2, <2>1 DEF OnDevice
  <2> DEFINE g == SettlePending(d, r)
  <2>3. /\ g \in CoordinatorType /\ Sound(b, g, s, w, LaneSet, staging, running)
        /\ Decided(d, g) /\ Only(d, g, r)
    BY <2>1, <2>2, PendingSound
  <2> HIDE DEF g
  <2>4. Decided(a, g)
    BY <2>1, <2>3, DecidedIsTransitive
  <2>5. \A q \in S \ X : g.req[q] = a.req[q]
    BY <1>2, <2>1, <2>3 DEF Only
  <2> QED
    BY <2>3, <2>4, <2>5 DEF g
<1> HIDE DEF G, S
<1>5. FoldSet(LAMBDA r, e : SettlePending(e, r), a, S) \in G[S]
  BY <1>2, <1>3, <1>4, SettleEach
<1>6. Complete(c) = FoldSet(LAMBDA r, e : SettlePending(e, r), a, S)
  BY DEF Complete, a, S
<1>7. Complete(c) \in G[S]
  BY <1>5, <1>6
<1>8. Sound(b, Complete(c), s, w, LaneSet, staging, running) /\ Decided(a, Complete(c))
  BY <1>7 DEF G
<1> QED
  BY <1>1, <1>8, DecidedIsTransitive

-----------------------------------------------------------------------------
(* A request is created, or refused before it is admitted.                 *)

(* A request that does not exist yet has a type. *)
LEMMA UnbornTyped == Unborn \in RequestType /\ NoSpec \in Spec0 /\ ~Reserves(NoSpec)
<1>1. NoSpec \in Spec0
  <2>1. 0 \in Priorities
    BY PolicyConstants DEF Priorities
  <2>2. 0 \in 0 .. MaxTime + 1 /\ 0 \in 0 .. MaxInputBytes
    BY RequestConstants
  <2> QED
    BY <2>1, <2>2 DEF NoSpec, Spec0
<1>2. Unborn \in RequestType
  BY <1>1 DEF Unborn, RequestType, States
<1> QED
  BY <1>1, <1>2 DEF Reserves, NoSpec

(* What becomes of a request that is refused: nothing remains of it, and   *)
(* what it held is given back.                                             *)
Vanishes(c, d, r) ==
  /\ d \in CoordinatorType /\ \A q \in Requests : q # r => SameCore(c.req[q], d.req[q])
  /\ d.req[r] = Unborn /\ SameLists(c, d) /\ SameCounters(c, d)
  /\ HasReservation(c, r) => LetsGo(c, d, r)

(* A request that was not accepted vanishes. *)
LEMMA DestroyedEffect ==
  ASSUME NEW c \in CoordinatorType, NEW r \in Requests
  PROVE  Vanishes(c, Destroyed(c, r), r)
<1> DEFINE a == InputsClear(c, r)
           e == TicketRelease(a, r)
           d == Destroyed(c, r)
           x == ContextOf(c, r)
           y == c.req[r].spec.context
<1>1. d = PutReq(e, r, Unborn)
  BY DEF Destroyed, PutReq
<1>2. /\ Light(c, a) /\ Only(c, a, r) /\ ~a.req[r].token
      /\ ~c.req[r].token => a = c
      /\ c.req[r].token /\ Bound(c, r) /\ UnreserveOK(x, r) =>
           /\ ~a.req[r].ticket /\ a.results = c.results - Release(c.req[r].ticket)
           /\ a.ctx[y] = Unreserve(x, r)
           /\ \A z \in Contexts : z # y => a.ctx[z] = c.ctx[z]
  BY InputsCleared
<1> HIDE DEF a
<1>3. a \in CoordinatorType
  BY <1>2 DEF Light
<1>4. /\ Light(a, e) /\ Only(a, e, r)
      /\ ~e.req[r].ticket /\ e.req[r].token = a.req[r].token
      /\ e.ctx = a.ctx /\ e.results = a.results - Release(a.req[r].ticket)
  BY <1>3, TicketReleased
<1> HIDE DEF e
<1>5. e \in CoordinatorType /\ Light(c, e)
  BY <1>2, <1>4, LightIsTransitive DEF Light
<1>6. /\ d \in CoordinatorType /\ d.req[r] = Unborn /\ Only(e, d, r)
      /\ d.ctx = e.ctx /\ d.results = e.results /\ SameLists(e, d) /\ SameCounters(e, d)
  BY <1>1, <1>5, UnbornTyped, ReplacedRecord
<1> HIDE DEF d
<1>7. Only(c, d, r)
  BY <1>2, <1>4, <1>6 DEF Only
<1>8. SameLists(c, d) /\ SameCounters(c, d)
  BY <1>5, <1>6 DEF Light, SameLists, SameCounters
<1>9. \A q \in Requests : q # r => SameCore(c.req[q], d.req[q])
  BY <1>7 DEF Only, SameCore, SameClaims, SameCourse
<1>10. ASSUME HasReservation(c, r) PROVE LetsGo(c, d, r)
  <2>1. ~d.req[r].ticket /\ ~d.req[r].token
    BY <1>6 DEF Unborn
  <2>2. CASE Bound(c, r)
    <3>1. c.req[r].token /\ UnreserveOK(x, r)
      BY <1>10, <2>2 DEF HasReservation
    <3>2. /\ ~a.req[r].ticket /\ a.results = c.results - Release(c.req[r].ticket)
          /\ a.ctx[y] = Unreserve(x, r)
          /\ \A z \in Contexts : z # y => a.ctx[z] = c.ctx[z]
      BY <1>2, <2>2, <3>1
    <3>3. Release(a.req[r].ticket) = 0 /\ a.results \in Int
      BY <1>3, <3>2 DEF Release, CoordinatorType
    <3>4. d.results = c.results - Release(c.req[r].ticket)
      BY <1>4, <1>6, <3>2, <3>3
    <3>5. \A z \in Contexts : d.ctx[z] = IF z = y THEN Unreserve(c.ctx[z], r) ELSE c.ctx[z]
      BY <1>4, <1>6, <3>2 DEF ContextOf
    <3> QED
      BY <1>7, <2>1, <2>2, <3>4, <3>5 DEF LetsGo
  <2>3. CASE ~Bound(c, r)
    <3>1. a = c
      BY <1>2, <1>10, <2>3 DEF HasReservation
    <3> QED
      BY <1>4, <1>6, <1>7, <2>1, <2>3, <3>1 DEF LetsGo
  <2> QED
    BY <2>2, <2>3
<1> QED
  BY <1>6, <1>8, <1>9, <1>10 DEF Vanishes, d

(* What becomes of a request that is created. *)
Appears(c, d, r, s) ==
  /\ d \in CoordinatorType /\ Only(c, d, r)
  /\ d.req[r].spec = s /\ d.req[r].state = "QUEUED" /\ SameClaims(c.req[r], d.req[r])
  /\ d.req[r].cancel = c.req[r].cancel /\ d.req[r].superseded = c.req[r].superseded
  /\ d.req[r].result = c.req[r].result
  /\ (d.req[r].token <=> Reserves(s)) /\ (d.req[r].ticket <=> TicketEarly(s))
  /\ SameLists(c, d) /\ SameCounters(c, d) /\ d.results = c.results + Release(TicketEarly(s))
  /\ \A z \in Contexts : d.ctx[z] = IF z = s.context THEN Reserve(c.ctx[z], r) ELSE c.ctx[z]

(* A request that is created appears, with what it reserves. *)
LEMMA CreatedEffect ==
  ASSUME NEW c \in CoordinatorType, now \in Nat, NEW r \in Requests, NEW s \in Spec0
  PROVE  Appears(c, Created(c, r, s), r, s)
<1> DEFINE p == [c.req[r] EXCEPT !.spec = s, !.submitted = now, !.state = "QUEUED",
                                 !.token = Reserves(s), !.ticket = TicketEarly(s)]
           k == c.results + Release(TicketEarly(s))
           a == PutTicket(c, r, p, k)
           d == Created(c, r, s)
<1>1. c.req[r] \in RequestType /\ Reserves(s) \in BOOLEAN /\ TicketEarly(s) \in BOOLEAN
      /\ "QUEUED" \in States
  BY Typed DEF Reserves, TicketEarly, States
<1>2. p \in RequestType /\ p.spec = s /\ p.state = "QUEUED" /\ SameClaims(c.req[r], p)
      /\ p.cancel = c.req[r].cancel /\ p.superseded = c.req[r].superseded /\ p.result = c.req[r].result
      /\ p.token = Reserves(s) /\ p.ticket = TicketEarly(s)
  BY <1>1 DEF RequestType, SameClaims
<1>3. k \in Int
  BY <1>1 DEF CoordinatorType, Release
<1>4. d = IF Reserves(s) THEN SetCtx(a, r, Reserve(ContextOf(a, r), r)) ELSE a
  BY DEF Created, PutTicket
<1> HIDE DEF p, k
<1>5. /\ a \in CoordinatorType /\ a.req[r] = p /\ Only(c, a, r)
      /\ a.ctx = c.ctx /\ a.results = k /\ SameLists(c, a) /\ SameCounters(c, a)
  BY <1>2, <1>3, ReplacedRecordTicket
<1> HIDE DEF a
<1>6. Bound(a, r) <=> Reserves(s)
  BY <1>2, <1>5 DEF Bound, Reserves
<1>7. CASE Reserves(s)
  <2> DEFINE x == Reserve(ContextOf(a, r), r)
  <2>1. ContextOf(a, r) \in ContextType /\ s.context \in Contexts /\ a.req[r].spec.context = s.context
    BY <1>2, <1>5, <1>6, <1>7, Typed
  <2>2. x \in ContextType
    BY <2>1, ContextFunctions
  <2>3. d = SetCtx(a, r, x)
    BY <1>4, <1>7
  <2>4. x = Reserve(c.ctx[s.context], r)
    BY <1>5, <2>1 DEF ContextOf
  <2> HIDE DEF x, d
  <2>5. /\ Light(a, d) /\ d.req = a.req /\ d.results = a.results
        /\ d.ctx[s.context] = x
        /\ \A z \in Contexts : z # s.context => d.ctx[z] = a.ctx[z]
    BY <1>5, <1>6, <1>7, <2>1, <2>2, <2>3, ContextSet
  <2>6. \A z \in Contexts : d.ctx[z] = IF z = s.context THEN Reserve(c.ctx[z], r) ELSE c.ctx[z]
    BY <1>5, <2>4, <2>5
  <2>7. Only(c, d, r) /\ d.req[r] = p /\ d.results = k
    BY <1>5, <2>5 DEF Only
  <2>8. d \in CoordinatorType /\ SameLists(c, d) /\ SameCounters(c, d)
    BY <1>5, <2>5 DEF Light, SameLists, SameCounters
  <2> QED
    BY <1>2, <2>6, <2>7, <2>8 DEF Appears, k, d
<1>8. CASE ~Reserves(s)
  <2>1. d = a
    BY <1>4, <1>8
  <2>2. \A z \in Contexts : z # s.context
    BY <1>8, RequestConstants DEF Reserves
  <2> HIDE DEF d
  <2> QED
    BY <1>2, <1>5, <2>1, <2>2 DEF Appears, k, d
<1> QED
  BY <1>7, <1>8

(* Creation keeps the invariant. *)
LEMMA AppearsSound ==
  ASSUME NEW b, NEW c, NEW s, NEW w, NEW L, NEW staging, NEW running,
         Sound(b, c, s, w, L, staging, running), NEW r \in Requests, s[r].pc = "new",
         NEW t, Moves(s, t, r, "admit", NoRequest), NEW spec \in Specs[r], spec \in Spec0,
         Reserves(spec) => ReserveOK(c.ctx[spec.context]),
         TicketEarly(spec) => c.results < MaxResults,
         NEW d, Appears(c, d, r, spec)
  PROVE  Sound(b, d, t, w, L, staging, running) /\ Decided(c, d)
<1>0. NoRequest \notin Requests /\ NoContext \notin Contexts
  BY RequestsAreNumbers, RequestConstants
<1>1. Accounts(c, s, L, staging)
  BY DEF Sound
<1>2. c \in CoordinatorType /\ L \in SUBSET Requests /\ Placed(c.req[r], "new", s[r].victim, r \in L)
  BY <1>1, Parts
<1>3. Absent(c.req[r]) /\ r \notin L
  BY <1>2 DEF Placed, Absent
<1>4. /\ d \in CoordinatorType /\ Only(c, d, r)
      /\ d.req[r].spec = spec /\ d.req[r].state = "QUEUED" /\ Clear(d.req[r])
      /\ ~d.req[r].cancel /\ ~d.req[r].superseded /\ d.req[r].result = "none"
      /\ (d.req[r].token <=> Reserves(spec)) /\ (d.req[r].ticket <=> TicketEarly(spec))
      /\ SameLists(c, d) /\ SameCounters(c, d) /\ d.results = c.results + Release(TicketEarly(spec))
      /\ \A z \in Contexts : d.ctx[z] = IF z = spec.context THEN Reserve(c.ctx[z], r) ELSE c.ctx[z]
  BY <1>3 DEF Appears, Absent, SameClaims, Clear
<1>5. Accounts(d, t, L, staging)
  <2>1. Placed(d.req[r], "admit", NoRequest, FALSE)
    BY <1>4 DEF Placed, Terminal
  <2>2. \A q \in Requests : q # r => SameCore(c.req[q], d.req[q])
    BY <1>4 DEF Only, SameCore, SameClaims, SameCourse
  <2>3. NotAdmitted(s, r) /\ "admit" \in {"admit", "refused"}
    BY DEF NotAdmitted
  <2>4. d.req[r].state # "NONE" => d.req[r].spec \in Specs[r]
    BY <1>4
  <2>5. d \in CoordinatorType /\ SameLists(c, d) /\ SameCounters(c, d)
    BY <1>4
  <2> QED
    BY <1>1, <2>1, <2>2, <2>3, <2>4, <2>5, BeforeAdmissionKeeps
<1>6. Decided(c, d)
  <2>1. \A q \in Requests : q \in {r} => c.req[q].state \in {"NONE", "QUEUED"}
    BY <1>3 DEF Absent
  <2>2. \A q \in Requests : q \notin {r} => SameCore(c.req[q], d.req[q])
    BY <1>4 DEF Only, SameCore, SameClaims, SameCourse
  <2> QED
    BY <2>1, <2>2, OthersDecided
<1>7. ASSUME b PROVE Reservations(d, t, w, L, running)
  <2>1. Reservations(c, s, w, L, running)
    BY <1>7 DEF Sound
  <2>2. Reserves(spec) => spec.context \in Contexts /\ c.ctx[spec.context].token = NoRequest
                          /\ c.ctx[spec.context] \in ContextType
    BY <1>2, Typed DEF Reserves, ReserveOK, Spec0
  <2>3. Reserves(spec) => /\ d.ctx[spec.context].token = r /\ d.ctx[spec.context].call = r
                          /\ d.ctx[spec.context].state = "QUEUED"
    BY <1>4, <2>2 DEF Reserve, ContextType
  <2>4. \A z \in Contexts : d.ctx[z] = c.ctx[z] \/ (z = spec.context /\ Reserves(spec))
    BY <1>0, <1>4 DEF Reserves
  <2>5. Elsewhere(c, d, {r}) /\ {r} \in SUBSET Requests
    BY <1>4, <2>2, <2>3, <2>4 DEF Elsewhere, SameStay, SameHold, Only
  <2>6. Aside(c, s, t, L, L, {r})
    BY MovesAside
  <2>7. t[r].pc = "admit" /\ t[r].victim = NoRequest /\ (Bound(d, r) <=> Reserves(spec))
        /\ ContextOf(d, r) = d.ctx[spec.context]
    BY <1>4 DEF Moves, Bound, Reserves, ContextOf
  <2>8. TicketOK(d.req[r], t[r].pc, t[r].victim, FALSE)
    BY <1>4, <2>7 DEF TicketOK, Terminal
  <2>9. TokenOK(d, r, LeftBy(t, r), FALSE)
    BY <1>4, <2>3, <2>7 DEF TokenOK, Terminal
  <2>10. \A q \in {r} : /\ q \notin L /\ TicketOK(d.req[q], t[q].pc, t[q].victim, FALSE)
                        /\ TokenOK(d, q, LeftBy(t, q), FALSE)
    BY <1>3, <2>8, <2>9
  <2>11. ASSUME NEW x \in Contexts, d.ctx[x] # c.ctx[x] \/ c.ctx[x].token \in {r}
         PROVE  HolderOK(d, x)
    <3>1. HolderOK(c, x)
      BY <2>1 DEF Reservations
    <3>2. c.ctx[x].token # r
      BY <1>0, <1>3, <3>1 DEF HolderOK, Absent, NoSpec
    <3>3. x = spec.context /\ Reserves(spec)
      BY <2>4, <2>11, <3>2
    <3>4. d.ctx[x].token = r /\ d.req[r].spec.context = x /\ d.req[r].token
      BY <1>4, <2>3, <3>3
    <3>5. r # NoRequest
      BY <1>0
    <3> QED
      BY <3>4, <3>5 DEF HolderOK
  <2>12. Results(d, running)
    <3>1. Results(c, running)
      BY <2>1 DEF Reservations
    <3>2. TicketOK(c.req[r], s[r].pc, s[r].victim, r \in L)
      BY <2>1 DEF Reservations
    <3>3. /\ ~c.req[r].ticket /\ (Delivers(d.req[r]) <=> Delivers(c.req[r]))
          /\ \A q \in Requests : q # r => d.req[q].ticket = c.req[q].ticket
                                          /\ (Delivers(d.req[q]) <=> Delivers(c.req[q]))
      BY <1>3, <1>4, <3>2 DEF Absent, TicketOK, Delivers, Only
    <3>4. /\ c.results \in Int /\ MaxResults \in Nat /\ c.results <= MaxResults
          /\ Release(c.req[r].ticket) = 0 /\ Release(d.req[r].ticket) = Release(TicketEarly(spec))
          /\ Release(TicketEarly(spec)) = IF TicketEarly(spec) THEN 1 ELSE 0
          /\ Release(Delivers(d.req[r])) = Release(Delivers(c.req[r]))
          /\ Release(Delivers(c.req[r])) \in Int /\ Release(running) \in Int
      BY <1>2, <1>4, <3>1, <3>3, RequestConstants DEF CoordinatorType, Results, Release
    <3>5. d.results <= MaxResults
      BY <1>4, <3>4
    <3>6. d.results = c.results - Release(c.req[r].ticket) + Release(d.req[r].ticket)
                      - Release(Delivers(c.req[r])) + Release(Delivers(d.req[r]))
                      - Release(running) + Release(running)
      BY <1>4, <3>4
    <3> QED
      BY <1>2, <1>4, <3>1, <3>3, <3>5, <3>6, ResultsOne
  <2>13. \A x \in Contexts : d.ctx[x] # c.ctx[x] \/ c.ctx[x].token \in {r} => HolderOK(d, x)
    BY <2>11
  <2> QED
    BY <1>2, <1>4, <2>1, <2>5, <2>6, <2>10, <2>12, <2>13, AwayKeeps
<1> QED
  BY <1>5, <1>6, <1>7 DEF Sound

(* A request that is refused before admission leaves no trace. *)
LEMMA VanishesSound ==
  ASSUME NEW b, NEW c, NEW s, NEW w, NEW L, NEW staging, NEW running,
         Sound(b, c, s, w, L, staging, running), NEW r \in Requests, s[r].pc = "admit",
         NEW t, Moves(s, t, r, "refused", NoRequest), NEW d, Vanishes(c, d, r)
  PROVE  Sound(b, d, t, w, L, staging, running) /\ Decided(c, d)
<1>1. Accounts(c, s, L, staging)
  BY DEF Sound
<1>2. c \in CoordinatorType /\ L \in SUBSET Requests /\ Placed(c.req[r], "admit", s[r].victim, r \in L)
  BY <1>1, Parts
<1>3. /\ c.req[r].state = "QUEUED" /\ c.req[r].result = "none" /\ r \notin L
  BY <1>2 DEF Placed
<1>4. /\ d \in CoordinatorType /\ SameLists(c, d) /\ SameCounters(c, d)
      /\ \A q \in Requests : q # r => SameCore(c.req[q], d.req[q])
  BY DEF Vanishes
<1>5. d.req[r].state = "NONE" /\ d.req[r].result = "none" /\ Absent(d.req[r])
  BY DEF Vanishes, Unborn, Absent, Clear
<1>6. Accounts(d, t, L, staging)
  <2>1. Placed(d.req[r], "refused", NoRequest, FALSE)
    BY <1>5 DEF Placed, Terminal, Absent
  <2>2. NotAdmitted(s, r) /\ "refused" \in {"admit", "refused"}
    BY DEF NotAdmitted
  <2>3. d.req[r].state # "NONE" => d.req[r].spec \in Specs[r]
    BY <1>5
  <2> QED
    BY <1>1, <1>4, <2>1, <2>2, <2>3, BeforeAdmissionKeeps
<1>7. Decided(c, d)
  <2>1. \A q \in Requests : q \in {r} => c.req[q].state \in {"NONE", "QUEUED"}
    BY <1>3
  <2>2. \A q \in Requests : q \notin {r} => SameCore(c.req[q], d.req[q])
    BY <1>4
  <2> QED
    BY <2>1, <2>2, OthersDecided
<1>8. ASSUME b PROVE Reservations(d, t, w, L, running)
  <2>1. Reservations(c, s, w, L, running)
    BY <1>8 DEF Sound
  <2>2. LetsGo(c, d, r)
    BY <1>2, <1>3, <2>1, WaitingHolds DEF Vanishes
  <2>3. \A q \in Requests : q # r => t[q] = s[q]
    BY DEF Moves
  <2>4. \A q \in Requests : q # r /\ c.req[q].token /\ LeftBy(s, q) => LeftBy(t, q)
    BY <2>3 DEF LeftBy
  <2>5. d.req[r].state \in Terminal \cup {"NONE"} /\ t[r].pc \in {"accepted", "refused"}
    BY <1>5 DEF Moves
  <2>6. Delivers(d.req[r]) <=> Delivers(c.req[r])
    BY <1>3, <1>5 DEF Delivers
  <2> QED
    BY <1>2, <1>3, <1>4, <2>1, <2>2, <2>3, <2>4, <2>5, <2>6, LetsGoKeeps
<1> QED
  BY <1>6, <1>7, <1>8 DEF Sound

(* Only the queue or the set of replacements changes. *)
Relists(c, d) ==
  /\ d \in CoordinatorType /\ d.req = c.req /\ d.ctx = c.ctx /\ d.results = c.results
  /\ d.inflight = c.inflight /\ SameCounters(c, d)

(* A replacement ends. *)
LEMMA ReplacedEffect ==
  ASSUME NEW c \in CoordinatorType, NEW r
  PROVE  LET d == Replaced(c, r)
         IN  Relists(c, d) /\ d.queue = c.queue /\ d.replacements = c.replacements \ {r}
BY DEF Replaced, Relists, CoordinatorType, SameCounters

(* A request is put at the end of the queue. *)
LEMMA AppendedEffect ==
  ASSUME NEW c \in CoordinatorType, NEW r \in Requests
  PROVE  LET d == Appended(c, r)
         IN  Relists(c, d) /\ d.queue = Append(c.queue, r) /\ d.replacements = c.replacements
BY AppendMembers DEF Appended, Relists, CoordinatorType, SameCounters

(* A replacement begins. *)
LEMMA ReplacingEffect ==
  ASSUME NEW c \in CoordinatorType, NEW r \in Requests
  PROVE  LET d == Replacing(c, r)
         IN  /\ Relists(c, d) /\ d.queue = c.queue
             /\ d.replacements = IF c.req[r].spec.freshness = "LATEST"
                                 THEN c.replacements \cup {r} ELSE c.replacements
<1>1. CASE c.req[r].spec.freshness = "LATEST"
  BY <1>1 DEF Replacing, Relists, CoordinatorType, SameCounters
<1>2. CASE c.req[r].spec.freshness # "LATEST"
  BY <1>2 DEF Replacing, Relists, SameCounters
<1> QED
  BY <1>1, <1>2

(* Two changes of the lists are one. *)
LEMMA RelistsIsTransitive ==
  ASSUME NEW c, NEW d, NEW e, Relists(c, d), Relists(d, e)
  PROVE  Relists(c, e)
BY DEF Relists, SameCounters

(* What a submission that gives up in the copy leaves behind. *)
Abandons(c, d, r, v) ==
  /\ d \in CoordinatorType /\ \A q \in Requests : q # r => SameCore(c.req[q], d.req[q])
  /\ d.req[r] = Unborn
  /\ d.queue = IF v = NoRequest THEN c.queue ELSE Append(c.queue, v)
  /\ d.inflight = c.inflight /\ d.replacements = c.replacements \ {r}
  /\ d.requests = c.requests - Release(c.req[r].counted)
  /\ d.bytes = c.bytes - c.req[r].bytes /\ d.waiters = c.waiters - Release(c.req[r].claim)
  /\ HasReservation(c, r) => LetsGo(c, d, r)

(* A copy that failed gives all back, and the predecessor returns. *)
LEMMA AbandonedEffect ==
  ASSUME NEW c \in CoordinatorType, NEW r \in Requests, c.req[r].budget, c.req[r].bytes <= c.bytes,
         NEW v \in Requests \cup {NoRequest}
  PROVE  LET d == Destroyed(BudgetRelease(c, r), r)
         IN  Abandons(c, Replaced(IF v = NoRequest THEN d ELSE Appended(d, v), r), r, v)
<1> DEFINE a == BudgetRelease(c, r)
           d == Destroyed(a, r)
           e == IF v = NoRequest THEN d ELSE Appended(d, v)
           f == Replaced(e, r)
<1>1. /\ a \in CoordinatorType /\ Only(c, a, r) /\ SameCourse(c.req[r], a.req[r])
      /\ SameHold(c.req[r], a.req[r]) /\ a.ctx = c.ctx /\ a.results = c.results /\ SameLists(c, a)
      /\ a.requests = c.requests - Release(c.req[r].counted)
      /\ a.bytes = c.bytes - c.req[r].bytes
      /\ a.waiters = c.waiters - Release(c.req[r].claim)
  BY BudgetReleased
<1> HIDE DEF a
<1>2. Vanishes(a, d, r)
  BY <1>1, DestroyedEffect
<1> HIDE DEF d
<1>3. d \in CoordinatorType /\ SameLists(a, d) /\ SameCounters(a, d)
  BY <1>2 DEF Vanishes
<1>4. Relists(d, e) /\ e.queue = IF v = NoRequest THEN d.queue ELSE Append(d.queue, v)
  <2>1. CASE v = NoRequest
    BY <1>3, <2>1 DEF Relists, SameCounters
  <2>2. CASE v # NoRequest
    BY <1>3, <2>2, AppendedEffect
  <2> QED
    BY <2>1, <2>2
<1>5. e.replacements = d.replacements
  BY <1>3, AppendedEffect
<1> HIDE DEF e
<1>6. Relists(e, f) /\ f.queue = e.queue /\ f.replacements = e.replacements \ {r}
  BY <1>4, ReplacedEffect DEF Relists
<1> HIDE DEF f
<1>7. Relists(d, f)
  BY <1>4, <1>6, RelistsIsTransitive
<1>8. /\ f.queue = IF v = NoRequest THEN c.queue ELSE Append(c.queue, v)
      /\ f.inflight = c.inflight /\ f.replacements = c.replacements \ {r}
  BY <1>1, <1>3, <1>4, <1>5, <1>6, <1>7 DEF Relists, SameLists
<1>9. /\ f.requests = c.requests - Release(c.req[r].counted)
      /\ f.bytes = c.bytes - c.req[r].bytes /\ f.waiters = c.waiters - Release(c.req[r].claim)
  BY <1>1, <1>3, <1>7 DEF Relists, SameCounters
<1>10. f \in CoordinatorType /\ f.req[r] = Unborn
  BY <1>2, <1>7 DEF Relists, Vanishes
<1>11. \A q \in Requests : q # r => SameCore(c.req[q], f.req[q])
  BY <1>1, <1>2, <1>7 DEF Relists, Vanishes, Only
<1>12. HasReservation(c, r) => LetsGo(c, f, r)
  <2> HAVE HasReservation(c, r)
  <2>1. a.req[r].spec = c.req[r].spec /\ a.req[r].token = c.req[r].token /\ a.req[r].ticket = c.req[r].ticket
    BY <1>1 DEF SameCourse, SameHold
  <2>2. HasReservation(a, r) /\ (Bound(a, r) <=> Bound(c, r))
    BY <1>1, <2>1 DEF HasReservation, Bound, ContextOf
  <2>3. LetsGo(a, d, r)
    BY <1>2, <2>2 DEF Vanishes
  <2>4. Only(c, f, r) /\ ~f.req[r].ticket /\ ~f.req[r].token
    BY <1>1, <1>7, <2>3 DEF LetsGo, Only, Relists
  <2>5. f.results = c.results - Release(c.req[r].ticket)
    BY <1>1, <1>7, <2>1, <2>3 DEF LetsGo, Relists
  <2>6. \A z \in Contexts : f.ctx[z] = IF Bound(c, r) /\ z = c.req[r].spec.context
                                       THEN Unreserve(c.ctx[z], r) ELSE c.ctx[z]
    BY <1>1, <1>7, <2>1, <2>2, <2>3 DEF LetsGo, Relists
  <2> QED
    BY <2>4, <2>5, <2>6 DEF LetsGo
<1>13. Abandons(c, f, r, v)
  BY <1>8, <1>9, <1>10, <1>11, <1>12 DEF Abandons
<1> QED
  BY <1>13 DEF a, d, e, f

(* A submission that gives up puts its predecessor back. *)
LEMMA AbandonSound ==
  ASSUME NEW b, NEW c, NEW s, NEW w, NEW L, NEW staging, NEW running,
         Sound(b, c, s, w, L, staging, running), NEW r \in Requests, s[r].pc = "snapshot",
         NEW t, Moves(s, t, r, "refused", NoRequest), NEW d, Abandons(c, d, r, s[r].victim)
  PROVE  Sound(b, d, t, w, L, staging, running) /\ Decided(c, d)
<1>1. Accounts(c, s, L, staging)
  BY DEF Sound
<1>2. c \in CoordinatorType /\ L \in SUBSET Requests /\ Placed(c.req[r], "snapshot", s[r].victim, r \in L)
  BY <1>1, Parts
<1>3. /\ c.req[r].state = "QUEUED" /\ c.req[r].result = "none" /\ r \notin L /\ ~c.req[r].claim
  BY <1>2 DEF Placed
<1>4. /\ d \in CoordinatorType /\ d.req[r] = Unborn
      /\ \A q \in Requests : q # r => SameCore(c.req[q], d.req[q])
      /\ d.queue = IF s[r].victim = NoRequest THEN c.queue ELSE Append(c.queue, s[r].victim)
      /\ d.inflight = c.inflight /\ d.replacements = c.replacements \ {r}
      /\ d.requests = c.requests - Release(c.req[r].counted)
      /\ d.bytes = c.bytes - c.req[r].bytes
      /\ d.waiters = c.waiters - Release(c.req[r].claim)
  BY DEF Abandons
<1>5. d.req[r].state = "NONE" /\ d.req[r].result = "none" /\ Absent(d.req[r])
  BY <1>4 DEF Unborn, Absent, Clear
<1>6. d.waiters = c.waiters
  BY <1>2, <1>3, <1>4 DEF Release, CoordinatorType
<1>7. Accounts(d, t, L, staging)
  BY <1>1, <1>4, <1>5, <1>6, AbandonKeeps
<1>8. Decided(c, d)
  <2>1. \A q \in Requests : q \in {r} => c.req[q].state \in {"NONE", "QUEUED"}
    BY <1>3
  <2>2. \A q \in Requests : q \notin {r} => SameCore(c.req[q], d.req[q])
    BY <1>4
  <2> QED
    BY <2>1, <2>2, OthersDecided
<1>9. ASSUME b PROVE Reservations(d, t, w, L, running)
  <2>1. Reservations(c, s, w, L, running)
    BY <1>9 DEF Sound
  <2>2. LetsGo(c, d, r)
    BY <1>2, <1>3, <2>1, WaitingHolds DEF Abandons
  <2>3. \A q \in Requests : q # r => t[q] = s[q]
    BY DEF Moves
  <2>4. \A q \in Requests : q # r /\ c.req[q].token /\ LeftBy(s, q) => LeftBy(t, q)
    BY <2>3 DEF LeftBy
  <2>5. d.req[r].state \in Terminal \cup {"NONE"} /\ t[r].pc \in {"accepted", "refused"}
    BY <1>5 DEF Moves
  <2>6. Delivers(d.req[r]) <=> Delivers(c.req[r])
    BY <1>3, <1>5 DEF Delivers
  <2> QED
    BY <1>2, <1>3, <1>4, <2>1, <2>2, <2>3, <2>4, <2>5, <2>6, LetsGoKeeps
<1> QED
  BY <1>7, <1>8, <1>9 DEF Sound

(* The victim is found in the queue, or there is none to be found. *)
LEMMA VictimFound ==
  ASSUME NEW c \in CoordinatorType, NEW r \in Requests
  PROVE  LET v == Victim(c, r)
         IN  /\ v = NoRequest => \A q \in Queued(c) : ~SameStream(c, q, r)
             /\ v # NoRequest => v \in Queued(c) /\ v \in Requests /\ SameStream(c, v, r)
             /\ v \in Requests \cup {NoRequest}
<1> DEFINE same == {q \in Queued(c) : SameStream(c, q, r)}
           fits == {q \in same : SameStorage(c, q, r)}
<1>1. NoRequest \notin Requests /\ Queued(c) \subseteq Requests /\ c.queue \in Seq(Requests)
  BY RequestsAreNumbers DEF CoordinatorType, Queued
<1>2. Victim(c, r) = IF fits # {} THEN First(c, fits) ELSE IF same # {} THEN First(c, same) ELSE NoRequest
  BY DEF Victim
<1>3. same \subseteq Queued(c) /\ fits \subseteq same
  OBVIOUS
<1>4. fits # {} => First(c, fits) \in fits
  BY <1>1, <1>3, FirstFound
<1>5. same # {} => First(c, same) \in same
  BY <1>1, <1>3, FirstFound
<1>6. CASE Victim(c, r) \in same
  BY <1>1, <1>6
<1>7. CASE Victim(c, r) \notin same
  <2>1. same = {} /\ Victim(c, r) = NoRequest
    BY <1>2, <1>3, <1>4, <1>5, <1>7
  <2> QED
    BY <2>1
<1> QED
  BY <1>6, <1>7

(* Two requests' records are replaced, and the queue. *)
PutPair(c, r, p, v, q, queue) == [c EXCEPT !.queue = queue, !.req[r] = p, !.req[v] = q]

Pairs(c, d, r, p, v, q, queue) ==
  /\ d \in CoordinatorType /\ d.req[r] = p /\ d.req[v] = q
  /\ \A i \in Requests : i \notin {r, v} => d.req[i] = c.req[i]
  /\ d.queue = queue /\ d.inflight = c.inflight /\ d.replacements = c.replacements
  /\ d.ctx = c.ctx /\ d.results = c.results /\ SameCounters(c, d)

(* The records of two requests and the queue are replaced. *)
LEMMA PairedRecords ==
  ASSUME NEW c \in CoordinatorType, NEW r \in Requests, NEW p \in RequestType,
         NEW v \in Requests, NEW q \in RequestType, r # v, NEW queue \in Seq(Requests)
  PROVE  Pairs(c, PutPair(c, r, p, v, q, queue), r, p, v, q, queue)
<1>1. c.req \in [Requests -> RequestType]
  BY DEF CoordinatorType
<1> DEFINE f == [c.req EXCEPT ![r] = p, ![v] = q]
           d == [c EXCEPT !.queue = queue, !.req = f]
<1>2. /\ f \in [Requests -> RequestType] /\ f[r] = p /\ f[v] = q
      /\ \A i \in Requests : i \notin {r, v} => f[i] = c.req[i]
  BY <1>1
<1> HIDE DEF f
<1>3. /\ d \in CoordinatorType /\ d.req = f /\ d.queue = queue /\ d.inflight = c.inflight
      /\ d.replacements = c.replacements /\ d.ctx = c.ctx /\ d.results = c.results
      /\ SameCounters(c, d)
  BY <1>2 DEF CoordinatorType, SameCounters
<1>4. PutPair(c, r, p, v, q, queue) = d
  BY DEF PutPair, f, CoordinatorType
<1> HIDE DEF d
<1> QED
  BY <1>2, <1>3, <1>4 DEF Pairs

(* A ticket is taken unless the predecessor's serves. *)
LEMMA TicketTakenEffect ==
  ASSUME NEW c \in CoordinatorType, NEW r \in Requests, NEW v
  PROVE  LET d == TicketTaken(c, r, v)
         IN  /\ Light(c, d) /\ Only(c, d, r) /\ d.ctx = c.ctx /\ d.req[r].token = c.req[r].token
             /\ d.req[r].ticket <=> c.req[r].ticket \/ NeedsTicket(c, r, v)
             /\ d.results = c.results + Release(NeedsTicket(c, r, v))
<1> DEFINE p == [c.req[r] EXCEPT !.ticket = TRUE]
           k == c.results + 1
           d == TicketTaken(c, r, v)
<1>1. CASE NeedsTicket(c, r, v)
  <2>1. c.req[r] \in RequestType /\ TRUE \in BOOLEAN
    BY Typed
  <2>2. p \in RequestType /\ p.ticket = TRUE /\ p.token = c.req[r].token /\ SameCore(c.req[r], p)
    BY <2>1, TicketField
  <2>3. d = PutTicket(c, r, p, k)
    BY <1>1 DEF TicketTaken, PutTicket
  <2>4. k \in Int
    BY DEF CoordinatorType
  <2>6. k = c.results + Release(NeedsTicket(c, r, v))
    BY <1>1 DEF Release
  <2> HIDE DEF p, k, d
  <2>5. /\ d \in CoordinatorType /\ d.req[r] = p /\ Only(c, d, r)
        /\ d.ctx = c.ctx /\ d.results = k /\ SameLists(c, d) /\ SameCounters(c, d)
    BY <2>2, <2>3, <2>4, ReplacedRecordTicket
  <2>7. Light(c, d)
    BY <2>2, <2>5, CoreOfSelf
  <2>8. d.req[r].ticket <=> c.req[r].ticket \/ NeedsTicket(c, r, v)
    BY <1>1, <2>2, <2>5
  <2> QED
    BY <2>2, <2>5, <2>6, <2>7, <2>8 DEF d
<1>2. CASE ~NeedsTicket(c, r, v)
  <2>1. d = c
    BY <1>2 DEF TicketTaken
  <2>2. c.results = c.results + Release(NeedsTicket(c, r, v))
    BY <1>2 DEF Release, CoordinatorType
  <2>3. Light(c, c) /\ Only(c, c, r)
    BY DEF Light, Only, SameCore, SameClaims, SameCourse, SameLists, SameCounters
  <2> HIDE DEF d
  <2> QED
    BY <1>2, <2>1, <2>2, <2>3 DEF d
<1> QED
  BY <1>1, <1>2

(* The predecessor's ticket becomes the successor's, if it has none. *)
TicketPassed(c, d, r, v) ==
  /\ Light(c, d) /\ d.ctx = c.ctx /\ d.results = c.results
  /\ \A q \in Requests : d.req[q].token = c.req[q].token
  /\ \A q \in Requests : q \notin {r, v} => d.req[q].ticket = c.req[q].ticket
  /\ c.req[v].ticket /\ ~c.req[r].ticket => d.req[r].ticket /\ ~d.req[v].ticket

(* The predecessor's ticket serves its successor. *)
LEMMA TicketMovedEffect ==
  ASSUME NEW c \in CoordinatorType, NEW r \in Requests, NEW v \in Requests, r # v
  PROVE  TicketPassed(c, TicketMoved(c, r, v), r, v)
<1> DEFINE p == [c.req[r] EXCEPT !.ticket = TRUE]
           u == [c.req[v] EXCEPT !.ticket = FALSE]
           d == TicketMoved(c, r, v)
<1>1. CASE c.req[r].ticket \/ ~c.req[v].ticket
  <2>1. d = c
    BY <1>1 DEF TicketMoved
  <2>2. Light(c, c)
    BY DEF Light, SameCore, SameClaims, SameCourse, SameLists, SameCounters
  <2> HIDE DEF d
  <2>3. TicketPassed(c, d, r, v)
    BY <1>1, <2>1, <2>2 DEF TicketPassed
  <2> QED
    BY <2>3 DEF d
<1>2. CASE ~(c.req[r].ticket \/ ~c.req[v].ticket)
  <2>1. c.req[r] \in RequestType /\ c.req[v] \in RequestType /\ TRUE \in BOOLEAN /\ FALSE \in BOOLEAN
    BY Typed
  <2>2. p \in RequestType /\ p.ticket = TRUE /\ p.token = c.req[r].token /\ SameCore(c.req[r], p)
    BY <2>1, TicketField
  <2>3. u \in RequestType /\ u.ticket = FALSE /\ u.token = c.req[v].token /\ SameCore(c.req[v], u)
    BY <2>1, TicketField
  <2>4. c.req \in [Requests -> RequestType] /\ c.queue \in Seq(Requests)
    BY DEF CoordinatorType
  <2>5. d = [c EXCEPT !.req[r] = p, !.req[v] = u]
    BY <1>2 DEF TicketMoved
  <2>6. PutPair(c, r, p, v, u, c.queue) = [c EXCEPT !.req[r] = p, !.req[v] = u]
    BY DEF PutPair, CoordinatorType
  <2>7. c.stopping = d.stopping
    BY <2>5 DEF CoordinatorType
  <2> HIDE DEF p, u, d
  <2>8. Pairs(c, d, r, p, v, u, c.queue)
    BY <2>2, <2>3, <2>4, <2>5, <2>6, PairedRecords
  <2>9. Light(c, d)
    <3>1. \A q \in Requests : SameCore(c.req[q], d.req[q])
      BY <2>2, <2>3, <2>8 DEF Pairs, SameCore, SameClaims, SameCourse
    <3>2. SameLists(c, d)
      BY <2>7, <2>8 DEF Pairs, SameLists
    <3> QED
      BY <2>8, <3>1, <3>2 DEF Pairs, Light
  <2>10. \A q \in Requests : d.req[q].token = c.req[q].token
    BY <2>2, <2>3, <2>8 DEF Pairs
  <2>11. /\ \A q \in Requests : q \notin {r, v} => d.req[q].ticket = c.req[q].ticket
         /\ d.req[r].ticket /\ ~d.req[v].ticket /\ d.ctx = c.ctx /\ d.results = c.results
    BY <2>2, <2>3, <2>8 DEF Pairs
  <2>12. TicketPassed(c, d, r, v)
    BY <2>9, <2>10, <2>11 DEF TicketPassed
  <2> QED
    BY <2>12 DEF d
<1> QED
  BY <1>1, <1>2

PutClaim(q, a, b, n, e) == [q EXCEPT !.budget = a, !.counted = b, !.bytes = n, !.claim = e]
HasClaim(q, p, a, b, n, e) ==
  /\ p \in RequestType /\ SameCourse(q, p) /\ SameHold(q, p)
  /\ p.budget = a /\ p.counted = b /\ p.bytes = n /\ p.claim = e

(* A record with other claims. *)
LEMMA ClaimsField ==
  ASSUME NEW q \in RequestType, NEW a \in BOOLEAN, NEW b \in BOOLEAN, NEW n \in Nat, NEW e \in BOOLEAN
  PROVE  HasClaim(q, PutClaim(q, a, b, n, e), a, b, n, e)
BY DEF PutClaim, HasClaim, RequestType, SameCourse, SameHold

(* The record of a predecessor whose claims were taken over. *)
LEMMA ReplacedField ==
  ASSUME NEW q \in RequestType
  PROVE  LET p == [q EXCEPT !.budget = FALSE, !.counted = FALSE, !.bytes = 0, !.claim = FALSE,
                            !.cancel = TRUE, !.state = "SUPERSEDED"]
         IN  /\ p \in RequestType /\ Clear(p) /\ p.state = "SUPERSEDED"
             /\ p.spec = q.spec /\ p.result = q.result /\ SameHold(q, p)
BY DEF RequestType, SameHold, Clear, States, Terminal

(* The incoming frame takes over what a queued one of its size has. *)
Swaps(c, d, r, v) ==
  /\ d \in CoordinatorType
  /\ \A q \in Requests : q \notin {r, v} => SameCore(c.req[q], d.req[q]) /\ SameHold(c.req[q], d.req[q])
  /\ SameCourse(c.req[r], d.req[r]) /\ SameClaims(c.req[v], d.req[r])
  /\ d.req[v].spec = c.req[v].spec /\ d.req[v].result = c.req[v].result
  /\ d.req[v].state = "SUPERSEDED" /\ Clear(d.req[v])
  /\ d.req[r].token = c.req[r].token /\ d.req[v].token = c.req[v].token
  /\ d.queue = Without(c.queue, {v}) /\ d.inflight = c.inflight
  /\ d.replacements = c.replacements \cup {r} /\ SameCounters(c, d) /\ d.ctx = c.ctx
  /\ c.req[v].ticket /\ ~c.req[r].ticket =>
       d.req[r].ticket /\ ~d.req[v].ticket /\ d.results = c.results

(* A frame takes over its predecessor's claims and storage. *)
LEMMA SwappedEffect ==
  ASSUME NEW c \in CoordinatorType, NEW r \in Requests, NEW v \in Requests, r # v,
         c.req[r].spec.freshness = "LATEST"
  PROVE  Swaps(c, Swapped(c, r, v), r, v)
<1> DEFINE a == TicketTaken(c, r, v)
           d == TicketMoved(a, r, v)
           p == PutClaim(d.req[r], c.req[v].budget, c.req[v].counted, c.req[v].bytes, c.req[v].claim)
           u == [d.req[v] EXCEPT !.budget = FALSE, !.counted = FALSE, !.bytes = 0, !.claim = FALSE,
                                 !.cancel = TRUE, !.state = "SUPERSEDED"]
           e == PutPair(d, r, p, v, u, Without(d.queue, {v}))
           f == Replacing(e, r)
<1>1. /\ Light(c, a) /\ Only(c, a, r) /\ a.ctx = c.ctx /\ a.req[r].token = c.req[r].token
      /\ a.req[r].ticket <=> c.req[r].ticket \/ NeedsTicket(c, r, v)
      /\ a.results = c.results + Release(NeedsTicket(c, r, v))
  BY TicketTakenEffect
<1>2. a \in CoordinatorType
  BY <1>1 DEF Light
<1>12. Swapped(c, r, v) = f
  BY DEF Swapped, PutPair, PutClaim
<1> HIDE DEF a
<1>3. TicketPassed(a, d, r, v)
  BY <1>2, TicketMovedEffect
<1> HIDE DEF d
<1>4. d \in CoordinatorType
  BY <1>3 DEF TicketPassed, Light
<1>5. /\ d.req[r] \in RequestType /\ d.req[v] \in RequestType /\ c.req[v] \in RequestType
      /\ c.req[v].budget \in BOOLEAN /\ c.req[v].counted \in BOOLEAN /\ c.req[v].bytes \in Nat
      /\ c.req[v].claim \in BOOLEAN
  BY <1>4, Typed DEF RequestType
<1>6. /\ p \in RequestType /\ p.budget = c.req[v].budget /\ p.counted = c.req[v].counted
      /\ p.bytes = c.req[v].bytes /\ p.claim = c.req[v].claim
      /\ SameCourse(d.req[r], p) /\ SameHold(d.req[r], p)
  <2>1. HasClaim(d.req[r], p, c.req[v].budget, c.req[v].counted, c.req[v].bytes, c.req[v].claim)
    BY <1>5, ClaimsField
  <2> HIDE DEF p
  <2> QED
    BY <2>1 DEF HasClaim
<1>7. /\ u \in RequestType /\ Clear(u) /\ u.state = "SUPERSEDED"
      /\ u.spec = d.req[v].spec /\ u.result = d.req[v].result /\ SameHold(d.req[v], u)
  BY <1>5, ReplacedField
<1>8. Without(d.queue, {v}) \in Seq(Requests)
  BY <1>4, WithoutMembers DEF CoordinatorType
<1> HIDE DEF p, u
<1>9. Pairs(d, e, r, p, v, u, Without(d.queue, {v}))
  BY <1>4, <1>6, <1>7, <1>8, PairedRecords
<1> HIDE DEF e
<1>10. e \in CoordinatorType /\ e.req[r].spec.freshness = "LATEST"
  BY <1>1, <1>3, <1>6, <1>9 DEF Pairs, SameCourse, Light, SameCore, TicketPassed
<1>11. Relists(e, f) /\ f.queue = e.queue /\ f.replacements = e.replacements \cup {r}
  BY <1>10, ReplacingEffect
<1> HIDE DEF f
<1>13. f \in CoordinatorType /\ f.req[r] = p /\ f.req[v] = u /\ f.ctx = c.ctx /\ f.results = d.results
  BY <1>1, <1>3, <1>9, <1>11 DEF Pairs, Relists, TicketPassed
<1>14. \A q \in Requests : q \notin {r, v} => SameCore(c.req[q], f.req[q]) /\ SameHold(c.req[q], f.req[q])
  <2> TAKE q \in Requests
  <2> HAVE q \notin {r, v}
  <2>1. f.req[q] = d.req[q] /\ a.req[q] = c.req[q]
    BY <1>1, <1>9, <1>11 DEF Pairs, Relists, Only
  <2>2. SameCore(a.req[q], d.req[q]) /\ SameHold(a.req[q], d.req[q])
    BY <1>3 DEF TicketPassed, Light, SameHold
  <2> QED
    BY <2>1, <2>2
<1>15. SameCourse(c.req[r], p) /\ SameClaims(c.req[v], p) /\ p.token = c.req[r].token
  <2>1. SameCourse(c.req[r], a.req[r]) /\ SameCourse(a.req[r], d.req[r])
    BY <1>1, <1>3 DEF TicketPassed, Light, SameCore
  <2> QED
    BY <1>1, <1>3, <1>6, <2>1 DEF SameCourse, SameClaims, SameHold, TicketPassed
<1>16. u.spec = c.req[v].spec /\ u.result = c.req[v].result /\ u.token = c.req[v].token
  <2>1. a.req[v] = c.req[v] /\ SameCourse(a.req[v], d.req[v]) /\ d.req[v].token = a.req[v].token
    BY <1>1, <1>3 DEF TicketPassed, Light, SameCore, Only
  <2> QED
    BY <1>7, <2>1 DEF SameCourse, SameHold
<1>17. f.queue = Without(c.queue, {v}) /\ f.inflight = c.inflight
       /\ f.replacements = c.replacements \cup {r} /\ SameCounters(c, f)
  BY <1>1, <1>3, <1>9, <1>11 DEF Pairs, Relists, TicketPassed, Light, SameLists, SameCounters
<1>18. c.req[v].ticket /\ ~c.req[r].ticket => p.ticket /\ ~u.ticket /\ f.results = c.results
  <2> HAVE c.req[v].ticket /\ ~c.req[r].ticket
  <2>1. v # NoRequest /\ ~NeedsTicket(c, r, v)
    BY RequestsAreNumbers DEF NeedsTicket
  <2>2. a.req[v].ticket /\ ~a.req[r].ticket
    BY <1>1, <2>1 DEF Only
  <2>3. a.results = c.results
    BY <1>1, <2>1 DEF Release, CoordinatorType
  <2> QED
    BY <1>3, <1>6, <1>7, <1>13, <2>2, <2>3 DEF TicketPassed, SameHold
<1> QED
  BY <1>7, <1>12, <1>13, <1>14, <1>15, <1>16, <1>17, <1>18 DEF Swaps

(* Taking over a queued frame's storage keeps the invariant. *)
LEMMA SwapSound ==
  ASSUME NEW b, NEW c, NEW s, NEW w, NEW L, NEW staging, NEW running,
         Sound(b, c, s, w, L, staging, running), NEW r \in Requests, s[r].pc = "admit",
         NEW v \in Queued(c), SameStorage(c, v, r), \A q \in c.replacements : ~SameStream(c, q, r),
         NEW t, Moves(s, t, r, "swap", v), NEW d, Swaps(c, d, r, v)
  PROVE  Sound(b, d, t, w, L, staging, running) /\ Decided(c, d)
<1>1. Accounts(c, s, L, staging)
  BY DEF Sound
<1>2. /\ c \in CoordinatorType /\ L \in SUBSET Requests /\ Placed(c.req[r], "admit", s[r].victim, r \in L)
      /\ NoRequest \notin Requests
  BY <1>1, Parts
<1>3. c.req[r].state = "QUEUED" /\ c.req[r].result = "none" /\ r \notin L
  BY <1>2 DEF Placed
<1>4. /\ v \in Requests /\ s[v].pc = "accepted" /\ s[v].victim = NoRequest
      /\ c.req[v].state = "QUEUED" /\ v \notin L /\ c.req[v].result = "none"
  BY <1>1, QueuedClaims
<1>5. v # r
  BY <1>4
<1>6. /\ d \in CoordinatorType
      /\ \A q \in Requests : q \notin {r, v} => SameCore(c.req[q], d.req[q]) /\ SameHold(c.req[q], d.req[q])
      /\ SameCourse(c.req[r], d.req[r]) /\ SameClaims(c.req[v], d.req[r])
      /\ d.req[v].spec = c.req[v].spec /\ d.req[v].result = c.req[v].result
      /\ d.req[v].state = "SUPERSEDED" /\ Clear(d.req[v])
      /\ d.req[r].token = c.req[r].token /\ d.req[v].token = c.req[v].token
      /\ d.queue = Without(c.queue, {v}) /\ d.inflight = c.inflight
      /\ d.replacements = c.replacements \cup {r} /\ SameCounters(c, d) /\ d.ctx = c.ctx
  BY DEF Swaps
<1>7. Accounts(d, t, L, staging)
  <2>1. \A q \in Requests : q \notin {r, v} => SameCore(c.req[q], d.req[q])
    BY <1>6
  <2> QED
    BY <1>1, <1>4, <1>6, <2>1, SwapKeeps
<1>8. Decided(c, d)
  <2>1. \A q \in Requests : q \in {r, v} => c.req[q].state \in {"NONE", "QUEUED"}
    BY <1>3, <1>4
  <2>2. \A q \in Requests : q \notin {r, v} => SameCore(c.req[q], d.req[q])
    BY <1>6
  <2> QED
    BY <2>1, <2>2, OthersDecided
<1>9. ASSUME b PROVE Reservations(d, t, w, L, running)
  <2>1. Reservations(c, s, w, L, running)
    BY <1>9 DEF Sound
  <2>2. /\ TicketOK(c.req[r], "admit", s[r].victim, FALSE) /\ TokenOK(c, r, LeftBy(s, r), FALSE)
        /\ TicketOK(c.req[v], "accepted", NoRequest, FALSE) /\ TokenOK(c, v, LeftBy(s, v), FALSE)
    <3>1. /\ TicketOK(c.req[r], s[r].pc, s[r].victim, r \in L) /\ TokenOK(c, r, LeftBy(s, r), r \in L)
          /\ TicketOK(c.req[v], s[v].pc, s[v].victim, v \in L) /\ TokenOK(c, v, LeftBy(s, v), v \in L)
      BY <1>4, <2>1 DEF Reservations
    <3>2. (r \in L) = FALSE /\ (v \in L) = FALSE
      BY <1>3, <1>4
    <3> QED
      BY <1>4, <3>1, <3>2
  <2>3. c.req[v].ticket /\ ~c.req[r].ticket
    <3>1. c.req[r].spec.freshness = "LATEST"
      BY DEF SameStorage, SameStream
    <3> QED
      BY <1>4, <2>2, <3>1 DEF TicketOK, TicketEarly
  <2>4. d.req[r].ticket /\ ~d.req[v].ticket /\ d.results = c.results
    BY <2>3 DEF Swaps
  <2>5. /\ d.req[r].spec = c.req[r].spec /\ d.req[r].state = "QUEUED" /\ d.req[r].result = "none"
    BY <1>3, <1>6 DEF SameCourse
  <2>6. Elsewhere(c, d, {r, v}) /\ {r, v} \in SUBSET Requests
    <3>1. \A q \in Requests \ {r, v} : SameStay(c.req[q], d.req[q])
      BY <1>6 DEF SameStay, SameCore, SameCourse
    <3> QED
      BY <1>4, <1>6, <3>1 DEF Elsewhere
  <2>7. Aside(c, s, t, L, L, {r, v})
    <3>1. r \in {r, v}
      OBVIOUS
    <3> QED
      BY <3>1, MovesAside
  <2>8. t[r].pc = "swap" /\ t[r].victim = v /\ t[v].pc = "accepted" /\ t[v].victim = NoRequest
    BY <1>4, <1>5 DEF Moves
  <2>9. TicketOK(d.req[r], t[r].pc, t[r].victim, FALSE) /\ TicketOK(d.req[v], t[v].pc, t[v].victim, FALSE)
    BY <1>6, <2>4, <2>5, <2>8 DEF TicketOK, Terminal
  <2>10. TokenOK(d, r, LeftBy(t, r), FALSE)
    BY <1>3, <1>6, <2>2, <2>5 DEF TokenOK, Bound, ContextOf, Terminal
  <2>11. TokenOK(d, v, LeftBy(t, v), FALSE)
    <3>1. LeftBy(t, v)
      BY <2>8 DEF LeftBy
    <3> QED
      BY <1>4, <1>6, <2>2, <3>1 DEF TokenOK, Bound, ContextOf, Terminal
  <2>12. \A q \in {r, v} : /\ q \notin L /\ TicketOK(d.req[q], t[q].pc, t[q].victim, FALSE)
                           /\ TokenOK(d, q, LeftBy(t, q), FALSE)
    BY <1>3, <1>4, <2>9, <2>10, <2>11
  <2>13. ASSUME NEW x \in Contexts, d.ctx[x] # c.ctx[x] \/ c.ctx[x].token \in {r, v}
         PROVE  HolderOK(d, x)
    <3>1. HolderOK(c, x) /\ d.ctx[x] = c.ctx[x]
      BY <1>6, <2>1 DEF Reservations
    <3> QED
      BY <1>3, <1>4, <1>6, <2>5, <2>13, <3>1 DEF HolderOK
  <2>14. Results(d, running)
    <3>1. Results(c, running)
      BY <2>1 DEF Reservations
    <3>2. \A q \in Requests : q \notin {r, v} => d.req[q].ticket = c.req[q].ticket
      BY <1>6 DEF SameHold
    <3>3. \A q \in Requests : Delivers(d.req[q]) <=> Delivers(c.req[q])
      BY <1>4, <1>6 DEF Delivers, SameCore, SameCourse
    <3> QED
      BY <1>2, <1>4, <1>5, <1>6, <2>3, <2>4, <3>1, <3>2, <3>3, ResultsMoved
  <2> QED
    BY <1>2, <1>6, <2>1, <2>6, <2>7, <2>12, <2>13, <2>14, AwayKeeps
<1> QED
  BY <1>7, <1>8, <1>9 DEF Sound

(* Admission with a copy: the claim of the incoming frame, but for the     *)
(* count that it inherits, and its predecessor out of the queue.           *)
Copying(c, d, r, v) ==
  /\ d \in CoordinatorType /\ Only(c, d, r)
  /\ SameCourse(c.req[r], d.req[r]) /\ d.req[r].budget /\ d.req[r].claim = c.req[r].claim
  /\ d.req[r].counted <=> v = NoRequest
  /\ d.req[r].bytes = c.req[r].spec.bytes /\ d.req[r].token = c.req[r].token
  /\ d.req[r].ticket <=> c.req[r].ticket \/ NeedsTicket(c, r, v)
  /\ d.results = c.results + Release(NeedsTicket(c, r, v)) /\ d.ctx = c.ctx
  /\ d.queue = Without(c.queue, {v}) /\ d.inflight = c.inflight
  /\ d.replacements = IF c.req[r].spec.freshness = "LATEST" THEN c.replacements \cup {r}
                      ELSE c.replacements
  /\ d.requests = c.requests + Release(v = NoRequest) /\ d.waiters = c.waiters
  /\ d.bytes = c.bytes + c.req[r].spec.bytes

PutCopy(q, k, n) == [q EXCEPT !.budget = TRUE, !.counted = k, !.bytes = n]

(* A record that is charged for its copy. *)
LEMMA CopyField ==
  ASSUME NEW q \in RequestType, NEW k \in BOOLEAN, NEW n \in Nat
  PROVE  LET p == PutCopy(q, k, n)
         IN  /\ p \in RequestType /\ SameCourse(q, p) /\ SameHold(q, p)
             /\ p.budget /\ (p.counted <=> k) /\ p.bytes = n /\ p.claim = q.claim
BY DEF PutCopy, RequestType, SameCourse, SameHold

(* A frame that is copied is charged, and its predecessor leaves the       *)
(* queue.                                                                  *)
LEMMA CopyingEffect ==
  ASSUME NEW c \in CoordinatorType, NEW r \in Requests, NEW v, NEW reuse \in BOOLEAN,
         reuse <=> v # NoRequest
  PROVE  Copying(c, Replacing([Charged(TicketTaken(c, r, v), r, reuse)
                                EXCEPT !.queue = Without(@, {v})], r), r, v)
<1> DEFINE a == TicketTaken(c, r, v)
           p == PutCopy(a.req[r], ~reuse, a.req[r].spec.bytes)
           i == a.requests + Release(~reuse)
           j == a.bytes + a.req[r].spec.bytes
           d == PutClaims(a, r, p, i, j, a.waiters)
           e == [d EXCEPT !.queue = Without(@, {v})]
           f == Replacing(e, r)
<1>1. /\ Light(c, a) /\ Only(c, a, r) /\ a.ctx = c.ctx /\ a.req[r].token = c.req[r].token
      /\ a.req[r].ticket <=> c.req[r].ticket \/ NeedsTicket(c, r, v)
      /\ a.results = c.results + Release(NeedsTicket(c, r, v))
  BY TicketTakenEffect
<1>2. a \in CoordinatorType /\ SameCourse(c.req[r], a.req[r]) /\ SameClaims(c.req[r], a.req[r])
      /\ SameLists(c, a) /\ SameCounters(c, a)
  BY <1>1 DEF Light, SameCore
<1> HIDE DEF a
<1>3. Charged(a, r, reuse) = d
  BY <1>2 DEF Charged, PutClaims, PutCopy, CoordinatorType
<1>4. /\ a.req[r] \in RequestType /\ (~reuse) \in BOOLEAN /\ a.req[r].spec.bytes \in Nat
  <2>1. a.req[r] \in RequestType
    BY <1>2, Typed
  <2>2. a.req[r].spec.bytes \in 0 .. MaxInputBytes /\ MaxInputBytes \in Nat
    BY <2>1, RequestConstants DEF RequestType, Spec0
  <2> QED
    BY <2>1, <2>2
<1>5. /\ p \in RequestType /\ SameCourse(a.req[r], p) /\ SameHold(a.req[r], p)
      /\ p.budget /\ (p.counted <=> ~reuse) /\ p.bytes = a.req[r].spec.bytes /\ p.claim = a.req[r].claim
  BY <1>4, CopyField
<1>6. i \in Int /\ j \in Int /\ a.waiters \in Int
  BY <1>2, <1>4, ReleaseCounts DEF CoordinatorType
<1>11. j = c.bytes + c.req[r].spec.bytes /\ i = c.requests + Release(v = NoRequest)
  <2>1. a.bytes = c.bytes /\ a.requests = c.requests /\ a.req[r].spec = c.req[r].spec
    BY <1>2 DEF SameCounters, SameCourse
  <2>2. Release(~reuse) = Release(v = NoRequest)
    BY DEF Release
  <2>3. j = c.bytes + c.req[r].spec.bytes
    BY <2>1
  <2> DEFINE m == Release(~reuse)  n == Release(v = NoRequest)
  <2>4. i = a.requests + m /\ m = n
    BY <2>2
  <2> HIDE DEF m, i
  <2>5. i = c.requests + n
    BY <2>1, <2>4
  <2> QED
    BY <2>3, <2>5
<1> HIDE DEF p, i, j
<1>7. /\ d \in CoordinatorType /\ d.req[r] = p /\ Only(a, d, r)
      /\ d.ctx = a.ctx /\ d.results = a.results /\ SameLists(a, d)
      /\ d.requests = i /\ d.bytes = j /\ d.waiters = a.waiters
  BY <1>2, <1>5, <1>6, ReplacedRecordClaims
<1> HIDE DEF d
<1>8. Relists(d, e) /\ e.queue = Without(d.queue, {v}) /\ e.replacements = d.replacements
  BY <1>7, WithoutMembers DEF Relists, CoordinatorType, SameCounters
<1> HIDE DEF e
<1>9. /\ Relists(e, f) /\ f.queue = e.queue
      /\ f.replacements = IF e.req[r].spec.freshness = "LATEST" THEN e.replacements \cup {r} ELSE e.replacements
  BY <1>8, ReplacingEffect DEF Relists
<1> HIDE DEF f
<1>10. Relists(d, f)
  BY <1>8, <1>9, RelistsIsTransitive
<1>12. e.req[r].spec = c.req[r].spec /\ SameCourse(c.req[r], p)
  BY <1>2, <1>5, <1>7, <1>8 DEF SameCourse, Relists
<1>13. f \in CoordinatorType /\ f.req[r] = p /\ Only(c, f, r)
  BY <1>1, <1>7, <1>10 DEF Relists, Only
<1>14. /\ p.bytes = c.req[r].spec.bytes /\ p.token = c.req[r].token
       /\ p.claim = c.req[r].claim /\ (p.counted <=> v = NoRequest)
       /\ (p.ticket <=> c.req[r].ticket \/ NeedsTicket(c, r, v))
  BY <1>1, <1>2, <1>5 DEF SameCourse, SameHold, SameClaims
<1>15. f.results = c.results + Release(NeedsTicket(c, r, v)) /\ f.ctx = c.ctx
  BY <1>1, <1>7, <1>10 DEF Relists
<1>16. f.queue = Without(c.queue, {v}) /\ f.inflight = c.inflight
       /\ f.replacements = IF c.req[r].spec.freshness = "LATEST" THEN c.replacements \cup {r}
                           ELSE c.replacements
  BY <1>2, <1>7, <1>8, <1>9, <1>10, <1>12 DEF Relists, SameLists
<1>17. f.requests = c.requests + Release(v = NoRequest) /\ f.waiters = c.waiters
       /\ f.bytes = c.bytes + c.req[r].spec.bytes
  BY <1>2, <1>7, <1>10, <1>11 DEF Relists, SameCounters
<1>18. Copying(c, f, r, v)
  BY <1>5, <1>12, <1>13, <1>14, <1>15, <1>16, <1>17 DEF Copying
<1> QED
  BY <1>3, <1>18 DEF a, e, f

(* Admission with a copy keeps the invariant. *)
LEMMA SnapshotSound ==
  ASSUME NEW b, NEW c, NEW s, NEW w, NEW L, NEW staging, NEW running,
         Sound(b, c, s, w, L, staging, running), NEW r \in Requests, s[r].pc = "admit",
         NEW v \in Requests \cup {NoRequest},
         v # NoRequest => v \in Queued(c) /\ SameStream(c, v, r),
         c.req[r].spec.freshness = "LATEST" => \A q \in c.replacements : ~SameStream(c, q, r),
         v = NoRequest => c.requests < MaxRequests,
         c.bytes + c.req[r].spec.bytes <= MaxInputBytes,
         NeedsTicket(c, r, v) => c.results < MaxResults,
         NEW t, Moves(s, t, r, "snapshot", v), NEW d, Copying(c, d, r, v)
  PROVE  Sound(b, d, t, w, L, staging, running) /\ Decided(c, d)
<1>1. Accounts(c, s, L, staging)
  BY DEF Sound
<1>2. /\ c \in CoordinatorType /\ L \in SUBSET Requests /\ Placed(c.req[r], "admit", s[r].victim, r \in L)
      /\ NoRequest \notin Requests
  BY <1>1, Parts
<1>3. c.req[r].state = "QUEUED" /\ c.req[r].result = "none" /\ r \notin L /\ ~c.req[r].claim
  BY <1>2 DEF Placed, Clear
<1>4. /\ d \in CoordinatorType /\ Only(c, d, r)
      /\ SameCourse(c.req[r], d.req[r]) /\ d.req[r].budget /\ ~d.req[r].claim
      /\ (d.req[r].counted <=> v = NoRequest)
      /\ d.req[r].bytes = c.req[r].spec.bytes /\ d.req[r].token = c.req[r].token
      /\ (d.req[r].ticket <=> c.req[r].ticket \/ NeedsTicket(c, r, v))
      /\ d.results = c.results + Release(NeedsTicket(c, r, v)) /\ d.ctx = c.ctx
      /\ d.queue = Without(c.queue, {v}) /\ d.inflight = c.inflight
      /\ d.replacements = IF c.req[r].spec.freshness = "LATEST" THEN c.replacements \cup {r}
                          ELSE c.replacements
      /\ d.requests = c.requests + Release(v = NoRequest) /\ d.waiters = c.waiters
      /\ d.bytes = c.bytes + c.req[r].spec.bytes
  BY <1>3 DEF Copying
<1>5. \A q \in Requests : q # r => SameCore(c.req[q], d.req[q])
  BY <1>4 DEF Only, SameCore, SameClaims, SameCourse
<1>6. Accounts(d, t, L, staging)
  BY <1>1, <1>4, <1>5, SnapshotKeeps
<1>7. Decided(c, d)
  <2>1. \A q \in Requests : q \in {r} => c.req[q].state \in {"NONE", "QUEUED"}
    BY <1>3
  <2>2. \A q \in Requests : q \notin {r} => SameCore(c.req[q], d.req[q])
    BY <1>5
  <2> QED
    BY <2>1, <2>2, OthersDecided
<1>8. ASSUME b PROVE Reservations(d, t, w, L, running)
  <2>1. Reservations(c, s, w, L, running)
    BY <1>8 DEF Sound
  <2>2. TicketOK(c.req[r], "admit", s[r].victim, FALSE) /\ TokenOK(c, r, LeftBy(s, r), FALSE)
    <3>1. TicketOK(c.req[r], s[r].pc, s[r].victim, r \in L) /\ TokenOK(c, r, LeftBy(s, r), r \in L)
      BY <2>1 DEF Reservations
    <3>2. (r \in L) = FALSE
      BY <1>3
    <3> QED
      BY <3>1, <3>2
  <2>3. v # NoRequest => c.req[v].ticket /\ ~c.req[r].ticket
    <3> HAVE v # NoRequest
    <3>1. v \in Requests /\ s[v].pc = "accepted" /\ c.req[v].state = "QUEUED"
      BY <1>1, QueuedClaims
    <3>2. c.req[v].ticket
      BY <2>1, <3>1 DEF Reservations, TicketOK
    <3>3. c.req[r].spec.freshness = "LATEST"
      BY DEF SameStream
    <3> QED
      BY <2>2, <3>2, <3>3 DEF TicketOK, TicketEarly
  <2>4. d.req[r].ticket <=> v = NoRequest
    BY <1>4, <2>3 DEF NeedsTicket
  <2>5. /\ d.req[r].spec = c.req[r].spec /\ d.req[r].state = "QUEUED" /\ d.req[r].result = "none"
    BY <1>3, <1>4 DEF SameCourse
  <2>6. Elsewhere(c, d, {r}) /\ {r} \in SUBSET Requests
    <3>1. \A q \in Requests \ {r} : SameStay(c.req[q], d.req[q])
      BY <1>4 DEF SameStay, SameHold, Only
    <3> QED
      BY <1>4, <3>1 DEF Elsewhere
  <2>7. Aside(c, s, t, L, L, {r})
    <3>1. r \in {r}
      OBVIOUS
    <3> QED
      BY <3>1, MovesAside
  <2>8. t[r].pc = "snapshot" /\ t[r].victim = v
    BY DEF Moves
  <2>9. TicketOK(d.req[r], t[r].pc, t[r].victim, FALSE)
    BY <2>4, <2>5, <2>8 DEF TicketOK, Terminal
  <2>10. TokenOK(d, r, LeftBy(t, r), FALSE)
    BY <1>3, <1>4, <2>2, <2>5 DEF TokenOK, Bound, ContextOf, Terminal
  <2>12. \A q \in {r} : /\ q \notin L /\ TicketOK(d.req[q], t[q].pc, t[q].victim, FALSE)
                        /\ TokenOK(d, q, LeftBy(t, q), FALSE)
    BY <1>3, <2>9, <2>10
  <2>13. ASSUME NEW x \in Contexts, d.ctx[x] # c.ctx[x] \/ c.ctx[x].token \in {r}
         PROVE  HolderOK(d, x)
    <3>1. HolderOK(c, x) /\ d.ctx[x] = c.ctx[x]
      BY <1>4, <2>1 DEF Reservations
    <3> QED
      BY <1>3, <1>4, <2>5, <2>13, <3>1 DEF HolderOK
  <2>14. Results(d, running)
    <3>1. Results(c, running)
      BY <2>1 DEF Reservations
    <3>2. \A q \in Requests : q # r => d.req[q].ticket = c.req[q].ticket
                                       /\ (Delivers(d.req[q]) <=> Delivers(c.req[q]))
      BY <1>4 DEF Only
    <3>3. Delivers(d.req[r]) <=> Delivers(c.req[r])
      BY <1>3, <2>5 DEF Delivers
    <3>4. /\ Release(Delivers(d.req[r])) = Release(Delivers(c.req[r]))
          /\ Release(d.req[r].ticket) - Release(c.req[r].ticket) = Release(NeedsTicket(c, r, v))
      <4>1. NeedsTicket(c, r, v) => ~c.req[r].ticket
        BY DEF NeedsTicket
      <4> QED
        BY <1>4, <3>3, <4>1 DEF Release
    <3>5. /\ c.results \in Int /\ MaxResults \in Nat /\ c.results <= MaxResults
      BY <1>2, <3>1, RequestConstants DEF CoordinatorType, Results
    <3>6. d.results <= MaxResults
      BY <1>4, <3>5 DEF Release
    <3>7. d.results = c.results - Release(c.req[r].ticket) + Release(d.req[r].ticket)
                      - Release(Delivers(c.req[r])) + Release(Delivers(d.req[r]))
                      - Release(running) + Release(running)
      BY <1>4, <3>4, <3>5, ReleaseCounts
    <3> QED
      BY <1>2, <1>4, <3>1, <3>2, <3>6, <3>7, ResultsOne
  <2> QED
    BY <1>2, <1>4, <2>1, <2>6, <2>7, <2>12, <2>13, <2>14, AwayKeeps
<1> QED
  BY <1>6, <1>7, <1>8 DEF Sound

(* The running requests of the stream are marked. *)
Supersedes(c, d, r) ==
  /\ Eases(c, d) /\ d.ctx = c.ctx /\ d.results = c.results
  /\ \A q \in Requests : SameStay(c.req[q], d.req[q]) /\ d.req[q].result = c.req[q].result
  /\ \A q \in Requests : c.req[q].state # "RUNNING" => d.req[q] = c.req[q]
  /\ \A q \in c.inflight : SameStream(c, q, r) /\ c.req[q].state = "RUNNING" =>
       d.req[q].superseded \/ d.req[q].cancel

(* A record that is marked as superseded. *)
LEMMA SupersededField ==
  ASSUME NEW q \in RequestType
  PROVE  LET p == [q EXCEPT !.superseded = TRUE]
         IN  /\ p \in RequestType /\ p.superseded /\ SameHold(q, p) /\ SameClaims(q, p)
             /\ p.spec = q.spec /\ p.submitted = q.submitted /\ p.state = q.state
             /\ p.cancel = q.cancel /\ p.result = q.result
BY DEF RequestType, SameHold, SameClaims

(* The running frames of the stream are marked. *)
LEMMA SupersedeInflightEffect ==
  ASSUME NEW c \in CoordinatorType, NEW r \in Requests
  PROVE  Supersedes(c, SupersedeInflight(c, r), r)
<1> DEFINE S == {q \in c.inflight : /\ SameStream(c, q, r) /\ c.req[q].state = "RUNNING"
                                    /\ ~c.req[q].cancel /\ ~c.req[q].superseded}
           Mark(q) == [c.req[q] EXCEPT !.superseded = TRUE]
           f == [q \in Requests |-> IF q \in S THEN Mark(q) ELSE c.req[q]]
           d == [c EXCEPT !.req = f]
<1>1. SupersedeInflight(c, r) = d
  BY DEF SupersedeInflight
<1>2. \A q \in Requests : c.req[q] \in RequestType
  BY Typed
<1>3. \A q \in Requests :
        /\ Mark(q) \in RequestType /\ Mark(q).superseded /\ SameHold(c.req[q], Mark(q))
        /\ SameClaims(c.req[q], Mark(q))
        /\ Mark(q).spec = c.req[q].spec /\ Mark(q).submitted = c.req[q].submitted
        /\ Mark(q).state = c.req[q].state
        /\ Mark(q).cancel = c.req[q].cancel /\ Mark(q).result = c.req[q].result
  BY <1>2, SupersededField
<1> HIDE DEF Mark
<1>4. \A q \in S : /\ SameStream(c, q, r) /\ c.req[q].state = "RUNNING"
                   /\ ~c.req[q].cancel /\ ~c.req[q].superseded
  OBVIOUS
<1>5. \A q \in c.inflight : SameStream(c, q, r) /\ c.req[q].state = "RUNNING" =>
        q \in S \/ c.req[q].superseded \/ c.req[q].cancel
  OBVIOUS
<1> HIDE DEF S
<1>6. \A q \in Requests : f[q] = IF q \in S THEN Mark(q) ELSE c.req[q]
  OBVIOUS
<1>7. f \in [Requests -> RequestType]
  BY <1>2, <1>3
<1> HIDE DEF f
<1>8. /\ d \in CoordinatorType /\ d.req = f /\ d.ctx = c.ctx /\ d.results = c.results
      /\ SameLists(c, d) /\ SameCounters(c, d)
  BY <1>7 DEF CoordinatorType, SameLists, SameCounters
<1> HIDE DEF d
<1>9. \A q \in Requests : SameStay(c.req[q], f[q]) /\ f[q].result = c.req[q].result
  BY <1>3, <1>6 DEF SameStay, SameHold
<1>10. \A q \in Requests : Eased(c.req[q], f[q])
  <2> TAKE q \in Requests
  <2>1. CASE q \in S
    <3>1. f[q] = Mark(q)
      BY <1>6, <2>1
    <3> QED
      BY <1>3, <1>4, <2>1, <3>1 DEF Eased
  <2>2. CASE q \notin S
    <3>1. f[q] = c.req[q]
      BY <1>6, <2>2
    <3> QED
      BY <3>1 DEF Eased, SameClaims
  <2> QED
    BY <2>1, <2>2
<1>11. Eases(c, d)
  BY <1>8, <1>10 DEF Eases
<1>12. \A q \in Requests : c.req[q].state # "RUNNING" => f[q] = c.req[q]
  BY <1>4, <1>6
<1>13. \A q \in c.inflight : SameStream(c, q, r) /\ c.req[q].state = "RUNNING" =>
         f[q].superseded \/ f[q].cancel
  <2> TAKE q \in c.inflight
  <2> HAVE SameStream(c, q, r) /\ c.req[q].state = "RUNNING"
  <2>1. q \in Requests
    BY DEF CoordinatorType
  <2>2. CASE q \in S
    BY <1>3, <1>6, <2>1, <2>2
  <2>3. CASE q \notin S
    BY <1>5, <1>6, <2>1, <2>3
  <2> QED
    BY <2>2, <2>3
<1>14. Supersedes(c, d, r)
  BY <1>8, <1>9, <1>11, <1>12, <1>13 DEF Supersedes
<1> QED
  BY <1>1, <1>14

(* The stream's older frames are marked or leave. *)
LEMMA OlderFramesGo ==
  ASSUME NEW b, NEW c, NEW s, NEW w, NEW L, NEW staging, NEW running,
         Sound(b, c, s, w, L, staging, running), NEW r \in Requests,
         s[r].pc \in {"swap", "snapshot"}, s[r].pc = "snapshot" => s[r].victim = NoRequest
  PROVE  LET e == SupersedeQueued(SupersedeInflight(c, r), r)
         IN  /\ e \in CoordinatorType /\ Sound(b, e, s, w, L, staging, running) /\ Decided(c, e)
             /\ \A q \in Requests : Deliverable(e, s, q) => ~SameStream(e, q, r)
             /\ \A q \in Requests : c.req[q].state # "RUNNING" /\ q \notin Queued(c) => e.req[q] = c.req[q]
<1> DEFINE a == SupersedeInflight(c, r)
           S == {q \in Queued(a) : SameStream(a, q, r)}
           e == SupersedeQueued(a, r)
<1>1. Accounts(c, s, L, staging)
  BY DEF Sound
<1>2. c \in CoordinatorType /\ L \in SUBSET Requests /\ ListsOK(c, s) /\ NoRequest \notin Requests
  BY <1>1, Parts
<1>3. Supersedes(c, a, r)
  BY <1>2, SupersedeInflightEffect
<1> HIDE DEF a
<1>4. /\ Eases(c, a) /\ a \in CoordinatorType /\ a.ctx = c.ctx /\ a.results = c.results
      /\ \A q \in Requests : SameStay(c.req[q], a.req[q]) /\ a.req[q].result = c.req[q].result
      /\ \A q \in Requests : c.req[q].state # "RUNNING" => a.req[q] = c.req[q]
      /\ \A q \in c.inflight : SameStream(c, q, r) /\ c.req[q].state = "RUNNING" =>
           a.req[q].superseded \/ a.req[q].cancel
  BY <1>3 DEF Supersedes, Eases
<1>5. Accounts(a, s, L, staging) /\ Decided(c, a)
  BY <1>1, <1>4, EaseKeeps, EasesDecided
<1>6. b => Reservations(a, s, w, L, running)
  <2> HAVE b
  <2>1. Reservations(c, s, w, L, running)
    BY DEF Sound
  <2>2. \A q \in Requests : SameStay(c.req[q], a.req[q]) /\ (Delivers(a.req[q]) <=> Delivers(c.req[q]))
    BY <1>4 DEF Delivers
  <2> QED
    BY <1>2, <1>4, <2>1, <2>2, HoldsSame
<1>7. Sound(b, a, s, w, L, staging, running)
  BY <1>5, <1>6 DEF Sound
<1>8. e = WithdrawAll(a, S, "SUPERSEDED")
  BY DEF SupersedeQueued
<1>9. S \subseteq Queued(a) /\ "SUPERSEDED" \in Terminal \ {"SUCCEEDED"}
  BY DEF Terminal
<1>14. \A q \in Queued(a) : q \in S <=> SameStream(a, q, r)
  OBVIOUS
<1> HIDE DEF S, e
<1>10. /\ e \in CoordinatorType /\ Sound(b, e, s, w, L, staging, running)
       /\ Decided(a, e) /\ HaveLeft(a, e, S, "SUPERSEDED")
  BY <1>7, <1>8, <1>9, WithdrawAllSound
<1>11. Decided(c, e)
  BY <1>5, <1>10, DecidedIsTransitive
<1>12. Queued(a) = Queued(c) /\ Queued(a) \subseteq Requests
  BY <1>4 DEF Eases, SameLists, Queued, CoordinatorType
<1>13. \A q \in Requests : q \notin S => e.req[q] = a.req[q]
  BY <1>10 DEF HaveLeft
<1>15. \A q \in S : e.req[q].state = "SUPERSEDED"
  BY <1>10 DEF HaveLeft
<1>16. r \notin S
  BY <1>5, <1>9, QueuedClaims
<1>17. ASSUME NEW q \in Requests, Deliverable(e, s, q), SameStream(e, q, r) PROVE FALSE
  <2>1. /\ s[q].pc = "accepted" /\ e.req[q].state \in {"QUEUED", "RUNNING"}
        /\ ~e.req[q].superseded /\ ~e.req[q].cancel
    BY <1>17 DEF Deliverable
  <2>2. q \notin S
    BY <1>15, <2>1
  <2>3. e.req[q] = a.req[q] /\ e.req[r] = a.req[r]
    BY <1>13, <1>16, <2>2
  <2>4. SameStream(a, q, r)
    BY <1>17, <2>3, StreamsOfSpecs
  <2>5. SameStream(c, q, r)
    BY <1>4, <2>4, StreamsOfSpecs DEF SameStay
  <2>6. CASE a.req[q].state = "RUNNING"
    <3>1. c.req[q].state = "RUNNING" /\ q \in c.inflight
      BY <1>2, <1>4, <2>6 DEF SameStay, ListsOK
    <3> QED
      BY <1>4, <2>1, <2>3, <2>5, <3>1
  <2>7. CASE a.req[q].state = "QUEUED"
    <3>1. VictimsOK(a, s) /\ QueueOK(a, s) /\ ListsOK(a, s)
      BY <1>5, Parts
    <3>2. q \notin Queued(a)
      BY <1>14, <2>2, <2>4
    <3>3. HeldBy(s, q)
      BY <2>1, <2>7, <3>1, <3>2 DEF QueueOK
    <3>4. PICK p \in Requests : s[p].pc = "snapshot" /\ s[p].victim = q
      BY <3>3 DEF HeldBy
    <3>5. SameStream(a, q, p)
      BY <1>2, <3>1, <3>4 DEF VictimsOK
    <3>6. SameStream(a, p, r)
      BY <2>4, <3>5, StreamsAreEquivalence
    <3>7. a.req[p].spec.freshness = "LATEST" /\ a.req[r].spec.freshness = "LATEST"
      BY <3>6, StreamsAreEquivalence
    <3>8. p \in a.replacements /\ r \in a.replacements
      BY <3>1, <3>4, <3>7 DEF ListsOK
    <3>9. p = r
      BY <3>1, <3>6, <3>8 DEF ListsOK
    <3> QED
      BY <1>2, <3>4, <3>9
  <2> QED
    BY <2>1, <2>3, <2>6, <2>7
<1>18. \A q \in Requests : c.req[q].state # "RUNNING" /\ q \notin Queued(c) => e.req[q] = c.req[q]
  BY <1>4, <1>9, <1>12, <1>13
<1> QED
  BY <1>10, <1>11, <1>17, <1>18 DEF e, a

(* The incoming frame joins the queue; its replacement is over. *)
Enqueues(e, d, r) ==
  /\ d \in CoordinatorType /\ Only(e, d, r)
  /\ SameCourse(e.req[r], d.req[r]) /\ SameHold(e.req[r], d.req[r])
  /\ d.req[r].budget = e.req[r].budget /\ d.req[r].bytes = e.req[r].bytes
  /\ d.req[r].counted /\ d.req[r].claim
  /\ d.queue = Append(e.queue, r) /\ d.inflight = e.inflight
  /\ d.replacements = e.replacements \ {r} /\ d.requests = e.requests
  /\ d.waiters = e.waiters + Release(~e.req[r].claim) /\ d.bytes = e.bytes
  /\ d.ctx = e.ctx /\ d.results = e.results

(* A frame whose copy is done joins the queue. *)
LEMMA EnqueuedEffect ==
  ASSUME NEW e \in CoordinatorType, NEW r \in Requests, e.req[r].counted, e.req[r].claim
  PROVE  Enqueues(e, Replaced(Appended(e, r), r), r)
<1> DEFINE f == Appended(e, r)
           d == Replaced(f, r)
<1>1. Relists(e, f) /\ f.queue = Append(e.queue, r) /\ f.replacements = e.replacements
  BY AppendedEffect
<1> HIDE DEF f
<1>2. Relists(f, d) /\ d.queue = f.queue /\ d.replacements = f.replacements \ {r}
  BY <1>1, ReplacedEffect DEF Relists
<1> HIDE DEF d
<1>3. Relists(e, d)
  BY <1>1, <1>2, RelistsIsTransitive
<1>4. d.waiters = e.waiters + Release(~e.req[r].claim)
  <2>1. d.waiters = e.waiters /\ e.waiters \in Int
    BY <1>3 DEF Relists, SameCounters, CoordinatorType
  <2>2. Release(~e.req[r].claim) = 0
    BY DEF Release
  <2> QED
    BY <2>1, <2>2
<1>5. Enqueues(e, d, r)
  BY <1>1, <1>2, <1>3, <1>4 DEF Enqueues, Relists, Only, SameCourse, SameHold, SameCounters
<1> QED
  BY <1>5 DEF d, f

PutCounted(q) == [q EXCEPT !.counted = TRUE, !.claim = TRUE]

(* A record that is counted and has its claim on the route. *)
LEMMA CountedField ==
  ASSUME NEW q \in RequestType
  PROVE  LET p == PutCounted(q)
         IN  /\ p \in RequestType /\ SameCourse(q, p) /\ SameHold(q, p)
             /\ p.counted /\ p.claim /\ p.budget = q.budget /\ p.bytes = q.bytes
BY DEF PutCounted, RequestType, SameCourse, SameHold

(* A frame joins the queue and completes its claims. *)
LEMMA ClaimedEffect ==
  ASSUME NEW e \in CoordinatorType, NEW r \in Requests, e.req[r].counted
  PROVE  Enqueues(e, Replaced(Appended(Claimed(e, r), r), r), r)
<1> DEFINE p == PutCounted(e.req[r])
           i == e.requests + Release(~e.req[r].counted)
           k == e.waiters + Release(~e.req[r].claim)
           a == PutClaims(e, r, p, i, e.bytes, k)
           f == Appended(a, r)
           d == Replaced(f, r)
<1>1. Claimed(e, r) = a
  BY DEF Claimed, PutClaims, PutCounted, CoordinatorType
<1>2. e.req[r] \in RequestType
  BY Typed
<1>3. /\ p \in RequestType /\ SameCourse(e.req[r], p) /\ SameHold(e.req[r], p)
      /\ p.counted /\ p.claim /\ p.budget = e.req[r].budget /\ p.bytes = e.req[r].bytes
  BY <1>2, CountedField
<1>4. e.requests \in Int /\ e.bytes \in Int /\ e.waiters \in Int
  BY DEF CoordinatorType
<1>5. i = e.requests
  BY <1>4 DEF Release
<1>6. k \in Int
  BY <1>4, ReleaseCounts
<1> HIDE DEF p, i
<1>7. /\ a \in CoordinatorType /\ a.req[r] = p /\ Only(e, a, r)
      /\ a.ctx = e.ctx /\ a.results = e.results /\ SameLists(e, a)
      /\ a.requests = i /\ a.bytes = e.bytes /\ a.waiters = k
  <2> HIDE DEF k
  <2> QED
    BY <1>3, <1>4, <1>5, <1>6, ReplacedRecordClaims
<1> HIDE DEF a
<1>8. Relists(a, f) /\ f.queue = Append(a.queue, r) /\ f.replacements = a.replacements
  BY <1>7, AppendedEffect
<1> HIDE DEF f
<1>9. Relists(f, d) /\ d.queue = f.queue /\ d.replacements = f.replacements \ {r}
  BY <1>8, ReplacedEffect DEF Relists
<1> HIDE DEF d
<1>10. Relists(a, d)
  BY <1>8, <1>9, RelistsIsTransitive
<1>11. /\ d \in CoordinatorType /\ d.req[r] = p /\ Only(e, d, r) /\ d.ctx = e.ctx /\ d.results = e.results
  BY <1>7, <1>10 DEF Relists, Only
<1>12. /\ d.queue = Append(e.queue, r) /\ d.inflight = e.inflight
       /\ d.replacements = e.replacements \ {r} /\ d.requests = e.requests
       /\ d.waiters = k /\ d.bytes = e.bytes
  BY <1>5, <1>7, <1>8, <1>9, <1>10 DEF Relists, SameCounters, SameLists
<1>13. Enqueues(e, d, r)
  BY <1>3, <1>11, <1>12 DEF Enqueues
<1> QED
  BY <1>1, <1>13 DEF d, f

(* The payload is in place: the frame joins, older ones of its stream go.  *)
LEMMA JoinSound ==
  ASSUME NEW b, NEW c, NEW s, NEW w, NEW L, NEW staging, NEW running,
         Sound(b, c, s, w, L, staging, running), NEW r \in Requests,
         s[r].pc \in {"swap", "snapshot"}, s[r].pc = "snapshot" => s[r].victim = NoRequest,
         b /\ s[r].pc = "swap" => s[r].victim = NoRequest \/ ~c.req[s[r].victim].token,
         NEW t, Moves(s, t, r, "accepted", NoRequest),
         NEW d, Enqueues(SupersedeQueued(SupersedeInflight(c, r), r), d, r)
  PROVE  Sound(b, d, t, w, L, staging, running) /\ Decided(c, d)
<1> DEFINE e == SupersedeQueued(SupersedeInflight(c, r), r)
<1>1. Accounts(c, s, L, staging)
  BY DEF Sound
<1>2. /\ e \in CoordinatorType /\ Sound(b, e, s, w, L, staging, running) /\ Decided(c, e)
      /\ \A q \in Requests : Deliverable(e, s, q) => ~SameStream(e, q, r)
      /\ \A q \in Requests : c.req[q].state # "RUNNING" /\ q \notin Queued(c) => e.req[q] = c.req[q]
  BY OlderFramesGo
<1>3. Enqueues(e, d, r)
  OBVIOUS
<1> HIDE DEF e
<1>4. Accounts(e, s, L, staging)
  BY <1>2 DEF Sound
<1>5. /\ Placed(e.req[r], s[r].pc, s[r].victim, r \in L) /\ NoRequest \notin Requests
      /\ L \in SUBSET Requests
  BY <1>4, Parts
<1>6. e.req[r].state = "QUEUED" /\ r \notin L
  BY <1>5 DEF Placed
<1>7. /\ d \in CoordinatorType /\ Only(e, d, r)
      /\ SameCourse(e.req[r], d.req[r]) /\ SameHold(e.req[r], d.req[r])
      /\ d.req[r].budget = e.req[r].budget /\ d.req[r].bytes = e.req[r].bytes
      /\ d.req[r].counted /\ d.req[r].claim
      /\ d.queue = Append(e.queue, r) /\ d.inflight = e.inflight
      /\ d.replacements = e.replacements \ {r} /\ d.requests = e.requests
      /\ d.waiters = e.waiters + Release(~e.req[r].claim) /\ d.bytes = e.bytes
      /\ d.ctx = e.ctx /\ d.results = e.results
  BY <1>3 DEF Enqueues
<1>8. \A q \in Requests : q # r => SameCore(e.req[q], d.req[q])
  BY <1>7 DEF Only, SameCore, SameClaims, SameCourse
<1>9. Accounts(d, t, L, staging)
  <2>1. s[r].pc = "snapshot" => s[r].victim = NoRequest
    OBVIOUS
  <2> QED
    BY <1>2, <1>4, <1>7, <1>8, <2>1, EnqueueKeeps
<1>10. Decided(e, d)
  <2>1. \A q \in Requests : q \in {r} => e.req[q].state \in {"NONE", "QUEUED"}
    BY <1>6
  <2>2. \A q \in Requests : q \notin {r} => SameCore(e.req[q], d.req[q])
    BY <1>8
  <2> QED
    BY <2>1, <2>2, OthersDecided
<1>11. Decided(c, d)
  BY <1>2, <1>10, DecidedIsTransitive
<1>12. ASSUME b PROVE Reservations(d, t, w, L, running)
  <2>1. Reservations(e, s, w, L, running)
    BY <1>2, <1>12 DEF Sound
  <2>2. \A q \in Requests : SameStay(e.req[q], d.req[q]) /\ (Delivers(d.req[q]) <=> Delivers(e.req[q]))
    BY <1>7 DEF Only, SameStay, SameHold, SameCourse, Delivers
  <2>3. TicketOK(e.req[r], s[r].pc, s[r].victim, r \in L)
    BY <2>1 DEF Reservations
  <2>4. e.req[r].ticket
    BY <2>3 DEF TicketOK
  <2>5. t[r].pc = "accepted" /\ t[r].victim = NoRequest
    BY DEF Moves
  <2>6. TicketOK(e.req[r], t[r].pc, t[r].victim, FALSE)
    BY <1>6, <2>4, <2>5 DEF TicketOK, Terminal
  <2>7. s[r].pc = "swap" => s[r].victim = NoRequest \/ ~e.req[s[r].victim].token
    <3> SUFFICES ASSUME s[r].pc = "swap", s[r].victim # NoRequest PROVE ~e.req[s[r].victim].token
      OBVIOUS
    <3>1. VictimsOK(c, s) /\ s[r].victim \in Requests
      BY <1>1, Parts
    <3>2. c.req[s[r].victim].state = "SUPERSEDED"
      BY <3>1 DEF VictimsOK
    <3>3. s[r].victim \notin Queued(c)
      BY <1>1, <3>2, QueuedClaims
    <3>4. e.req[s[r].victim] = c.req[s[r].victim]
      BY <1>2, <3>1, <3>2, <3>3
    <3> QED
      BY <1>12, <3>4
  <2>8. Aside(e, s, t, L, L, {r})
    <3>1. r \in {r}
      OBVIOUS
    <3> QED
      BY <2>7, <3>1, MovesAside
  <2> QED
    BY <1>2, <1>5, <1>6, <1>7, <2>1, <2>2, <2>6, <2>8, HoldsMoved
<1> QED
  BY <1>9, <1>11, <1>12 DEF Sound

(* The predecessor's context is given back, if it still had one. *)
Frees(c, d, r, v) ==
  /\ d \in CoordinatorType /\ ~d.req[v].token /\ d.req[r] = c.req[r]
  /\ \A q \in Requests : SameCourse(c.req[q], d.req[q])

(* The predecessor of a swap gives its context back. *)
LEMMA FreedSound ==
  ASSUME NEW b, NEW c, NEW s, NEW w, NEW L, NEW staging, NEW running,
         Sound(b, c, s, w, L, staging, running), NEW r \in Requests, NEW v \in Requests,
         s[r].pc = "swap", s[r].victim = v
  PROVE  LET d == InputsClear(c, v)
         IN  Sound(b, d, s, w, L, staging, running) /\ Decided(c, d) /\ Frees(c, d, r, v)
<1> DEFINE d == InputsClear(c, v)
           y == c.req[v].spec.context
<1>1. Accounts(c, s, L, staging)
  BY DEF Sound
<1>2. /\ c \in CoordinatorType /\ L \in SUBSET Requests /\ NoRequest \notin Requests
      /\ VictimsOK(c, s) /\ Placed(c.req[v], s[v].pc, s[v].victim, v \in L)
  BY <1>1, Parts
<1>3. s[v].pc = "accepted" /\ c.req[v].state = "SUPERSEDED" /\ v # r
  BY <1>2 DEF VictimsOK
<1>4. v \notin L
  BY <1>2, <1>3 DEF Placed
<1>5. /\ Light(c, d) /\ Only(c, d, v) /\ ~d.req[v].token
      /\ ~c.req[v].token => d = c
      /\ c.req[v].token /\ Bound(c, v) /\ UnreserveOK(ContextOf(c, v), v) =>
           /\ ~d.req[v].ticket /\ d.results = c.results - Release(c.req[v].ticket)
           /\ d.ctx[y] = Unreserve(ContextOf(c, v), v)
           /\ \A z \in Contexts : z # y => d.ctx[z] = c.ctx[z]
  BY <1>2, InputsCleared
<1> HIDE DEF d, y
<1>6. d \in CoordinatorType /\ Eases(c, d) /\ \A q \in Requests : SameCourse(c.req[q], d.req[q])
  BY <1>5, LightEases DEF Light, SameCore
<1>7. Accounts(d, s, L, staging) /\ Decided(c, d)
  BY <1>1, <1>6, EaseKeeps, EasesDecided
<1>8. ASSUME b PROVE Reservations(d, s, w, L, running)
  <2>1. Reservations(c, s, w, L, running)
    BY <1>8 DEF Sound
  <2>2. CASE ~c.req[v].token
    BY <1>5, <2>1, <2>2
  <2>3. CASE c.req[v].token
    <3>1. TicketOK(c.req[v], s[v].pc, s[v].victim, v \in L) /\ TokenOK(c, v, LeftBy(s, v), v \in L)
      BY <2>1 DEF Reservations
    <3>2. ~c.req[v].ticket
      BY <1>3, <3>1 DEF TicketOK, Terminal
    <3>3. /\ Bound(c, v) /\ ContextOf(c, v).token = v /\ ContextOf(c, v).call = v
          /\ ContextOf(c, v).state \in {"QUEUED", "CANCELLED"}
      BY <2>3, <3>1 DEF TokenOK
    <3>4. UnreserveOK(ContextOf(c, v), v) /\ y \in Contexts /\ ContextOf(c, v) \in ContextType
          /\ ContextOf(c, v) = c.ctx[y]
      BY <1>2, <3>3, Typed DEF UnreserveOK, y, ContextOf
    <3>5. /\ ~d.req[v].ticket /\ d.results = c.results - Release(c.req[v].ticket)
          /\ d.ctx[y] = Unreserve(ContextOf(c, v), v)
          /\ \A z \in Contexts : z # y => d.ctx[z] = c.ctx[z]
      BY <1>5, <2>3, <3>3, <3>4
    <3>6. d.ctx[y].token = NoRequest /\ d.ctx[y].state \in {"READY", "CANCELLED"}
      BY <3>4, <3>5, UnreserveFrees
    <3>7. Elsewhere(c, d, {v}) /\ {v} \in SUBSET Requests
      <4>1. \A q \in Requests \ {v} : SameStay(c.req[q], d.req[q])
        BY <1>5 DEF SameStay, SameHold, Only
      <4>2. \A z \in Contexts :
              d.ctx[z] = c.ctx[z] \/ {c.ctx[z].token, d.ctx[z].token} \subseteq {v} \cup {NoRequest}
        BY <3>3, <3>4, <3>5, <3>6
      <4> QED
        BY <4>1, <4>2 DEF Elsewhere
    <3>8. Aside(c, s, s, L, L, {v})
      BY DEF Aside
    <3>9. d.req[v].state = "SUPERSEDED" /\ d.req[v].spec = c.req[v].spec /\ d.req[v].result = c.req[v].result
      BY <1>3, <1>6 DEF SameCourse
    <3>10. TicketOK(d.req[v], s[v].pc, s[v].victim, FALSE) /\ TokenOK(d, v, LeftBy(s, v), FALSE)
      BY <1>3, <1>5, <3>5, <3>9 DEF TicketOK, TokenOK
    <3>11. \A q \in {v} : /\ q \notin L /\ TicketOK(d.req[q], s[q].pc, s[q].victim, FALSE)
                          /\ TokenOK(d, q, LeftBy(s, q), FALSE)
      BY <1>4, <3>10
    <3>12. ASSUME NEW x \in Contexts, d.ctx[x] # c.ctx[x] \/ c.ctx[x].token \in {v}
           PROVE  HolderOK(d, x)
      <4>1. HolderOK(c, x)
        BY <2>1 DEF Reservations
      <4>2. x = y
        BY <1>2, <3>5, <3>12, <4>1 DEF HolderOK, y
      <4> QED
        BY <3>6, <4>2 DEF HolderOK
    <3>13. Results(d, running)
      <4>1. Results(c, running)
        BY <2>1 DEF Reservations
      <4>2. \A q \in Requests : d.req[q].ticket = c.req[q].ticket
                                /\ (Delivers(d.req[q]) <=> Delivers(c.req[q]))
        <5> TAKE q \in Requests
        <5>1. CASE q = v
          <6>1. d.req[v].ticket = c.req[v].ticket
            <7>1. c.req[v] \in RequestType /\ d.req[v] \in RequestType
              BY <1>2, <1>6, Typed
            <7> QED
              BY <3>2, <3>5, <7>1 DEF RequestType
          <6> QED
            BY <3>9, <5>1, <6>1 DEF Delivers
        <5>2. CASE q # v
          BY <1>5, <5>2 DEF Only
        <5> QED
          BY <5>1, <5>2
      <4>3. d.results = c.results
        BY <1>2, <3>2, <3>5 DEF Release, CoordinatorType
      <4> QED
        BY <4>1, <4>2, <4>3, ResultsSame
    <3> QED
      BY <1>2, <1>6, <2>1, <3>7, <3>8, <3>11, <3>12, <3>13, AwayKeeps
  <2> QED
    BY <2>2, <2>3
<1>9. Frees(c, d, r, v)
  BY <1>3, <1>5, <1>6 DEF Frees, Only
<1> QED
  BY <1>7, <1>8, <1>9 DEF Sound, d

(* A swap that close has overtaken ends as cancelled. *)
LEMMA StoppedSound ==
  ASSUME NEW b, NEW c, NEW s, NEW w, NEW L, NEW staging, NEW running,
         Sound(b, c, s, w, L, staging, running), NEW r \in Requests,
         s[r].pc = "swap", s[r].victim \in Requests => ~c.req[s[r].victim].token,
         NEW t, Moves(s, t, r, "accepted", NoRequest)
  PROVE  LET d == Replaced(Withdrawn(c, r, "CANCELLED"), r)
         IN  Sound(b, d, t, w, L, staging, running) /\ Decided(c, d)
<1> DEFINE a == Withdrawn(c, r, "CANCELLED")
           d == Replaced(a, r)
<1>1. Accounts(c, s, L, staging)
  BY DEF Sound
<1>2. /\ c \in CoordinatorType /\ L \in SUBSET Requests /\ staging \in Nat /\ Counted(c, staging)
      /\ Placed(c.req[r], "swap", s[r].victim, r \in L)
      /\ \A q \in Requests : s[q].victim \in Requests \cup {NoRequest}
      /\ NoRequest \notin Requests
  BY <1>1, Parts
<1>3. /\ c.req[r].state = "QUEUED" /\ c.req[r].result = "none" /\ r \notin L /\ Claims(c.req[r])
  BY <1>2 DEF Placed
<1>4. c.req[r].budget /\ c.req[r].bytes <= c.bytes
  BY <1>2, <1>3, BytesIncluded DEF Claims
<1>5. "CANCELLED" \in States
  BY DEF States, Terminal
<1>6. /\ Left(c, a, r, "CANCELLED") /\ Only(c, a, r)
      /\ HasReservation(c, r) => LetsGo(c, a, r)
  BY <1>2, <1>4, <1>5, WithdrawnEffect
<1> HIDE DEF a
<1>7. a \in CoordinatorType
  BY <1>6 DEF Left
<1>8. Relists(a, d) /\ d.queue = a.queue /\ d.replacements = a.replacements \ {r}
  BY <1>7, ReplacedEffect
<1> HIDE DEF d
<1>9. /\ d \in CoordinatorType /\ \A q \in Requests : q # r => SameCore(c.req[q], d.req[q])
      /\ d.req[r].spec = c.req[r].spec /\ d.req[r].result = c.req[r].result
      /\ d.req[r].state = "CANCELLED" /\ Clear(d.req[r])
      /\ d.queue = Without(c.queue, {r}) /\ d.inflight = c.inflight
      /\ d.replacements = c.replacements \ {r}
      /\ d.requests = c.requests - Release(c.req[r].counted)
      /\ d.bytes = c.bytes - c.req[r].bytes
      /\ d.waiters = c.waiters - Release(c.req[r].claim)
  BY <1>6, <1>8 DEF Left, Relists, SameCounters
<1>10. "CANCELLED" \in Terminal \ {"SUCCEEDED"}
  BY DEF Terminal
<1>11. Accounts(d, t, L, staging)
  <2>1. d.req[r].state \in Terminal \ {"SUCCEEDED"}
    BY <1>9, <1>10
  <2>2. r \in Queued(c) \/ s[r].pc = "swap"
    OBVIOUS
  <2> QED
    BY <1>1, <1>9, <2>1, <2>2, LeaveKeeps
<1>12. Decided(c, d)
  <2>1. \A q \in Requests : q \in {r} => c.req[q].state \in {"NONE", "QUEUED"}
    BY <1>3
  <2>2. \A q \in Requests : q \notin {r} => SameCore(c.req[q], d.req[q])
    BY <1>9
  <2> QED
    BY <2>1, <2>2, OthersDecided
<1>13. ASSUME b PROVE Reservations(d, t, w, L, running)
  <2>1. Reservations(c, s, w, L, running)
    BY <1>13 DEF Sound
  <2>2. LetsGo(c, a, r)
    BY <1>2, <1>3, <1>6, <2>1, WaitingHolds
  <2>3. LetsGo(c, d, r)
    BY <1>8, <2>2 DEF LetsGo, Relists, Only
  <2>4. \A q \in Requests : q # r => t[q] = s[q]
    BY DEF Moves
  <2>5. \A q \in Requests : q # r /\ c.req[q].token /\ LeftBy(s, q) => LeftBy(t, q)
    <3> SUFFICES ASSUME NEW q \in Requests, q # r, c.req[q].token, LeftBy(s, q) PROVE LeftBy(t, q)
      OBVIOUS
    <3>1. PICK p \in Requests : s[p].pc = "swap" /\ s[p].victim = q
      BY DEF LeftBy
    <3>2. p # r
      BY <3>1
    <3> QED
      BY <2>4, <3>1, <3>2 DEF LeftBy
  <2>6. d.req[r].state \in Terminal \cup {"NONE"} /\ t[r].pc \in {"accepted", "refused"}
    BY <1>9, <1>10 DEF Moves
  <2>7. Delivers(d.req[r]) <=> Delivers(c.req[r])
    BY <1>9 DEF Delivers
  <2> QED
    BY <1>2, <1>3, <1>9, <2>1, <2>3, <2>4, <2>5, <2>6, <2>7, LetsGoKeeps
<1> QED
  BY <1>11, <1>12, <1>13 DEF Sound, d, a

PutCount(q, k, e) == [q EXCEPT !.counted = k, !.claim = e]
HasCount(q, p, k, e) ==
  /\ p \in RequestType /\ SameCourse(q, p) /\ SameHold(q, p)
  /\ p.budget = q.budget /\ p.counted = k /\ p.bytes = q.bytes /\ p.claim = e
(* The count and the claim of a request are set. *)
LEMMA CountField ==
  ASSUME NEW q \in RequestType, NEW k \in BOOLEAN, NEW e \in BOOLEAN
  PROVE  HasCount(q, PutCount(q, k, e), k, e)
BY DEF HasCount, PutCount, RequestType, SameCourse, SameHold

(* The copy is complete: the successor inherits, the predecessor ends. *)
Inherits(c, d, r, v) ==
  /\ d \in CoordinatorType
  /\ \A q \in Requests : q \notin {r, v} => SameCore(c.req[q], d.req[q]) /\ SameHold(c.req[q], d.req[q])
  /\ SameCourse(c.req[r], d.req[r]) /\ d.req[r].budget = c.req[r].budget
  /\ d.req[r].bytes = c.req[r].bytes /\ d.req[r].counted /\ d.req[r].claim
  /\ d.req[r].token = c.req[r].token
  /\ d.req[v].spec = c.req[v].spec /\ d.req[v].result = c.req[v].result
  /\ d.req[v].state = "SUPERSEDED" /\ Clear(d.req[v])
  /\ d.queue = Without(c.queue, {v}) /\ d.inflight = c.inflight
  /\ d.replacements = c.replacements /\ d.requests = c.requests /\ d.waiters = c.waiters
  /\ d.bytes = c.bytes - c.req[v].bytes
  /\ HasReservation(c, v) /\ c.req[v].ticket /\ ~c.req[r].ticket =>
       /\ d.req[r].ticket /\ ~d.req[v].ticket /\ ~d.req[v].token /\ d.results = c.results
       /\ \A z \in Contexts : d.ctx[z] = IF Bound(c, v) /\ z = c.req[v].spec.context
                                         THEN Unreserve(c.ctx[z], v) ELSE c.ctx[z]

(* That is what Inherited does. *)
LEMMA InheritedEffect ==
  ASSUME NEW c \in CoordinatorType, NEW r \in Requests, NEW v \in Requests, r # v,
         ~c.req[r].counted, ~c.req[r].claim, Claims(c.req[v]), c.req[v].bytes <= c.bytes
  PROVE  Inherits(c, Inherited(c, r, v), r, v)
<1> DEFINE k == ~c.req[r].counted /\ c.req[v].counted
           p == PutCount(c.req[r], c.req[r].counted \/ k, c.req[r].claim \/ c.req[v].claim)
           u == PutCount(c.req[v], c.req[v].counted /\ ~k, FALSE)
           a == PutPair(c, r, p, v, u, c.queue)
           e == TicketMoved(a, r, v)
           f == Withdrawn(e, v, "SUPERSEDED")
<1>1. Inherited(c, r, v) = f
  <2>1. a = [c EXCEPT !.req[r] = [@ EXCEPT !.counted = c.req[r].counted \/ k,
                                           !.claim = c.req[r].claim \/ c.req[v].claim],
                      !.req[v] = [@ EXCEPT !.counted = c.req[v].counted /\ ~k, !.claim = FALSE]]
    BY DEF PutPair, PutCount, CoordinatorType
  <2> QED
    BY <2>1 DEF Inherited
<1>2. /\ c.req[r] \in RequestType /\ c.req[v] \in RequestType /\ c.queue \in Seq(Requests)
      /\ k \in BOOLEAN /\ k
  BY Typed DEF RequestType, CoordinatorType, Claims
<1>3. (c.req[r].counted \/ k) \in BOOLEAN /\ (c.req[r].claim \/ c.req[v].claim) \in BOOLEAN
      /\ (c.req[v].counted /\ ~k) \in BOOLEAN /\ FALSE \in BOOLEAN
  OBVIOUS
<1>4. HasCount(c.req[r], p, c.req[r].counted \/ k, c.req[r].claim \/ c.req[v].claim)
  BY <1>2, <1>3, CountField
<1>5. HasCount(c.req[v], u, c.req[v].counted /\ ~k, FALSE)
  BY <1>2, <1>3, CountField
<1>6. /\ p \in RequestType /\ SameCourse(c.req[r], p) /\ SameHold(c.req[r], p)
      /\ p.budget = c.req[r].budget /\ p.counted /\ p.bytes = c.req[r].bytes /\ p.claim
      /\ u \in RequestType /\ SameCourse(c.req[v], u) /\ SameHold(c.req[v], u)
      /\ u.budget /\ ~u.counted /\ u.bytes = c.req[v].bytes /\ ~u.claim
  <2> HIDE DEF p, u
  <2> QED
    BY <1>2, <1>4, <1>5 DEF HasCount, Claims
<1> HIDE DEF p, u, k
<1>7. Pairs(c, a, r, p, v, u, c.queue)
  BY <1>2, <1>6, PairedRecords
<1> HIDE DEF a
<1>8. a \in CoordinatorType /\ a.req[r] = p /\ a.req[v] = u /\ a.queue = c.queue /\ a.ctx = c.ctx
  BY <1>7 DEF Pairs
<1>9. TicketPassed(a, e, r, v)
  BY <1>8, TicketMovedEffect
<1> HIDE DEF e
<1>10. /\ e \in CoordinatorType /\ Light(a, e) /\ e.ctx = c.ctx /\ e.results = c.results
       /\ SameCore(a.req[v], e.req[v]) /\ SameCore(a.req[r], e.req[r])
  BY <1>7, <1>9 DEF TicketPassed, Light, Pairs
<1>11. e.req[v].budget /\ e.req[v].bytes <= e.bytes /\ "SUPERSEDED" \in States
  BY <1>6, <1>7, <1>8, <1>10 DEF SameCore, SameClaims, Light, SameCounters, Pairs, States, Terminal
<1>12. /\ Left(e, f, v, "SUPERSEDED") /\ Only(e, f, v)
       /\ HasReservation(e, v) => LetsGo(e, f, v)
  BY <1>10, <1>11, WithdrawnEffect
<1> HIDE DEF f
<1>13. f \in CoordinatorType /\ f.req[r] = e.req[r] /\ f.req[v].state = "SUPERSEDED" /\ Clear(f.req[v])
  BY <1>12 DEF Left, Only
<1>14. \A q \in Requests : q \notin {r, v} => SameCore(c.req[q], f.req[q]) /\ SameHold(c.req[q], f.req[q])
  <2> TAKE q \in Requests
  <2> HAVE q \notin {r, v}
  <2>1. f.req[q] = e.req[q] /\ a.req[q] = c.req[q]
    BY <1>7, <1>12 DEF Pairs, Only
  <2>2. SameCore(a.req[q], e.req[q]) /\ SameHold(a.req[q], e.req[q])
    BY <1>9 DEF TicketPassed, Light, SameHold
  <2> QED
    BY <2>1, <2>2
<1>15. /\ SameCourse(c.req[r], f.req[r]) /\ f.req[r].budget = c.req[r].budget
       /\ f.req[r].bytes = c.req[r].bytes /\ f.req[r].counted /\ f.req[r].claim
       /\ f.req[r].token = c.req[r].token
  BY <1>6, <1>8, <1>9, <1>10, <1>13 DEF SameCore, SameCourse, SameClaims, SameHold, TicketPassed
<1>16. f.req[v].spec = c.req[v].spec /\ f.req[v].result = c.req[v].result
  BY <1>6, <1>8, <1>10, <1>12 DEF SameCore, SameCourse, Left
<1>17. /\ f.queue = Without(c.queue, {v}) /\ f.inflight = c.inflight /\ f.replacements = c.replacements
  BY <1>7, <1>10, <1>12 DEF Left, Light, SameLists, Pairs
<1>18. f.requests = c.requests /\ f.waiters = c.waiters /\ f.bytes = c.bytes - c.req[v].bytes
  <2>1. ~e.req[v].counted /\ ~e.req[v].claim /\ e.req[v].bytes = c.req[v].bytes
    BY <1>6, <1>8, <1>10 DEF SameCore, SameClaims
  <2>2. e.requests = c.requests /\ e.waiters = c.waiters /\ e.bytes = c.bytes
    BY <1>7, <1>10 DEF Light, SameCounters, Pairs
  <2> QED
    BY <1>12, <2>1, <2>2 DEF Left, Release, CoordinatorType
<1>19. ASSUME HasReservation(c, v), c.req[v].ticket, ~c.req[r].ticket
       PROVE  /\ f.req[r].ticket /\ ~f.req[v].ticket /\ ~f.req[v].token /\ f.results = c.results
              /\ \A z \in Contexts : f.ctx[z] = IF Bound(c, v) /\ z = c.req[v].spec.context
                                                THEN Unreserve(c.ctx[z], v) ELSE c.ctx[z]
  <2>1. a.req[v].ticket /\ ~a.req[r].ticket
    BY <1>6, <1>8, <1>19 DEF SameHold
  <2>2. e.req[r].ticket /\ ~e.req[v].ticket
    BY <1>9, <2>1 DEF TicketPassed
  <2>3. e.req[v].spec = c.req[v].spec /\ e.req[v].token = c.req[v].token
    BY <1>6, <1>8, <1>9, <1>10 DEF SameCore, SameCourse, SameHold, TicketPassed
  <2>4. HasReservation(e, v)
    BY <1>10, <1>19, <2>3 DEF HasReservation, Bound, ContextOf
  <2>5. LetsGo(e, f, v)
    BY <1>12, <2>4
  <2>6. f.results = c.results
    BY <1>10, <2>2, <2>5 DEF LetsGo, Release, CoordinatorType
  <2>7. Bound(e, v) <=> Bound(c, v)
    BY <2>3 DEF Bound
  <2> QED
    BY <1>10, <1>13, <2>2, <2>3, <2>5, <2>6, <2>7 DEF LetsGo
<1> QED
  BY <1>1, <1>13, <1>14, <1>15, <1>16, <1>17, <1>18, <1>19 DEF Inherits

(* A frame whose copy is complete stands where a swap would have put it. *)
LEMMA InheritSound ==
  ASSUME NEW b, NEW c, NEW s, NEW w, NEW L, NEW staging, NEW running,
         Sound(b, c, s, w, L, staging, running), NEW r \in Requests, NEW v \in Requests,
         Copies(s, r, v), NEW t, Moves(s, t, r, "swap", v), NEW d, Inherits(c, d, r, v)
  PROVE  Sound(b, d, t, w, L, staging, running) /\ Decided(c, d)
<1>1. Accounts(c, s, L, staging)
  BY DEF Sound
<1>2. /\ c \in CoordinatorType /\ L \in SUBSET Requests /\ Placed(c.req[r], "snapshot", v, r \in L)
      /\ NoRequest \notin Requests /\ VictimsOK(c, s) /\ Placed(c.req[v], s[v].pc, s[v].victim, v \in L)
      /\ s[r].pc = "snapshot" /\ s[r].victim = v
  BY <1>1, Parts DEF Copies
<1>3. c.req[r].state = "QUEUED" /\ c.req[r].result = "none" /\ r \notin L
  BY <1>2 DEF Placed
<1>4. s[v].pc = "accepted" /\ c.req[v].state = "QUEUED"
  BY <1>2 DEF VictimsOK
<1>5. v # r /\ v \notin L /\ c.req[v].result = "none"
  BY <1>2, <1>4 DEF Placed
<1>6. /\ d \in CoordinatorType
      /\ \A q \in Requests : q \notin {r, v} => SameCore(c.req[q], d.req[q]) /\ SameHold(c.req[q], d.req[q])
      /\ SameCourse(c.req[r], d.req[r]) /\ d.req[r].budget = c.req[r].budget
      /\ d.req[r].bytes = c.req[r].bytes /\ d.req[r].counted /\ d.req[r].claim
      /\ d.req[r].token = c.req[r].token
      /\ d.req[v].spec = c.req[v].spec /\ d.req[v].result = c.req[v].result
      /\ d.req[v].state = "SUPERSEDED" /\ Clear(d.req[v])
      /\ d.queue = Without(c.queue, {v}) /\ d.inflight = c.inflight
      /\ d.replacements = c.replacements /\ d.requests = c.requests /\ d.waiters = c.waiters
      /\ d.bytes = c.bytes - c.req[v].bytes
  BY DEF Inherits
<1>7. Accounts(d, t, L, staging)
  <2>1. \A q \in Requests : q \notin {r, v} => SameCore(c.req[q], d.req[q])
    BY <1>6
  <2> QED
    BY <1>1, <1>6, <2>1, InheritKeeps
<1>8. Decided(c, d)
  <2>1. \A q \in Requests : q \in {r, v} => c.req[q].state \in {"NONE", "QUEUED"}
    BY <1>3, <1>4
  <2>2. \A q \in Requests : q \notin {r, v} => SameCore(c.req[q], d.req[q])
    BY <1>6
  <2> QED
    BY <2>1, <2>2, OthersDecided
<1>9. ASSUME b PROVE Reservations(d, t, w, L, running)
  <2>1. Reservations(c, s, w, L, running)
    BY <1>9 DEF Sound
  <2>2. /\ TicketOK(c.req[r], "snapshot", v, FALSE) /\ TokenOK(c, r, LeftBy(s, r), FALSE)
        /\ TicketOK(c.req[v], "accepted", s[v].victim, FALSE) /\ TokenOK(c, v, LeftBy(s, v), FALSE)
    <3>1. /\ TicketOK(c.req[r], s[r].pc, s[r].victim, r \in L) /\ TokenOK(c, r, LeftBy(s, r), r \in L)
          /\ TicketOK(c.req[v], s[v].pc, s[v].victim, v \in L) /\ TokenOK(c, v, LeftBy(s, v), v \in L)
      BY <1>4, <2>1 DEF Reservations
    <3>2. (r \in L) = FALSE /\ (v \in L) = FALSE
      BY <1>3, <1>5
    <3> QED
      BY <1>2, <1>4, <3>1, <3>2
  <2>3. c.req[v].ticket /\ ~c.req[r].ticket /\ HasReservation(c, v)
    <3>1. HasReservation(c, v)
      BY <1>2, <1>4, <2>1, WaitingHolds
    <3> QED
      BY <1>2, <1>4, <2>2, <3>1 DEF TicketOK
  <2>4. /\ d.req[r].ticket /\ ~d.req[v].ticket /\ ~d.req[v].token /\ d.results = c.results
        /\ \A z \in Contexts : d.ctx[z] = IF Bound(c, v) /\ z = c.req[v].spec.context
                                          THEN Unreserve(c.ctx[z], v) ELSE c.ctx[z]
    BY <2>3 DEF Inherits
  <2>5. /\ d.req[r].spec = c.req[r].spec /\ d.req[r].state = "QUEUED" /\ d.req[r].result = "none"
    BY <1>3, <1>6 DEF SameCourse
  <2>6. \A z \in Contexts : z # c.req[v].spec.context => d.ctx[z] = c.ctx[z]
    BY <2>4
  <2>7. Bound(c, v) => /\ c.req[v].spec.context \in Contexts
                       /\ c.ctx[c.req[v].spec.context].token = v
                       /\ d.ctx[c.req[v].spec.context].token = NoRequest
                       /\ d.ctx[c.req[v].spec.context].state \in {"READY", "CANCELLED"}
    <3> HAVE Bound(c, v)
    <3>1. c.req[v].spec.context \in Contexts /\ ContextOf(c, v) \in ContextType
      BY <1>2, Typed
    <3>2. c.req[v].token /\ ContextOf(c, v).token = v /\ UnreserveOK(ContextOf(c, v), v)
      BY <1>4, <2>2, <2>3 DEF TokenOK, HasReservation
    <3> QED
      BY <2>4, <3>1, <3>2, UnreserveFrees DEF ContextOf
  <2>8. Elsewhere(c, d, {r, v}) /\ {r, v} \in SUBSET Requests
    <3>1. \A q \in Requests \ {r, v} : SameStay(c.req[q], d.req[q])
      BY <1>6 DEF SameStay, SameCore, SameCourse
    <3>2. \A z \in Contexts :
            d.ctx[z] = c.ctx[z] \/ {c.ctx[z].token, d.ctx[z].token} \subseteq {r, v} \cup {NoRequest}
      BY <2>4, <2>7
    <3> QED
      BY <3>1, <3>2 DEF Elsewhere
  <2>9. Aside(c, s, t, L, L, {r, v})
    <3>1. r \in {r, v}
      OBVIOUS
    <3>2. s[r].pc = "swap" => s[r].victim = NoRequest \/ ~c.req[s[r].victim].token
      BY <1>2
    <3> QED
      BY <3>1, <3>2, MovesAside
  <2>10. t[r].pc = "swap" /\ t[r].victim = v /\ t[v] = s[v]
    BY <1>5 DEF Moves
  <2>11. TicketOK(d.req[r], t[r].pc, t[r].victim, FALSE) /\ TicketOK(d.req[v], t[v].pc, t[v].victim, FALSE)
    BY <1>4, <1>6, <2>4, <2>5, <2>10 DEF TicketOK, Terminal
  <2>12. TokenOK(d, r, LeftBy(t, r), FALSE)
    <3>1. CASE ~Bound(c, r)
      BY <1>6, <2>2, <2>5, <3>1 DEF TokenOK, Bound, Terminal
    <3>2. CASE Bound(c, r)
      <4>1. c.req[r].token /\ ContextOf(c, r).token = r /\ c.req[r].spec.context \in Contexts
        BY <1>2, <1>3, <2>2, <3>2, Typed DEF TokenOK
      <4>2. d.ctx[c.req[r].spec.context] = c.ctx[c.req[r].spec.context]
        BY <1>5, <2>4, <2>7, <4>1 DEF ContextOf
      <4> QED
        BY <1>6, <2>2, <2>5, <3>2, <4>1, <4>2 DEF TokenOK, Bound, ContextOf, Terminal
    <3> QED
      BY <3>1, <3>2
  <2>13. TokenOK(d, v, LeftBy(t, v), FALSE)
    BY <1>6, <2>4 DEF TokenOK
  <2>14. \A q \in {r, v} : /\ q \notin L /\ TicketOK(d.req[q], t[q].pc, t[q].victim, FALSE)
                           /\ TokenOK(d, q, LeftBy(t, q), FALSE)
    BY <1>3, <1>5, <2>11, <2>12, <2>13
  <2>15. ASSUME NEW x \in Contexts, d.ctx[x] # c.ctx[x] \/ c.ctx[x].token \in {r, v}
         PROVE  HolderOK(d, x)
    <3>1. HolderOK(c, x) /\ NoContext \notin Contexts
      BY <2>1, RequestConstants DEF Reservations
    <3>2. CASE x = c.req[v].spec.context
      <4>1. Bound(c, v)
        BY <3>1, <3>2 DEF Bound
      <4> QED
        BY <2>7, <3>2, <4>1 DEF HolderOK
    <3>3. CASE x # c.req[v].spec.context
      <4>1. d.ctx[x] = c.ctx[x]
        BY <2>6, <3>3
      <4>2. c.ctx[x].token = r
        BY <1>2, <2>15, <3>1, <3>3, <4>1 DEF HolderOK
      <4> QED
        BY <1>2, <1>3, <1>6, <2>5, <3>1, <4>1, <4>2 DEF HolderOK, SameCourse
    <3> QED
      BY <3>2, <3>3
  <2>16. Results(d, running)
    <3>1. Results(c, running)
      BY <2>1 DEF Reservations
    <3>2. \A q \in Requests : q \notin {r, v} => d.req[q].ticket = c.req[q].ticket
      BY <1>6 DEF SameHold
    <3>3. \A q \in Requests : Delivers(d.req[q]) <=> Delivers(c.req[q])
      BY <1>3, <1>5, <1>6, <2>5 DEF Delivers, SameCore, SameCourse
    <3> QED
      BY <1>2, <1>5, <1>6, <2>3, <2>4, <3>1, <3>2, <3>3, ResultsMoved
  <2> QED
    BY <1>2, <1>6, <2>1, <2>8, <2>9, <2>14, <2>15, <2>16, AwayKeeps
<1> QED
  BY <1>7, <1>8, <1>9 DEF Sound
=============================================================================
